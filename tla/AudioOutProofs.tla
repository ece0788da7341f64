--------------------------- MODULE AudioOutProofs ---------------------------
(***************************************************************************)
(* The safety properties of the sound driver's playback for every set of   *)
(* geometries, every number of fragments and any amount of data.           *)
(***************************************************************************)
EXTENDS AudioOut, SequenceTheorems, WellFoundedInduction, TLAPS

USE AudioAssumption

(***************************************************************************)
(* The inductive invariant.                                                *)
(***************************************************************************)
Transfer == [buf : Nat, size : Nat]

\* The ring has fragments and they have room; transfers are in the queue with
\* their buffer and size; only buffers of the ring are lost.
StreamType ==
  /\ frags \in Nat /\ fragsize \in Nat
  /\ frags # 0 => frags > 1 /\ fragsize > 0
  /\ chain \in Seq(Transfer)
  /\ lost \subseteq Buffers
  /\ count \in Nat /\ ret \in Int

\* Only the current buffer holds data that is not queued; it is full when it is
\* about to be queued and empty when sync waits.
FillLevels ==
  /\ \A b \in Buffers : b # buf_idx => size[b] = 0
  /\ pc = "enqueue" => size[buf_idx] = fragsize
  /\ pc = "wait" => size[buf_idx] = 0

\* The transfer queued last is of the buffer before the current one, unless that
\* one was lost, or of the current one, full, when its enqueue was reported as
\* failed.
LastQueued ==
  chain # <<>> =>
    \/ chain[Len(chain)].buf = Previous
    \/ Previous \in lost
    \/ chain[Len(chain)].buf = buf_idx /\ size[buf_idx] # 0

IInv == OwnerInv /\ StreamType /\ FillLevels /\ LastQueued /\ SyncComplete

(***************************************************************************)
(* Sequences and the ring.                                                 *)
(***************************************************************************)
\* A remainder by a modulus larger than the dividend.
LEMMA ModSmall ==
  ASSUME NEW n \in Nat \ {0}, NEW a \in 0 .. n - 1
  PROVE  a % n = a
OBVIOUS

\* A remainder after one turn around the ring.
LEMMA ModWrap ==
  ASSUME NEW n \in Nat \ {0}, NEW a \in n .. 2 * n - 1
  PROVE  a % n = a - n
OBVIOUS

\* NEXT_BUF stays in the ring and Previous takes it back.
LEMMA RingStep ==
  ASSUME frags \in Nat, frags > 1, buf_idx \in 0 .. frags - 1
  PROVE  /\ NEXT_BUF(buf_idx) \in 0 .. frags - 1
         /\ NEXT_BUF(buf_idx) # buf_idx
         /\ (frags + NEXT_BUF(buf_idx) - 1) % frags = buf_idx
         /\ Previous \in 0 .. frags - 1
<1> DEFINE n == NEXT_BUF(buf_idx)
           goal == n # buf_idx /\ (frags + n - 1) % frags = buf_idx
<1>1. n = IF buf_idx + 1 < frags THEN buf_idx + 1 ELSE 0
  <2>1. CASE buf_idx + 1 < frags
    BY <2>1, ModSmall DEF NEXT_BUF
  <2>2. CASE ~(buf_idx + 1 < frags)
    BY <2>2, ModWrap DEF NEXT_BUF
  <2> QED
    BY <2>1, <2>2
<1>2. n \in 0 .. frags - 1
  BY <1>1
<1>3. ASSUME n = 0 PROVE goal
  <2>1. frags + n - 1 \in 0 .. frags - 1
    BY <1>3
  <2>2. (frags + n - 1) % frags = frags - 1
    BY <1>3, <2>1, ModSmall
  <2> QED
    BY <1>1, <1>3, <2>2
<1>4. ASSUME n # 0 PROVE goal
  <2>1. frags + n - 1 \in frags .. 2 * frags - 1
    BY <1>2, <1>4
  <2>2. (frags + n - 1) % frags = n - 1
    <3> DEFINE a == frags + n - 1
    <3>1. a \in frags .. 2 * frags - 1 /\ frags \in Nat \ {0}
      BY <2>1
    <3>2. a - frags = n - 1
      BY <1>2
    <3> HIDE DEF a
    <3>3. a % frags = a - frags
      BY <3>1, ModWrap
    <3> QED
      BY <3>2, <3>3 DEF a
  <2> QED
    BY <1>1, <1>4, <2>2
<1>5. Previous \in 0 .. frags - 1
  BY DEF Previous
<1> QED
  BY <1>1, <1>2, <1>3, <1>4, <1>5

\* What a transfer at the end of the queue changes.
LEMMA AppendChain ==
  ASSUME NEW c \in Seq(Transfer), NEW t \in Transfer
  PROVE  LET d == Append(c, t)
         IN  /\ d \in Seq(Transfer)
             /\ d # <<>>
             /\ d[Len(d)] = t
             /\ DOMAIN c = 1 .. Len(c) /\ Len(c) \in Nat
             /\ DOMAIN d = 1 .. Len(c) + 1 /\ Len(d) = Len(c) + 1
             /\ \A k \in DOMAIN c : d[k] = c[k]
             /\ {d[k].buf : k \in DOMAIN d}
                  = {c[k].buf : k \in DOMAIN c} \union {t.buf}
<1> DEFINE d == Append(c, t)
<1>1. /\ d \in Seq(Transfer) /\ d # <<>> /\ Len(d) = Len(c) + 1
      /\ d[Len(c) + 1] = t
      /\ \A k \in 1 .. Len(c) : d[k] = c[k]
  BY AppendProperties
<1>2. Len(c) \in Nat /\ DOMAIN c = 1 .. Len(c) /\ DOMAIN d = 1 .. Len(c) + 1
  BY <1>1, LenProperties
<1> HIDE DEF d
<1>3. {d[k].buf : k \in DOMAIN d}
        = {c[k].buf : k \in DOMAIN c} \union {t.buf}
  BY <1>1, <1>2
<1> QED
  BY <1>1, <1>2, <1>3 DEF d

\* What taking the transfer at the head of the queue changes.
LEMMA TailChain ==
  ASSUME NEW c \in Seq(Transfer), c # <<>>
  PROVE  LET d == Tail(c)
         IN  /\ d \in Seq(Transfer)
             /\ Head(c) = c[1] /\ Head(c) \in Transfer /\ 1 \in DOMAIN c
             /\ Len(c) \in Nat \ {0} /\ Len(d) = Len(c) - 1
             /\ DOMAIN c = 1 .. Len(c) /\ DOMAIN d = 1 .. Len(c) - 1
             /\ \A k \in DOMAIN d : d[k] = c[k + 1]
             /\ d # <<>> => d[Len(d)] = c[Len(c)]
<1> DEFINE d == Tail(c)
<1>1. /\ d \in Seq(Transfer) /\ Len(d) = Len(c) - 1
      /\ Head(c) \in Transfer /\ Head(c) = c[1]
      /\ \A k \in 1 .. Len(d) : d[k] = c[k + 1]
  BY HeadTailProperties
<1>2. Len(c) \in Nat \ {0} /\ DOMAIN c = 1 .. Len(c)
  BY EmptySeq, LenProperties
<1>3. DOMAIN d = 1 .. Len(c) - 1 /\ (d # <<>> => Len(d) \in Nat \ {0})
  BY <1>1, EmptySeq, LenProperties
<1> HIDE DEF d
<1>4. d # <<>> => d[Len(d)] = c[Len(c)]
  BY <1>1, <1>2, <1>3
<1> QED
  BY <1>1, <1>2, <1>3, <1>4 DEF d

(***************************************************************************)
(* Steps that leave the stream alone, clear it or set it up.               *)
(***************************************************************************)
PcSet == {"closed", "user", "down", "fill", "enqueue", "flush", "wait",
          "synced", "poll", "woken"}
NeedBuffers == {"down", "fill", "enqueue", "flush", "wait", "poll", "woken"}
Core == <<frags, fragsize, buf_idx, size, sem, chain, lost>>

\* A step of the process outside the copy loop that leaves the stream alone.
LEMMA QuietStep ==
  ASSUME IInv, UNCHANGED Core,
         geometry' \in Geometry, channels' \in {1, 2},
         count' \in Nat, ret' \in Int,
         pc \notin {"fill", "enqueue"}, pc' \in PcSet \ {"fill", "enqueue"},
         frags = 0 => pc' \notin NeedBuffers,
         pc' = "wait" => size[buf_idx] = 0,
         SyncComplete'
  PROVE  IInv'
<1> USE DEF Core
<1>1. Buffers' = Buffers /\ InChain' = InChain /\ Previous' = Previous
  BY DEF Buffers, InChain, Previous
<1>2. TypeOK'
  BY <1>1 DEF IInv, OwnerInv, TypeOK, PcSet, NeedBuffers
<1>3. OneOwner'
  <2>1. \A b : ~Writing(b) /\ ~Writing(b)'
    BY DEF Writing
  <2> QED
    BY <1>1, <2>1 DEF IInv, OwnerInv, OneOwner
<1>4. StreamType'
  BY <1>1 DEF IInv, StreamType
<1>5. FillLevels'
  BY <1>1 DEF IInv, FillLevels
<1>6. LastQueued'
  BY <1>1 DEF IInv, LastQueued
<1> QED
  BY <1>2, <1>3, <1>4, <1>5, <1>6 DEF IInv, OwnerInv

\* audio_clear_buf leaves nothing behind.
LEMMA ClearStep ==
  ASSUME audio_clear_buf, geometry' \in Geometry, channels' \in {1, 2},
         count' \in Nat, ret' \in Int, pc' \in {"user", "closed"}
  PROVE  IInv'
<1>1. /\ frags' = 0 /\ fragsize' = 0 /\ buf_idx' = 0 /\ chain' = <<>>
      /\ lost' = {} /\ size' = NoBuffers /\ sem' = NoBuffers
  BY DEF audio_clear_buf
<1>2. Buffers' = {} /\ InChain' = {} /\ DOMAIN chain' = {}
  BY <1>1 DEF Buffers, InChain
<1>3. \A S : NoBuffers \in [{} -> S]
  BY DEF NoBuffers
<1>4. TypeOK'
  BY <1>1, <1>2, <1>3 DEF TypeOK
<1>5. OneOwner'
  BY <1>2 DEF OneOwner
<1>6. StreamType'
  BY <1>1, <1>2 DEF StreamType
<1>7. FillLevels' /\ LastQueued' /\ SyncComplete'
  BY <1>1, <1>2 DEF FillLevels, LastQueued, SyncComplete
<1> QED
  BY <1>4, <1>5, <1>6, <1>7 DEF IInv, OwnerInv

\* audio_setup_buf: every buffer empty and free.
LEMMA SetupStep ==
  ASSUME IInv, frags = 0, NEW g \in Geometry, audio_setup_buf(g),
         geometry' \in Geometry, channels' \in {1, 2},
         count' \in Nat, ret' \in Int, pc' \in {"user", "down", "poll"}
  PROVE  IInv'
<1>0. g[1] \in Nat \ {0, 1} /\ g[2] \in Nat \ {0}
  OBVIOUS
<1>1. /\ frags' = g[1] /\ fragsize' = g[2] /\ buf_idx' = 0
      /\ size' = [b \in 0 .. g[1] - 1 |-> 0]
      /\ sem' = [b \in 0 .. g[1] - 1 |-> 1]
      /\ UNCHANGED <<chain, lost>>
  BY DEF audio_setup_buf, ghosts
<1>2. chain = <<>> /\ lost = {}
  BY <1>0 DEF IInv, OwnerInv, TypeOK, StreamType, Buffers
<1>3. Buffers' = 0 .. g[1] - 1 /\ InChain' = {} /\ DOMAIN chain' = {}
  BY <1>1, <1>2 DEF Buffers, InChain
<1>4. TypeOK'
  BY <1>0, <1>1, <1>2, <1>3 DEF TypeOK
<1>5. OneOwner'
  <2>1. \A b : ~Writing(b)'
    BY DEF Writing
  <2> QED
    BY <1>1, <1>2, <1>3, <2>1 DEF OneOwner
<1>6. StreamType'
  BY <1>0, <1>1, <1>2, <1>3 DEF StreamType
<1>7. FillLevels' /\ LastQueued' /\ SyncComplete'
  BY <1>1, <1>2, <1>3 DEF FillLevels, LastQueued, SyncComplete
<1> QED
  BY <1>4, <1>5, <1>6, <1>7 DEF IInv, OwnerInv

(***************************************************************************)
(* Steps that hand a buffer over.                                          *)
(***************************************************************************)
\* What the steps below start from: the ring, the current buffer in it, and the
\* owner of each buffer.
LEMMA Ring ==
  ASSUME IInv, frags # 0
  PROVE  /\ frags \in Nat /\ frags > 1 /\ fragsize \in Nat /\ fragsize > 0
         /\ Buffers = 0 .. frags - 1 /\ buf_idx \in Buffers
         /\ sem \in [Buffers -> 0 .. 1] /\ size \in [Buffers -> 0 .. fragsize]
         /\ chain \in Seq(Transfer)
         /\ sem[buf_idx] \in 0 .. 1 /\ size[buf_idx] \in 0 .. fragsize
BY DEF IInv, OwnerInv, TypeOK, StreamType, Buffers

\* write takes the current buffer.
LEMMA DownStep == IInv /\ Down => IInv'
<1> SUFFICES ASSUME IInv, Down PROVE IInv'
  OBVIOUS
<1>0. frags # 0
  BY DEF Down, IInv, OwnerInv, TypeOK
<1>1. /\ sem[buf_idx] > 0 /\ sem' = [sem EXCEPT ![buf_idx] = 0]
      /\ pc' = "fill" /\ pc = "down"
      /\ UNCHANGED <<count, ret, geometry, channels, frags, fragsize, buf_idx,
                     size, chain, lost>>
  BY DEF Down, Goto, settings, ghosts
<1>2. Buffers' = Buffers /\ InChain' = InChain /\ Previous' = Previous
  BY <1>1 DEF Buffers, InChain, Previous
<1>3. TypeOK'
  BY <1>0, <1>1, <1>2, Ring DEF IInv, OwnerInv, TypeOK
<1>4. OneOwner'
  <2>1. \A b \in Buffers : ~Writing(b) /\ (Writing(b)' <=> b = buf_idx)
    BY <1>1 DEF Writing
  <2>2. \A b \in Buffers : sem'[b] = IF b = buf_idx THEN 0 ELSE sem[b]
    BY <1>0, <1>1, Ring
  <2>3. buf_idx \notin InChain \union lost
    BY <1>0, <1>1, Ring DEF IInv, OwnerInv, OneOwner
  <2> QED
    BY <1>1, <1>2, <2>1, <2>2, <2>3 DEF IInv, OwnerInv, OneOwner
<1>5. StreamType' /\ FillLevels' /\ LastQueued' /\ SyncComplete'
  BY <1>1, <1>2 DEF IInv, StreamType, FillLevels, LastQueued, SyncComplete
<1> QED
  BY <1>3, <1>4, <1>5 DEF IInv, OwnerInv

\* write gives the current buffer back, with the fill level changed or not.
LEMMA GiveBackStep ==
  ASSUME IInv, pc = "fill", pc' = "user", sem' = Up(buf_idx),
         NEW n \in 0 .. fragsize, size' = [size EXCEPT ![buf_idx] = n],
         UNCHANGED <<geometry, channels, frags, fragsize, buf_idx, chain, lost>>,
         count' \in Nat, ret' \in Int
  PROVE  IInv'
<1>0. frags # 0
  BY DEF IInv, OwnerInv, TypeOK
<1>1. Buffers' = Buffers /\ InChain' = InChain /\ Previous' = Previous
  BY DEF Buffers, InChain, Previous
<1>2. Writing(buf_idx) /\ buf_idx \notin InChain \union lost /\ sem[buf_idx] = 0
  BY <1>0, Ring DEF Writing, IInv, OwnerInv, OneOwner
<1>3. /\ \A b \in Buffers : sem'[b] = IF b = buf_idx THEN 1 ELSE sem[b]
      /\ \A b \in Buffers : size'[b] = IF b = buf_idx THEN n ELSE size[b]
      /\ sem' \in [Buffers -> 0 .. 1] /\ size' \in [Buffers -> 0 .. fragsize]
  BY <1>0, <1>2, Ring DEF Up
<1>4. TypeOK'
  BY <1>0, <1>1, <1>3, Ring DEF IInv, OwnerInv, TypeOK
<1>5. OneOwner'
  <2>1. \A b \in Buffers : ~Writing(b)' /\ (Writing(b) <=> b = buf_idx)
    BY DEF Writing
  <2> QED
    BY <1>1, <1>2, <1>3, <2>1 DEF IInv, OwnerInv, OneOwner
<1>6. StreamType'
  BY <1>1 DEF IInv, StreamType
<1>7. FillLevels'
  BY <1>1, <1>3 DEF IInv, FillLevels
<1>8. LastQueued'
  <2>1. chain # <<>> => chain[Len(chain)].buf \in InChain
    <3>1. chain # <<>> => Len(chain) \in DOMAIN chain
      BY <1>0, Ring, EmptySeq, LenProperties
    <3> QED
      BY <3>1 DEF InChain
  <2> QED
    BY <1>1, <1>2, <2>1 DEF IInv, LastQueued
<1>9. SyncComplete'
  BY DEF SyncComplete
<1> QED
  BY <1>4, <1>5, <1>6, <1>7, <1>8, <1>9 DEF IInv, OwnerInv

\* A copy that fails gives the buffer back as it was.
LEMMA CopyFailsStep == IInv /\ CopyFails => IInv'
<1> SUFFICES ASSUME IInv, CopyFails PROVE IInv'
  OBVIOUS
<1>0. frags # 0
  BY DEF CopyFails, IInv, OwnerInv, TypeOK
<1>1. /\ pc = "fill" /\ pc' = "user" /\ sem' = Up(buf_idx)
      /\ UNCHANGED <<geometry, channels, frags, fragsize, buf_idx, size, chain,
                     lost>>
      /\ count' \in Nat /\ ret' \in Int
  BY DEF CopyFails, Return, EFAULT, settings, ghosts
<1>2. size' = [size EXCEPT ![buf_idx] = size[buf_idx]]
  BY <1>0, <1>1, Ring
<1> QED
  BY <1>0, <1>1, <1>2, Ring, GiveBackStep

\* What is copied fits.
LEMMA ChunkFits ==
  ASSUME IInv, frags # 0
  PROVE  Chunk \in Nat /\ Chunk <= count /\ size[buf_idx] + Chunk \in 0 .. fragsize
BY Ring DEF Chunk, IInv, StreamType

\* A copy fills the buffer, which is then about to be queued, or gives it back.
LEMMA FillStep == IInv /\ Fill => IInv'
<1> SUFFICES ASSUME IInv, Fill PROVE IInv'
  OBVIOUS
<1>0. frags # 0
  BY DEF Fill, IInv, OwnerInv, TypeOK
<1> DEFINE n == size[buf_idx] + Chunk
<1>1. /\ pc = "fill" /\ size' = [size EXCEPT ![buf_idx] = n]
      /\ UNCHANGED <<geometry, channels, frags, fragsize, buf_idx, chain, lost>>
  BY DEF Fill, settings
<1>2. n \in 0 .. fragsize /\ Chunk \in Nat /\ Chunk <= count
  BY <1>0, ChunkFits
<1>3. ret \in Int /\ count \in Nat
  BY DEF IInv, StreamType
<1>4. CASE n = fragsize
  <2>1. /\ pc' = "enqueue" /\ count' \in Nat /\ ret' \in Int
        /\ UNCHANGED sem
    BY <1>2, <1>3, <1>4 DEF Fill
  <2>2. Buffers' = Buffers /\ InChain' = InChain /\ Previous' = Previous
    BY <1>1 DEF Buffers, InChain, Previous
  <2>3. /\ \A b \in Buffers : size'[b] = IF b = buf_idx THEN n ELSE size[b]
        /\ size' \in [Buffers -> 0 .. fragsize]
    BY <1>0, <1>1, <1>2, Ring
  <2>4. TypeOK'
    BY <1>0, <1>1, <2>1, <2>2, <2>3, Ring DEF IInv, OwnerInv, TypeOK
  <2>5. \A b : Writing(b)' <=> Writing(b)
    BY <1>1, <2>1 DEF Writing
  <2>6. OneOwner'
    BY <1>1, <2>1, <2>2, <2>5 DEF IInv, OwnerInv, OneOwner
  <2>7. StreamType'
    BY <1>1, <2>1, <2>2 DEF IInv, StreamType
  <2>8. FillLevels'
    BY <1>0, <1>1, <1>4, <2>1, <2>2, <2>3, Ring DEF IInv, FillLevels
  <2>9. LastQueued'
    BY <1>0, <1>1, <1>4, <2>1, <2>2, <2>3, Ring DEF IInv, LastQueued
  <2>10. SyncComplete'
    BY <2>1 DEF SyncComplete
  <2> QED
    BY <2>4, <2>6, <2>7, <2>8, <2>9, <2>10 DEF IInv, OwnerInv
<1>5. CASE n # fragsize
  <2>1. /\ pc' = "user" /\ sem' = Up(buf_idx)
        /\ count' \in Nat /\ ret' \in Int
    BY <1>2, <1>3, <1>5 DEF Fill, Return, PartialReleased
  <2> HIDE DEF n
  <2> QED
    BY <1>1, <1>2, <2>1, GiveBackStep
<1> QED
  BY <1>4, <1>5

\* The current buffer goes to the end of the DMA queue, or is lost.
HandedOver ==
  \/ chain' = Append(chain, [buf |-> buf_idx, size |-> size[buf_idx]])
     /\ UNCHANGED lost
  \/ lost' = lost \union {buf_idx} /\ UNCHANGED chain

\* A buffer that nobody else owns keeps one owner when it is handed over.
LEMMA OwnerMoves ==
  ASSUME IInv, frags # 0, HandedOver, UNCHANGED frags,
         buf_idx \notin InChain \union lost,
         pc' \notin {"fill", "enqueue"},
         sem' = [sem EXCEPT ![buf_idx] = 0]
  PROVE  /\ OneOwner' /\ Buffers' = Buffers
         /\ InChain' \subseteq Buffers /\ lost' \subseteq Buffers
         /\ chain' \in Seq(Transfer)
         /\ sem' \in [Buffers -> 0 .. 1]
<1>1. Buffers' = Buffers
  BY DEF Buffers
<1>2. /\ sem' \in [Buffers -> 0 .. 1]
      /\ \A b \in Buffers : sem'[b] = IF b = buf_idx THEN 0 ELSE sem[b]
  BY Ring
<1>3. \A b \in Buffers : Writing(b) => b = buf_idx
  BY DEF Writing
<1>4. \A b : ~Writing(b)'
  BY DEF Writing
<1>5. /\ \A j, k \in DOMAIN chain : chain[j].buf = chain[k].buf => j = k
      /\ \A b \in Buffers :
           /\ sem[b] = 0 <=> (b \in InChain \/ Writing(b) \/ b \in lost)
           /\ b \notin InChain \intersect lost
      /\ InChain \subseteq Buffers /\ lost \subseteq Buffers
  BY DEF IInv, OwnerInv, OneOwner, TypeOK, StreamType
<1>6. CASE /\ chain' = Append(chain, [buf |-> buf_idx, size |-> size[buf_idx]])
           /\ UNCHANGED lost
  <2> DEFINE t == [buf |-> buf_idx, size |-> size[buf_idx]]
  <2>1. t \in Transfer /\ t.buf = buf_idx
    BY Ring DEF Transfer
  <2> HIDE DEF t
  <2>2. /\ chain \in Seq(Transfer) /\ chain' = Append(chain, t)
    BY <1>6, Ring DEF t
  <2>3. /\ chain' \in Seq(Transfer)
        /\ Len(chain) \in Nat /\ DOMAIN chain = 1 .. Len(chain)
        /\ DOMAIN chain' = 1 .. Len(chain) + 1
        /\ chain'[Len(chain) + 1] = t
        /\ \A k \in DOMAIN chain : chain'[k] = chain[k]
    BY <2>1, <2>2, AppendChain
  <2>4. InChain' = InChain \union {buf_idx}
    <3>1. {Append(chain, t)[k].buf : k \in DOMAIN Append(chain, t)}
            = InChain \union {t.buf}
      BY <2>1, <2>2, AppendChain DEF InChain
    <3> QED
      BY <2>1, <2>2, <3>1 DEF InChain
  <2>5. \A k \in DOMAIN chain : chain[k].buf # buf_idx
    BY DEF InChain
  <2>6. \A j, k \in DOMAIN chain' : chain'[j].buf = chain'[k].buf => j = k
    BY <1>5, <2>1, <2>3, <2>5
  <2>7. OneOwner'
    BY <1>1, <1>2, <1>3, <1>4, <1>5, <1>6, <2>3, <2>4,
       <2>6 DEF OneOwner
  <2> QED
    BY <1>1, <1>2, <1>5, <1>6, <2>3, <2>4, <2>7, Ring
<1>7. CASE lost' = lost \union {buf_idx} /\ UNCHANGED chain
  <2>1. InChain' = InChain
    BY <1>7 DEF InChain
  <2>2. OneOwner'
    BY <1>1, <1>2, <1>3, <1>4, <1>5, <1>7, <2>1 DEF OneOwner
  <2> QED
    BY <1>1, <1>2, <1>5, <1>7, <2>1, <2>2, Ring
<1> QED
  BY <1>6, <1>7 DEF HandedOver

\* A buffer is handed over and the next one becomes the current one.
LEMMA AdvanceStep ==
  ASSUME IInv, frags # 0, HandedOver,
         buf_idx \notin InChain \union lost,
         sem' = [sem EXCEPT ![buf_idx] = 0],
         size' = [size EXCEPT ![buf_idx] = 0], buf_idx' = NEXT_BUF(buf_idx),
         pc' \in {"user", "down", "wait"},
         UNCHANGED <<geometry, channels, frags, fragsize>>,
         count' \in Nat, ret' \in Int
  PROVE  IInv'
<1>1. /\ OneOwner' /\ Buffers' = Buffers
      /\ InChain' \subseteq Buffers /\ lost' \subseteq Buffers
      /\ chain' \in Seq(Transfer)
      /\ sem' \in [Buffers -> 0 .. 1]
  BY OwnerMoves
<1>2. /\ buf_idx' \in Buffers /\ buf_idx' # buf_idx
      /\ Previous' = buf_idx
  <2>1. /\ NEXT_BUF(buf_idx) \in 0 .. frags - 1
        /\ NEXT_BUF(buf_idx) # buf_idx
        /\ (frags + NEXT_BUF(buf_idx) - 1) % frags = buf_idx
    BY Ring, RingStep
  <2> QED
    BY <2>1, Ring DEF Previous
<1>3. /\ \A b \in Buffers : size'[b] = 0
      /\ size' \in [Buffers -> 0 .. fragsize]
  BY Ring DEF IInv, FillLevels
<1>4. TypeOK'
  BY <1>1, <1>2, <1>3, Ring DEF IInv, OwnerInv, TypeOK
<1>5. StreamType'
  BY <1>1, Ring DEF StreamType
<1>6. FillLevels'
  BY <1>1, <1>2, <1>3 DEF FillLevels
<1>7. LastQueued'
  <2>1. CASE lost' = lost \union {buf_idx}
    BY <1>2, <2>1 DEF LastQueued
  <2>2. CASE chain' = Append(chain, [buf |-> buf_idx, size |-> size[buf_idx]])
    <3> DEFINE t == [buf |-> buf_idx, size |-> size[buf_idx]]
    <3>1. t \in Transfer /\ t.buf = buf_idx
      BY Ring DEF Transfer
    <3> HIDE DEF t
    <3>2. chain \in Seq(Transfer) /\ chain' = Append(chain, t)
      BY <2>2, Ring DEF t
    <3>3. chain'[Len(chain')] = t
      BY <3>1, <3>2, AppendChain
    <3> QED
      BY <1>2, <3>1, <3>3 DEF LastQueued
  <2> QED
    BY <2>1, <2>2 DEF HandedOver
<1>8. SyncComplete'
  BY DEF SyncComplete
<1> QED
  BY <1>1, <1>4, <1>5, <1>6, <1>7, <1>8 DEF IInv, OwnerInv

\* The full buffer that write holds is its own and has semaphore 0.
LEMMA Held ==
  ASSUME IInv, pc = "enqueue"
  PROVE  /\ frags # 0 /\ buf_idx \notin InChain \union lost
         /\ sem = [sem EXCEPT ![buf_idx] = 0]
         /\ size[buf_idx] = fragsize
<1>0. frags # 0
  BY DEF IInv, OwnerInv, TypeOK
<1>1. Writing(buf_idx)
  BY DEF Writing
<1>2. buf_idx \notin InChain \union lost /\ sem[buf_idx] = 0
  BY <1>0, <1>1, Ring DEF IInv, OwnerInv, OneOwner
<1>3. sem = [sem EXCEPT ![buf_idx] = 0]
  BY <1>0, <1>2, Ring
<1> QED
  BY <1>0, <1>2, <1>3 DEF IInv, FillLevels

\* write queues a full buffer and goes on with the next.
LEMMA EnqueueStep == IInv /\ Enqueue => IInv'
<1> SUFFICES ASSUME IInv, Enqueue PROVE IInv'
  OBVIOUS
<1>1. pc = "enqueue" /\ HandedOver /\ buf_idx' = NEXT_BUF(buf_idx)
  BY DEF Enqueue, HandedOver, s3c2410_dma_enqueue, ghosts
<1>2. /\ size' = [size EXCEPT ![buf_idx] = 0]
      /\ UNCHANGED <<geometry, channels, frags, fragsize, sem>>
  BY DEF Enqueue, settings
<1>3. pc' \in {"user", "down", "wait"} /\ count' \in Nat /\ ret' \in Int
  BY DEF Enqueue, Return, Goto, IInv, StreamType
<1>4. sem' = [sem EXCEPT ![buf_idx] = 0]
  BY <1>1, <1>2, Held
<1> QED
  BY <1>1, <1>2, <1>3, <1>4, Held, AdvanceStep

\* An enqueue that fails leaves the buffer full, current, and not free.
LEMMA EnqueueFailsStep == IInv /\ EnqueueFails => IInv'
<1> SUFFICES ASSUME IInv, EnqueueFails PROVE IInv'
  OBVIOUS
<1>1. pc = "enqueue" /\ HandedOver
  BY DEF EnqueueFails, HandedOver, s3c2410_dma_enqueue
<1>2. /\ UNCHANGED <<geometry, channels, frags, fragsize, sem, size, buf_idx>>
      /\ pc' = "user" /\ count' \in Nat /\ ret' \in Int
  BY DEF EnqueueFails, Return, settings, ENOMEM, EINVAL
<1>3. sem' = [sem EXCEPT ![buf_idx] = 0]
  BY <1>1, <1>2, Held
<1>4. /\ OneOwner' /\ Buffers' = Buffers
      /\ InChain' \subseteq Buffers /\ lost' \subseteq Buffers
      /\ chain' \in Seq(Transfer)
  BY <1>1, <1>2, <1>3, Held, OwnerMoves
<1>5. TypeOK'
  BY <1>1, <1>2, <1>4, Held DEF IInv, OwnerInv, TypeOK
<1>6. StreamType' /\ FillLevels' /\ SyncComplete'
  BY <1>2, <1>4 DEF IInv, StreamType, FillLevels, SyncComplete
<1>7. LastQueued'
  <2>1. Previous' = Previous /\ size'[buf_idx'] # 0
    BY <1>1, <1>2, Held, Ring DEF Previous
  <2>2. CASE lost' = lost \union {buf_idx} /\ UNCHANGED chain
    BY <1>2, <2>1, <2>2 DEF IInv, LastQueued
  <2>3. CASE chain' = Append(chain, [buf |-> buf_idx, size |-> size[buf_idx]])
    <3> DEFINE t == [buf |-> buf_idx, size |-> size[buf_idx]]
    <3>1. t \in Transfer /\ t.buf = buf_idx
      BY <1>1, Held, Ring DEF Transfer
    <3> HIDE DEF t
    <3>2. chain \in Seq(Transfer) /\ chain' = Append(chain, t)
      BY <1>1, <2>3, Held, Ring DEF t
    <3>3. chain'[Len(chain')] = t
      BY <3>1, <3>2, AppendChain
    <3> QED
      BY <1>2, <2>1, <3>1, <3>3 DEF LastQueued
  <2> QED
    BY <1>1, <2>2, <2>3 DEF HandedOver
<1> QED
  BY <1>4, <1>5, <1>6, <1>7 DEF IInv, OwnerInv

\* sync takes the current buffer and hands it over, part-filled.
LEMMA SyncFlushStep == IInv /\ SyncFlush => IInv'
<1> SUFFICES ASSUME IInv, SyncFlush PROVE IInv'
  OBVIOUS
<1>0. frags # 0
  BY DEF SyncFlush, IInv, OwnerInv, TypeOK
<1>1. HandedOver /\ buf_idx' = NEXT_BUF(buf_idx)
  BY DEF SyncFlush, HandedOver, s3c2410_dma_enqueue
<1>2. /\ sem[buf_idx] > 0 /\ sem' = [sem EXCEPT ![buf_idx] = 0]
      /\ size' = [size EXCEPT ![buf_idx] = 0] /\ pc' = "wait"
      /\ UNCHANGED <<geometry, channels, frags, fragsize, count, ret>>
  BY DEF SyncFlush, Goto, settings
<1>3. buf_idx \notin InChain \union lost
  BY <1>0, <1>2, Ring DEF IInv, OwnerInv, OneOwner
<1>4. count' \in Nat /\ ret' \in Int
  BY <1>2 DEF IInv, StreamType
<1> QED
  BY <1>0, <1>1, <1>2, <1>3, <1>4, AdvanceStep

\* The DMA interrupt frees the buffer at the head of the queue, which is nobody
\* else's.
LEMMA CallbackStep == IInv /\ audio_dmaout_done_callback => IInv'
<1> SUFFICES ASSUME IInv, audio_dmaout_done_callback PROVE IInv'
  OBVIOUS
<1> DEFINE b0 == Head(chain).buf
<1>0. frags # 0 /\ chain # <<>>
  BY DEF audio_dmaout_done_callback, IInv, OwnerInv, TypeOK
<1>1. /\ chain' = Tail(chain) /\ sem' = Up(b0)
      /\ pc' = IF Wakes(b0) THEN "woken" ELSE pc
      /\ UNCHANGED <<geometry, channels, frags, fragsize, buf_idx, size, count,
                     ret, lost>>
  BY DEF audio_dmaout_done_callback, settings
<1>2. /\ chain' \in Seq(Transfer)
      /\ Head(chain) = chain[1] /\ 1 \in DOMAIN chain
      /\ Len(chain) \in Nat \ {0}
      /\ DOMAIN chain = 1 .. Len(chain) /\ DOMAIN chain' = 1 .. Len(chain) - 1
      /\ \A k \in DOMAIN chain' : chain'[k] = chain[k + 1]
      /\ chain' # <<>> => chain'[Len(chain')] = chain[Len(chain)]
  BY <1>0, <1>1, Ring, TailChain
<1>3. /\ \A j, k \in DOMAIN chain : chain[j].buf = chain[k].buf => j = k
      /\ \A b \in Buffers :
           /\ sem[b] = 0 <=> (b \in InChain \/ Writing(b) \/ b \in lost)
           /\ Writing(b) => b \notin InChain \union lost
           /\ b \notin InChain \intersect lost
      /\ InChain \subseteq Buffers
  BY DEF IInv, OwnerInv, OneOwner, TypeOK
<1>4. InChain' = InChain \ {b0} /\ b0 \in InChain
  <2>1. b0 = chain[1].buf
    BY <1>2
  <2>2. \A x : x \in InChain' <=> x \in InChain /\ x # b0
    <3>1. ASSUME NEW x, x \in InChain' PROVE x \in InChain /\ x # b0
      <4>1. PICK k \in DOMAIN chain' : x = chain'[k].buf
        BY <3>1 DEF InChain
      <4>2. k + 1 \in DOMAIN chain /\ x = chain[k + 1].buf /\ k + 1 # 1
        BY <1>2, <4>1
      <4> QED
        BY <1>2, <1>3, <2>1, <4>2 DEF InChain
    <3>2. ASSUME NEW x, x \in InChain, x # b0 PROVE x \in InChain'
      <4>1. PICK k \in DOMAIN chain : x = chain[k].buf
        BY <3>2 DEF InChain
      <4>2. k # 1
        BY <2>1, <3>2, <4>1
      <4>3. k - 1 \in DOMAIN chain' /\ chain'[k - 1] = chain[k]
        BY <1>2, <4>1, <4>2
      <4> QED
        BY <4>1, <4>3 DEF InChain
    <3> QED
      BY <3>1, <3>2
  <2>3. b0 \in InChain
    BY <1>2, <2>1 DEF InChain
  <2> QED
    BY <2>2, <2>3
<1> HIDE DEF b0
<1>5. Buffers' = Buffers /\ Previous' = Previous
  BY <1>1 DEF Buffers, Previous
<1>6. b0 \in Buffers /\ sem[b0] = 0 /\ ~Writing(b0) /\ b0 \notin lost
  BY <1>3, <1>4
<1>7. /\ sem' \in [Buffers -> 0 .. 1]
      /\ \A b \in Buffers : sem'[b] = IF b = b0 THEN 1 ELSE sem[b]
  BY <1>0, <1>1, <1>6, Ring DEF Up
<1>8. TypeOK'
  BY <1>0, <1>1, <1>2, <1>4, <1>5, <1>7, Ring DEF IInv, OwnerInv, TypeOK
<1>9. \A b : Writing(b)' <=> Writing(b)
  BY <1>1 DEF Writing, Wakes
<1>10. OneOwner'
  <2>1. ASSUME NEW j \in DOMAIN chain', NEW k \in DOMAIN chain',
               chain'[j].buf = chain'[k].buf
        PROVE  j = k
    <3>1. /\ j + 1 \in DOMAIN chain /\ k + 1 \in DOMAIN chain
          /\ chain[j + 1].buf = chain[k + 1].buf
      BY <1>2, <2>1
    <3>2. j + 1 = k + 1
      BY <1>3, <3>1
    <3> QED
      BY <1>2, <3>2
  <2>2. \A b \in Buffers :
          /\ sem'[b] = 0 <=> (b \in InChain' \/ Writing(b) \/ b \in lost)
          /\ Writing(b) => b \notin InChain' \union lost
          /\ b \notin InChain' \intersect lost
    BY <1>3, <1>4, <1>6, <1>7
  <2> QED
    BY <1>1, <1>5, <1>9, <2>1, <2>2 DEF OneOwner
<1>11. StreamType'
  BY <1>1, <1>2, <1>5 DEF IInv, StreamType
<1>12. FillLevels'
  BY <1>1, <1>5 DEF IInv, FillLevels
<1>13. LastQueued'
  BY <1>0, <1>1, <1>2, <1>5 DEF IInv, LastQueued
<1>14. SyncComplete'
  BY <1>0, <1>1 DEF IInv, SyncComplete
<1> QED
  BY <1>8, <1>10, <1>11, <1>12, <1>13, <1>14 DEF IInv, OwnerInv

(***************************************************************************)
(* The calls.                                                              *)
(***************************************************************************)
\* A call that needs the buffers finds them, sets them up, or fails.
LEMMA WithBuffersStep ==
  ASSUME IInv, pc = "user", UNCHANGED settings,
         \/ frags > 0 /\ UNCHANGED <<stream, ghosts>>
         \/ frags = 0 /\ audio_setup_buf(geometry)
         \/ frags = 0 /\ UNCHANGED <<stream, ghosts>> /\ pc' = "user",
         pc' \in {"user", "down", "poll"}, count' \in Nat, ret' \in Int
  PROVE  IInv'
<1>1. geometry' \in Geometry /\ channels' \in {1, 2} /\ geometry \in Geometry
  BY DEF IInv, OwnerInv, TypeOK, settings
<1>2. CASE frags = 0 /\ audio_setup_buf(geometry)
  BY <1>1, <1>2, SetupStep
<1>3. CASE UNCHANGED <<stream, ghosts>> /\ (frags = 0 => pc' = "user")
  <2>1. UNCHANGED Core
    BY <1>3 DEF stream, ghosts, Core
  <2>2. /\ pc' \in PcSet \ {"fill", "enqueue"} /\ pc' # "wait"
        /\ frags = 0 => pc' \notin NeedBuffers
    BY <1>3 DEF PcSet, NeedBuffers
  <2>3. SyncComplete'
    BY DEF SyncComplete
  <2> QED
    BY <1>1, <2>1, <2>2, <2>3, QuietStep
<1>4. frags \in Nat
  BY DEF IInv, StreamType
<1> QED
  BY <1>2, <1>3, <1>4

\* Every call from the process keeps the invariant.
LEMMA CallStep == IInv /\ Call => IInv'
<1> SUFFICES ASSUME IInv, Call PROVE IInv'
  OBVIOUS
<1>0. /\ geometry \in Geometry /\ channels \in {1, 2} /\ frags \in Nat
      /\ count \in Nat /\ ret \in Int
  BY DEF IInv, OwnerInv, TypeOK, StreamType
<1>1. CASE smdk2410_audio_open
  BY <1>1, ClearStep DEF smdk2410_audio_open, Return
<1>2. ASSUME NEW n \in 1 .. MaxUnits, smdk2410_audio_write(n) PROVE IInv'
  <2>1. /\ pc = "user" /\ UNCHANGED settings
        /\ pc' \in {"user", "down", "poll"} /\ count' \in Nat /\ ret' \in Int
    BY <1>2 DEF smdk2410_audio_write, WithBuffers, Return, ENOMEM
  <2>2. \/ frags > 0 /\ UNCHANGED <<stream, ghosts>>
        \/ frags = 0 /\ audio_setup_buf(geometry)
        \/ frags = 0 /\ UNCHANGED <<stream, ghosts>> /\ pc' = "user"
    BY <1>2 DEF smdk2410_audio_write, WithBuffers, Return
  <2> QED
    BY <2>1, <2>2, WithBuffersStep
<1>3. ASSUME NEW c \in BOOLEAN, SyncStart(c) PROVE IInv'
  <2>1. /\ pc = "user" /\ ret' = 0 /\ UNCHANGED <<geometry, channels, count>>
        /\ pc' = IF frags = 0 THEN "synced"
                 ELSE IF size[buf_idx] # 0 THEN "flush" ELSE "wait"
        /\ UNCHANGED Core
    BY <1>3 DEF SyncStart, settings, stream, ghosts, Core
  <2>2. SyncComplete'
    BY <2>1 DEF SyncComplete, Core
  <2> QED
    BY <1>0, <2>1, <2>2, QuietStep DEF PcSet, NeedBuffers
<1>4. CASE smdk2410_audio_poll
  <2>1. /\ pc = "user" /\ UNCHANGED settings
        /\ pc' \in {"user", "down", "poll"} /\ count' \in Nat /\ ret' \in Int
    BY <1>0, <1>4 DEF smdk2410_audio_poll, WithBuffers, Return, Goto, ENOMEM
  <2>2. \/ frags > 0 /\ UNCHANGED <<stream, ghosts>>
        \/ frags = 0 /\ audio_setup_buf(geometry)
        \/ frags = 0 /\ UNCHANGED <<stream, ghosts>> /\ pc' = "user"
    BY <1>4 DEF smdk2410_audio_poll, WithBuffers, Return
  <2> QED
    BY <2>1, <2>2, WithBuffersStep
<1>5. CASE SetFragment
  <2>1. /\ pc = "user" /\ pc' = "user" /\ count' \in Nat /\ ret' \in Int
        /\ channels' \in {1, 2} /\ geometry' \in Geometry
    BY <1>0, <1>5 DEF SetFragment, Return, ENOMEM, EBUSY
  <2>2. \/ \E g \in Geometry : frags = 0 /\ audio_setup_buf(g)
        \/ UNCHANGED <<stream, ghosts>>
    BY <1>5 DEF SetFragment
  <2>3. CASE UNCHANGED <<stream, ghosts>>
    <3>1. UNCHANGED Core /\ SyncComplete'
      BY <2>1, <2>3 DEF stream, ghosts, Core, SyncComplete
    <3> QED
      BY <2>1, <3>1, QuietStep DEF PcSet, NeedBuffers
  <2> QED
    BY <2>1, <2>2, <2>3, SetupStep
<1>6. CASE SetChannels \/ Nonblock
  <2>1. /\ pc = "user" /\ pc' = "user" /\ count' \in Nat /\ ret' \in Int
        /\ channels' \in {1, 2} /\ geometry' \in Geometry
        /\ UNCHANGED Core
    BY <1>0, <1>6 DEF SetChannels, Nonblock, Return, stream, ghosts, Core
  <2>2. SyncComplete'
    BY <2>1 DEF SyncComplete
  <2> QED
    BY <2>1, <2>2, QuietStep DEF PcSet, NeedBuffers
<1>7. CASE Reset
  BY <1>0, <1>7, ClearStep DEF Reset, Return, settings
<1> QED
  BY <1>1, <1>2, <1>3, <1>4, <1>5, <1>6, <1>7 DEF Call

\* When sync finds the buffer queued last free, nothing is left in the queue.
LEMMA SyncWaitStep == IInv /\ SyncWait => IInv'
<1> SUFFICES ASSUME IInv, SyncWait PROVE IInv'
  OBVIOUS
<1>0. frags # 0
  BY DEF SyncWait, IInv, OwnerInv, TypeOK
<1>1. /\ pc = "wait" /\ pc' = "synced" /\ sem[Previous] > 0
      /\ UNCHANGED <<count, ret, geometry, channels>> /\ UNCHANGED Core
  BY DEF SyncWait, Goto, settings, stream, ghosts, Core
<1>2. Previous \in Buffers
  BY <1>0, Ring, RingStep
<1>3. Previous \notin InChain \union lost /\ size[buf_idx] = 0
  BY <1>0, <1>1, <1>2, Ring DEF IInv, OwnerInv, OneOwner, FillLevels
<1>4. chain = <<>>
  <2>1. SUFFICES ASSUME chain # <<>> PROVE FALSE
    OBVIOUS
  <2>2. Len(chain) \in DOMAIN chain
    BY <1>0, <2>1, Ring, EmptySeq, LenProperties
  <2>3. chain[Len(chain)].buf \in InChain
    BY <2>2 DEF InChain
  <2> QED
    BY <1>3, <2>1, <2>3 DEF IInv, LastQueued
<1>5. SyncComplete'
  BY <1>1, <1>3, <1>4 DEF SyncComplete, Core
<1> QED
  BY <1>0, <1>1, <1>5, QuietStep
     DEF PcSet, NeedBuffers, IInv, OwnerInv, TypeOK, StreamType

\* The other returns and sleeps leave the stream alone.
LEMMA ReturnStep ==
  IInv /\ (SyncReturns \/ PollAgain \/ Interrupted) => IInv'
<1> SUFFICES ASSUME IInv, SyncReturns \/ PollAgain \/ Interrupted PROVE IInv'
  OBVIOUS
<1>1. /\ pc \in {"synced", "woken", "down", "wait", "poll"}
      /\ pc' \in {"user", "poll", "synced"}
      /\ count' \in Nat /\ ret' \in Int
      /\ pc' = "synced" => ret' # 0
      /\ pc' = "poll" => pc = "woken"
      /\ UNCHANGED <<geometry, channels>>
      /\ UNCHANGED Core
  BY DEF IInv, StreamType, SyncReturns, PollAgain, Interrupted, DownFails,
         SyncSignal, PollSignal, WriteReturns, Return, Goto, settings, stream,
         ghosts, Core, EINTR, EAGAIN, ERESTARTSYS
<1>2. SyncComplete'
  BY <1>1 DEF SyncComplete
<1>3. frags = 0 => pc' # "poll"
  BY <1>1 DEF IInv, OwnerInv, TypeOK
<1> QED
  BY <1>1, <1>2, <1>3, QuietStep
     DEF PcSet, NeedBuffers, IInv, OwnerInv, TypeOK

(***************************************************************************)
(* The theorems.                                                           *)
(***************************************************************************)
\* The driver starts with no buffers.
LEMMA InitInv == Init => IInv
<1> SUFFICES ASSUME Init PROVE IInv
  OBVIOUS
<1>1. /\ frags = 0 /\ fragsize = 0 /\ buf_idx = 0 /\ chain = <<>>
      /\ lost = {} /\ size = NoBuffers /\ sem = NoBuffers /\ pc = "closed"
      /\ count = 0 /\ ret = 0 /\ geometry \in Geometry /\ channels \in {1, 2}
  BY DEF Init
<1>2. Buffers = {} /\ InChain = {} /\ DOMAIN chain = {}
  BY <1>1 DEF Buffers, InChain
<1>3. \A S : NoBuffers \in [{} -> S]
  BY DEF NoBuffers
<1>4. TypeOK
  BY <1>1, <1>2, <1>3 DEF TypeOK
<1>5. OneOwner
  BY <1>2 DEF OneOwner
<1>6. StreamType
  BY <1>1, <1>2 DEF StreamType
<1>7. FillLevels /\ LastQueued /\ SyncComplete
  BY <1>1, <1>2 DEF FillLevels, LastQueued, SyncComplete
<1> QED
  BY <1>4, <1>5, <1>6, <1>7 DEF IInv, OwnerInv

\* Doing nothing keeps the invariant.
LEMMA StutterStep == IInv /\ UNCHANGED vars => IInv'
<1> SUFFICES ASSUME IInv, UNCHANGED vars PROVE IInv'
  OBVIOUS
<1>1. UNCHANGED <<geometry, channels, frags, fragsize, buf_idx, size, sem, chain,
                  pc, lost, count, ret>>
  BY DEF vars, settings, stream, process, ghosts
<1>2. Buffers' = Buffers /\ InChain' = InChain /\ Previous' = Previous
  BY <1>1 DEF Buffers, InChain, Previous
<1>3. \A b : Writing(b)' <=> Writing(b)
  BY <1>1 DEF Writing
<1>4. OwnerInv'
  <2>1. TypeOK'
    BY <1>1, <1>2 DEF IInv, OwnerInv, TypeOK
  <2>2. OneOwner'
    BY <1>1, <1>2, <1>3 DEF IInv, OwnerInv, OneOwner
  <2> QED BY <2>1, <2>2 DEF OwnerInv
<1>5. StreamType' /\ FillLevels'
  BY <1>1, <1>2 DEF IInv, StreamType, FillLevels
<1>6. LastQueued' /\ SyncComplete'
  BY <1>1, <1>2 DEF IInv, LastQueued, SyncComplete
<1> QED BY <1>4, <1>5, <1>6 DEF IInv

\* Every call, every step inside a call, every signal and every DMA interrupt
\* keeps the invariant.
LEMMA StepInv == IInv /\ [Next]_vars => IInv'
<1> SUFFICES ASSUME IInv, [Next]_vars PROVE IInv'
  OBVIOUS
<1>1. CASE smdk2410_audio_release
  BY <1>1, ClearStep
     DEF smdk2410_audio_release, settings, IInv, OwnerInv, TypeOK, StreamType
<1> QED
  BY <1>1, CallStep, DownStep, CopyFailsStep, FillStep, EnqueueStep,
     EnqueueFailsStep, SyncFlushStep, SyncWaitStep, ReturnStep, CallbackStep,
     StutterStep DEF Next, Step

\* The invariant holds in every reachable state.
THEOREM InductiveInvariant == Spec => []IInv
<1> QED
  BY InitInv, StepInv, PTL DEF Spec

\* A buffer is free, written, queued once or lost, and its semaphore says which.
THEOREM OneOwnerAlways == Spec => []OwnerInv
<1>1. IInv => OwnerInv
  BY DEF IInv
<1> QED
  BY <1>1, InductiveInvariant, PTL

\* When audio_sync succeeds everything written before it has been played.
THEOREM SyncIsComplete == Spec => []SyncComplete
<1>1. IInv => SyncComplete
  BY DEF IInv
<1> QED
  BY <1>1, InductiveInvariant, PTL

(***************************************************************************)
(* The safety half of CallReturns: nobody sleeps on a buffer that no DMA   *)
(* transfer will give back.                                                *)
(***************************************************************************)
\* A poll made while the first buffer is the current one sleeps only while that
\* buffer is taken: the interrupt that frees it also wakes the process.
PollAsleep == pc = "poll" /\ buf_idx = 0 => sem[0] = 0

\* The process sleeps on the semaphore of b, in write, sync or poll.
WaitsFor(b) ==
  \/ pc \in {"down", "flush"} /\ b = buf_idx /\ sem[b] = 0
  \/ pc = "wait" /\ b = Previous /\ sem[b] = 0
  \/ pc = "poll" /\ b = 0 /\ b = buf_idx

\* The buffer the process sleeps on is in the DMA queue, unless it is one whose
\* enqueue failed for lack of memory (lines 426, 433, 506, 542, 658-664).
SleeperHasTransfer ==
  \A b \in Buffers : WaitsFor(b) => b \in InChain \union lost

\* Only the call itself puts the process to sleep, and it looks first.
LEMMA PollStep == IInv /\ PollAsleep /\ [Next]_vars => PollAsleep'
<1> SUFFICES ASSUME IInv, PollAsleep, [Next]_vars, pc' = "poll", buf_idx' = 0
             PROVE  sem'[0] = 0
  BY DEF PollAsleep
<1>1. CASE audio_dmaout_done_callback
  <2>1. /\ pc = "poll" /\ buf_idx = 0 /\ Head(chain).buf # 0
        /\ sem' = Up(Head(chain).buf)
    BY <1>1 DEF audio_dmaout_done_callback, Wakes
  <2>2. frags # 0
    BY <2>1 DEF IInv, OwnerInv, TypeOK
  <2> QED
    BY <2>1, <2>2, Ring DEF Up, PollAsleep, IInv, OwnerInv, TypeOK
<1>2. CASE smdk2410_audio_poll
  BY <1>2 DEF smdk2410_audio_poll, WithBuffers, Return, Goto
<1>3. CASE PollAgain
  BY <1>3 DEF PollAgain, Return, Goto, stream
<1>4. CASE UNCHANGED vars
  BY <1>4 DEF vars, stream, process, PollAsleep
<1>5. ASSUME smdk2410_audio_open \/ SetFragment \/ SetChannels \/ Nonblock
             \/ Reset PROVE FALSE
  BY <1>5 DEF smdk2410_audio_open, SetFragment, SetChannels, Nonblock, Reset, Return
<1>6. ASSUME NEW n \in 1 .. MaxUnits, smdk2410_audio_write(n) PROVE FALSE
  BY <1>6 DEF smdk2410_audio_write, WithBuffers, Return
<1>7. ASSUME NEW c \in BOOLEAN, SyncStart(c) PROVE FALSE
  BY <1>7 DEF SyncStart
<1>8. ASSUME Down \/ CopyFails \/ Fill \/ Enqueue \/ EnqueueFails PROVE FALSE
  BY <1>8 DEF Down, CopyFails, Fill, Enqueue, EnqueueFails, Return, Goto
<1>9. ASSUME SyncFlush \/ SyncWait \/ SyncReturns \/ smdk2410_audio_release
      PROVE  FALSE
  BY <1>9 DEF SyncFlush, SyncWait, SyncReturns, smdk2410_audio_release, Return,
              Goto
<1>10. ASSUME Interrupted PROVE FALSE
  BY <1>10 DEF Interrupted, DownFails, WriteReturns, SyncSignal, PollSignal, Return
<1> QED
  BY <1>1, <1>2, <1>3, <1>4, <1>5, <1>6, <1>7, <1>8, <1>9, <1>10
     DEF Next, Call, Step

\* No process sleeps in write, sync or poll for a buffer that the DMA does not
\* hold: without a failed enqueue the interrupt that wakes it is under way.
THEOREM SleepersServed == Spec => []SleeperHasTransfer
<1>1. Init => PollAsleep
  BY DEF Init, PollAsleep
<1>2. IInv /\ PollAsleep => SleeperHasTransfer
  <2> SUFFICES ASSUME IInv, PollAsleep, NEW b \in Buffers, WaitsFor(b)
               PROVE  b \in InChain \union lost
    BY DEF SleeperHasTransfer
  <2>1. sem[b] = 0 /\ ~Writing(b)
    BY DEF WaitsFor, PollAsleep, Writing
  <2> QED
    BY <2>1 DEF IInv, OwnerInv, OneOwner
<1>3. IInv /\ PollAsleep /\ [Next]_vars => PollAsleep'
  BY PollStep
<1> QED
  BY InductiveInvariant, <1>1, <1>2, <1>3, PTL DEF Spec

(***************************************************************************)
(* The order of what is played.  The units up to the end of the k-th       *)
(* transfer are End(k) many, as its last unit says: with that, what is in  *)
(* the buffers is described without recursion, and the induction over the  *)
(* queue is needed once, for Queued.                                       *)
(***************************************************************************)
End(k) ==
  IF k = 0 THEN Len(played) ELSE mem[chain[k].buf][chain[k].size]

DataType ==
  /\ mem \in [Buffers -> [1 .. fragsize -> Nat]]
  /\ \A k \in DOMAIN chain : chain[k].size \in 1 .. fragsize
  /\ accepted \in Nat
  /\ pc = "flush" => size[buf_idx] # 0

\* A transfer holds the units that follow those of the one before it.
QueueInOrder ==
  \A k \in DOMAIN chain : \A j \in 1 .. chain[k].size :
    mem[chain[k].buf][j] = End(k - 1) + j

\* The current buffer holds the units that follow, up to the last one taken.
RestInOrder ==
  /\ frags = 0 => accepted = End(Len(chain))
  /\ frags # 0 =>
       /\ accepted = End(Len(chain)) + size[buf_idx]
       /\ \A j \in 1 .. size[buf_idx] : mem[buf_idx][j] = End(Len(chain)) + j

InOrder ==
  /\ damaged \in BOOLEAN /\ DataType
  /\ ~damaged =>
       /\ played \in Seq(Nat) /\ \A k \in 1 .. Len(played) : played[k] = k
       /\ QueueInOrder /\ RestInOrder

Data == <<frags, fragsize, buf_idx, size, mem, chain, accepted, played, damaged>>

\* A step that touches no data.
LEMMA QuietOrder ==
  ASSUME InOrder, UNCHANGED Data, pc' = "flush" => size[buf_idx] # 0
  PROVE  InOrder'
<1> USE DEF Data
<1>1. Buffers' = Buffers /\ \A k : End(k)' = End(k)
  BY DEF Buffers, End
<1>2. DataType'
  BY <1>1 DEF InOrder, DataType
<1>3. QueueInOrder' <=> QueueInOrder
  BY DEF QueueInOrder, End
<1>4. RestInOrder' <=> RestInOrder
  BY DEF RestInOrder, End
<1> QED
  BY <1>2, <1>3, <1>4 DEF InOrder

\* audio_clear_buf starts the count again.
LEMMA ClearOrder ==
  ASSUME audio_clear_buf, pc' # "flush"
  PROVE  InOrder'
<1>1. /\ frags' = 0 /\ fragsize' = 0 /\ chain' = <<>> /\ mem' = NoBuffers
      /\ accepted' = 0 /\ played' = <<>> /\ damaged' = FALSE
  BY DEF audio_clear_buf
<1>2. Buffers' = {} /\ DOMAIN chain' = {} /\ Len(chain') = 0 /\ Len(played') = 0
  BY <1>1 DEF Buffers
<1>3. DataType'
  BY <1>1, <1>2 DEF DataType, NoBuffers
<1>4. QueueInOrder' /\ RestInOrder'
  BY <1>1, <1>2 DEF QueueInOrder, RestInOrder, End
<1>5. played' \in Seq(Nat) /\ \A k \in 1 .. Len(played') : played'[k] = k
  BY <1>1, <1>2
<1>6. damaged' \in BOOLEAN
  BY <1>1, Zenon
<1> QED
  BY <1>3, <1>4, <1>5, <1>6 DEF InOrder

\* audio_setup_buf adds nothing to what was taken.
LEMMA SetupOrder ==
  ASSUME IInv, InOrder, frags = 0, NEW g \in Geometry, audio_setup_buf(g),
         pc' # "flush"
  PROVE  InOrder'
<1>0. g[1] \in Nat \ {0, 1} /\ g[2] \in Nat \ {0}
  OBVIOUS
<1>1. /\ frags' = g[1] /\ fragsize' = g[2] /\ buf_idx' = 0
      /\ size' = [b \in 0 .. g[1] - 1 |-> 0]
      /\ mem' = [b \in 0 .. g[1] - 1 |-> [k \in 1 .. g[2] |-> 0]]
      /\ UNCHANGED <<chain, accepted, played, damaged>>
  BY DEF audio_setup_buf, ghosts
<1>2. chain = <<>> /\ DOMAIN chain = {} /\ Len(chain) = 0
  BY DEF IInv, OwnerInv, TypeOK
<1>3. Buffers' = 0 .. g[1] - 1 /\ size'[buf_idx'] = 0
  BY <1>0, <1>1 DEF Buffers
<1>4. DataType'
  BY <1>0, <1>1, <1>2, <1>3 DEF InOrder, DataType
<1>5. ASSUME ~damaged PROVE QueueInOrder' /\ RestInOrder'
  <2>1. played \in Seq(Nat) /\ accepted = Len(played)
    BY <1>2, <1>5 DEF InOrder, RestInOrder, End
  <2>2. accepted' = End(Len(chain))' + 0 /\ frags' # 0
    BY <1>0, <1>1, <1>2, <2>1 DEF End
  <2> QED
    BY <1>1, <1>2, <1>3, <2>2 DEF QueueInOrder, RestInOrder
<1> QED
  BY <1>1, <1>4, <1>5 DEF InOrder

\* The end of every transfer is a number of units.
LEMMA EndType ==
  ASSUME IInv, InOrder, ~damaged, NEW k \in 0 .. Len(chain)
  PROVE  End(k) \in Nat
<1>1. CASE k = 0
  BY <1>1 DEF InOrder, End
<1>2. CASE k # 0
  <2>1. chain \in Seq(Transfer)
    BY DEF IInv, StreamType
  <2>2. Len(chain) \in Nat /\ DOMAIN chain = 1 .. Len(chain)
    BY <2>1, LenProperties
  <2>3. k \in DOMAIN chain
    BY <1>2, <2>2
  <2>4. chain[k].buf \in Buffers /\ chain[k].size \in 1 .. fragsize
    BY <2>3 DEF IInv, OwnerInv, TypeOK, InChain, InOrder, DataType
  <2> QED
    BY <1>2, <2>4 DEF End, InOrder, DataType
<1> QED
  BY <1>1, <1>2

\* A copy puts the next units behind those in the current buffer, and touches
\* none that is queued.
LEMMA FillOrder == IInv /\ InOrder /\ Fill => InOrder'
<1> SUFFICES ASSUME IInv, InOrder, Fill PROVE InOrder'
  OBVIOUS
<1>0. frags # 0
  BY DEF Fill, IInv, OwnerInv, TypeOK
<1> DEFINE s == size[buf_idx]
           n == s + Chunk
<1>1. /\ pc = "fill" /\ size' = [size EXCEPT ![buf_idx] = n]
      /\ mem' = [mem EXCEPT ![buf_idx] =
                   [k \in DOMAIN @ |-> IF k \in s + 1 .. s + Chunk
                                         THEN accepted + k - s ELSE @[k]]]
      /\ accepted' = accepted + Chunk
      /\ UNCHANGED <<frags, fragsize, buf_idx, chain, played, damaged>>
      /\ pc' # "flush"
  BY DEF Fill, CopyAt, Return
<1>2. n \in 0 .. fragsize /\ Chunk \in Nat /\ s \in Nat /\ accepted \in Nat
  BY <1>0, ChunkFits, Ring DEF InOrder, DataType
<1>3. /\ buf_idx \in Buffers /\ mem \in [Buffers -> [1 .. fragsize -> Nat]]
      /\ size \in [Buffers -> 0 .. fragsize] /\ fragsize \in Nat
  BY <1>0, Ring DEF InOrder, DataType
<1>4. size'[buf_idx] = n
  BY <1>1, <1>3
<1>5. /\ \A b \in Buffers : b # buf_idx => mem'[b] = mem[b]
      /\ DOMAIN mem[buf_idx] = 1 .. fragsize
      /\ mem'[buf_idx] =
           [k \in 1 .. fragsize |-> IF k \in s + 1 .. s + Chunk
                                      THEN accepted + k - s
                                      ELSE mem[buf_idx][k]]
  BY <1>1, <1>3
<1>6. mem' \in [Buffers -> [1 .. fragsize -> Nat]]
  <2>1. mem'[buf_idx] \in [1 .. fragsize -> Nat]
    BY <1>2, <1>3, <1>5
  <2>2. DOMAIN mem' = Buffers /\ mem' = [b \in Buffers |-> mem'[b]]
    BY <1>1, <1>3
  <2> QED
    BY <1>3, <1>5, <2>1, <2>2
<1>7. Buffers' = Buffers
  BY <1>1 DEF Buffers
<1>8. DataType'
  BY <1>1, <1>2, <1>6, <1>7 DEF InOrder, DataType
<1>9. ASSUME ~damaged PROVE QueueInOrder' /\ RestInOrder'
  <2>1. \A k \in DOMAIN chain : chain[k].buf \in Buffers \ {buf_idx}
    <3>1. Writing(buf_idx)
      BY <1>1 DEF Writing
    <3> QED
      BY <1>3, <3>1 DEF IInv, OwnerInv, TypeOK, OneOwner, InChain
  <2>2. chain \in Seq(Transfer)
    BY DEF IInv, StreamType
  <2>3. Len(chain) \in Nat /\ DOMAIN chain = 1 .. Len(chain)
    BY <2>2, LenProperties
  <2>4. \A k \in 0 .. Len(chain) : End(k)' = End(k)
    BY <1>1, <1>5, <2>1, <2>3 DEF End
  <2>5. \A k \in DOMAIN chain : k - 1 \in 0 .. Len(chain)
    BY <2>3
  <2>6. QueueInOrder'
    BY <1>1, <1>5, <1>9, <2>1, <2>4, <2>5 DEF InOrder, QueueInOrder
  <2> DEFINE e == End(Len(chain))
  <2>7. e \in Nat /\ e' = e
    BY <1>1, <1>9, <2>3, <2>4, EndType
  <2>8. accepted = e + s /\ \A j \in 1 .. s : mem[buf_idx][j] = e + j
    BY <1>0, <1>9 DEF InOrder, RestInOrder
  <2> HIDE DEF e, s
  <2>9. accepted' = e + n
    BY <1>1, <1>2, <2>7, <2>8
  <2>10. ASSUME NEW j \in 1 .. n PROVE mem'[buf_idx][j] = e + j
    <3>1. j \in 1 .. fragsize
      BY <1>2, <1>3
    <3>2. CASE j \in s + 1 .. s + Chunk
      BY <1>2, <1>5, <2>7, <2>8, <3>1, <3>2
    <3>3. CASE j \notin s + 1 .. s + Chunk
      <4>1. j \in 1 .. s
        BY <1>2, <3>3
      <4> QED
        BY <1>5, <2>8, <3>1, <3>3, <4>1
    <3> QED
      BY <3>2, <3>3
  <2>11. RestInOrder'
    <3>1. End(Len(chain))' = e
      BY <2>7 DEF e
    <3> HIDE DEF n
    <3> QED
      BY <1>0, <1>1, <1>4, <2>9, <2>10, <3>1 DEF RestInOrder
  <2> QED
    BY <2>6, <2>11
<1> QED
  BY <1>1, <1>8, <1>9 DEF InOrder

\* The current buffer, not empty, goes to the end of the queue: the queue is
\* still well-formed, and in order if the fill level is then taken back.
LEMMA AppendData ==
  ASSUME IInv, InOrder, frags # 0, size[buf_idx] # 0,
         chain' = Append(chain, [buf |-> buf_idx, size |-> size[buf_idx]]),
         UNCHANGED <<frags, fragsize, mem, accepted>>, pc' # "flush"
  PROVE  /\ DataType'
         /\ Len(chain) \in Nat /\ DOMAIN chain = 1 .. Len(chain)
         /\ DOMAIN chain' = 1 .. Len(chain) + 1 /\ Len(chain') = Len(chain) + 1
         /\ \A k \in DOMAIN chain : chain'[k] = chain[k]
         /\ chain'[Len(chain) + 1].buf = buf_idx
         /\ chain'[Len(chain) + 1].size = size[buf_idx]
<1> DEFINE t == [buf |-> buf_idx, size |-> size[buf_idx]]
<1>1. t \in Transfer /\ t.buf = buf_idx /\ t.size = size[buf_idx]
      /\ t.size \in 1 .. fragsize
  BY Ring DEF Transfer
<1> HIDE DEF t
<1>2. chain \in Seq(Transfer) /\ chain' = Append(chain, t)
  BY Ring DEF t
<1>3. /\ Len(chain) \in Nat /\ DOMAIN chain = 1 .. Len(chain)
      /\ DOMAIN chain' = 1 .. Len(chain) + 1 /\ Len(chain') = Len(chain) + 1
      /\ \A k \in DOMAIN chain : chain'[k] = chain[k]
      /\ chain'[Len(chain) + 1] = t
  BY <1>1, <1>2, AppendChain
<1>4. \A k \in DOMAIN chain' : k \in DOMAIN chain \/ k = Len(chain) + 1
  BY <1>3
<1>5. Buffers' = Buffers
  BY DEF Buffers
<1>6. DataType'
  BY <1>1, <1>3, <1>4, <1>5 DEF InOrder, DataType
<1> QED
  BY <1>1, <1>3, <1>6

\* Handing the current buffer over, part-filled or full, keeps the order.
LEMMA AppendOrder ==
  ASSUME IInv, InOrder, frags # 0, size[buf_idx] # 0,
         chain' = Append(chain, [buf |-> buf_idx, size |-> size[buf_idx]]),
         size' = [size EXCEPT ![buf_idx] = 0], buf_idx' = NEXT_BUF(buf_idx),
         UNCHANGED <<frags, fragsize, mem, accepted, played, damaged>>,
         pc' # "flush"
  PROVE  InOrder'
<1>1. /\ DataType'
      /\ Len(chain) \in Nat /\ DOMAIN chain = 1 .. Len(chain)
      /\ DOMAIN chain' = 1 .. Len(chain) + 1 /\ Len(chain') = Len(chain) + 1
      /\ \A k \in DOMAIN chain : chain'[k] = chain[k]
      /\ chain'[Len(chain) + 1].buf = buf_idx
      /\ chain'[Len(chain) + 1].size = size[buf_idx]
  BY AppendData
<1>2. ASSUME ~damaged PROVE QueueInOrder' /\ RestInOrder'
  <2> DEFINE e == End(Len(chain))
  <2>1. e \in Nat
    BY <1>1, <1>2, EndType
  <2>2. /\ accepted = e + size[buf_idx]
        /\ \A j \in 1 .. size[buf_idx] : mem[buf_idx][j] = e + j
        /\ size[buf_idx] \in 1 .. fragsize
    BY <1>2, Ring DEF InOrder, RestInOrder
  <2>3. \A k \in 0 .. Len(chain) : End(k)' = End(k)
    BY <1>1 DEF End
  <2>4. End(Len(chain))' = accepted
    <3>1. /\ Len(chain') # 0 /\ chain'[Len(chain')].buf = buf_idx
          /\ chain'[Len(chain')].size = size[buf_idx]
      BY <1>1
    <3>2. End(Len(chain))' = mem[buf_idx][size[buf_idx]]
      BY <3>1 DEF End
    <3>3. mem[buf_idx][size[buf_idx]] = e + size[buf_idx]
      <4>1. size[buf_idx] \in 1 .. size[buf_idx]
        BY <2>2, Ring
      <4> QED
        BY <2>2, <4>1
    <3> QED
      BY <2>2, <3>2, <3>3
  <2>5. ASSUME NEW k \in DOMAIN chain', NEW j \in 1 .. chain'[k].size
        PROVE  mem'[chain'[k].buf][j] = End(k - 1)' + j
    <3>1. CASE k \in DOMAIN chain
      <4>1. k - 1 \in 0 .. Len(chain)
        BY <1>1, <3>1
      <4> QED
        BY <1>1, <1>2, <2>3, <3>1, <4>1 DEF InOrder, QueueInOrder
    <3>2. CASE k = Len(chain) + 1
      <4>1. k - 1 = Len(chain) /\ Len(chain) \in 0 .. Len(chain)
        BY <1>1, <3>2
      <4> QED
        BY <1>1, <2>2, <2>3, <3>2, <4>1
    <3> QED
      BY <1>1, <3>1, <3>2
  <2>6. QueueInOrder'
    BY <2>5 DEF QueueInOrder
  <2>7. buf_idx' \in Buffers /\ size'[buf_idx'] = 0
    <3>1. buf_idx' \in Buffers /\ buf_idx' # buf_idx
      BY Ring, RingStep
    <3> QED
      BY <3>1, Ring DEF IInv, FillLevels
  <2>8. accepted' = End(Len(chain))' + size'[buf_idx']
    <3>1. accepted \in Nat /\ accepted' = accepted
      BY DEF InOrder, DataType
    <3> QED
      BY <2>4, <2>7, <3>1
  <2>9. RestInOrder'
    BY <2>7, <2>8 DEF RestInOrder
  <2> QED
    BY <2>6, <2>9
<1> QED
  BY <1>1, <1>2 DEF InOrder

\* Enqueue hands over a full buffer.
LEMMA EnqueueOrder == IInv /\ InOrder /\ Enqueue => InOrder'
<1> SUFFICES ASSUME IInv, InOrder, Enqueue PROVE InOrder'
  OBVIOUS
<1>1. frags # 0 /\ size[buf_idx] # 0
  BY Held, Ring DEF Enqueue
<1>2. /\ chain' = Append(chain, [buf |-> buf_idx, size |-> size[buf_idx]])
      /\ size' = [size EXCEPT ![buf_idx] = 0] /\ buf_idx' = NEXT_BUF(buf_idx)
      /\ UNCHANGED <<frags, fragsize, mem, accepted, played, damaged>>
      /\ pc' # "flush"
  BY DEF Enqueue, s3c2410_dma_enqueue, Goto, Return, ghosts
<1> QED
  BY <1>1, <1>2, AppendOrder

\* An enqueue without memory leaves the data where it is; one that is queued and
\* reported as failed marks the stream damaged.
LEMMA EnqueueFailsOrder == IInv /\ InOrder /\ EnqueueFails => InOrder'
<1> SUFFICES ASSUME IInv, InOrder, EnqueueFails PROVE InOrder'
  OBVIOUS
<1>1. frags # 0 /\ size[buf_idx] # 0
  BY Held, Ring DEF EnqueueFails
<1>2. /\ UNCHANGED <<frags, fragsize, buf_idx, size, mem, accepted, played>>
      /\ pc' = "user"
  BY DEF EnqueueFails, Return
<1>3. CASE UNCHANGED <<damaged, chain>>
  BY <1>2, <1>3, QuietOrder DEF Data
<1>4. CASE /\ chain' = Append(chain, [buf |-> buf_idx, size |-> size[buf_idx]])
           /\ damaged' = TRUE
  <2>1. DataType'
    BY <1>1, <1>2, <1>4, AppendData
  <2> QED
    BY <1>4, <2>1 DEF InOrder
<1> QED
  BY <1>3, <1>4 DEF EnqueueFails, s3c2410_dma_enqueue

\* sync hands over a part-filled buffer, or drops it and marks the stream
\* damaged.
LEMMA SyncFlushOrder == IInv /\ InOrder /\ SyncFlush => InOrder'
<1> SUFFICES ASSUME IInv, InOrder, SyncFlush PROVE InOrder'
  OBVIOUS
<1>1. frags # 0 /\ size[buf_idx] # 0
  BY DEF SyncFlush, IInv, OwnerInv, TypeOK, InOrder, DataType
<1>2. /\ size' = [size EXCEPT ![buf_idx] = 0] /\ buf_idx' = NEXT_BUF(buf_idx)
      /\ UNCHANGED <<frags, fragsize, mem, accepted, played>>
      /\ pc' = "wait"
  BY DEF SyncFlush, Goto
<1>3. CASE /\ chain' = Append(chain, [buf |-> buf_idx, size |-> size[buf_idx]])
           /\ UNCHANGED damaged
  BY <1>1, <1>2, <1>3, AppendOrder
<1>4. CASE damaged' = TRUE /\ UNCHANGED chain
  <2>1. Buffers' = Buffers
    BY <1>2 DEF Buffers
  <2>2. DataType'
    BY <1>2, <1>4, <2>1 DEF InOrder, DataType
  <2> QED
    BY <1>4, <2>2 DEF InOrder
<1> QED
  BY <1>3, <1>4 DEF SyncFlush, s3c2410_dma_enqueue

\* The DMA interrupt moves the units of the oldest transfer behind those played.
LEMMA CallbackOrder == IInv /\ InOrder /\ audio_dmaout_done_callback => InOrder'
<1> SUFFICES ASSUME IInv, InOrder, audio_dmaout_done_callback PROVE InOrder'
  OBVIOUS
<1> DEFINE t == Head(chain)
           q == SubSeq(mem[t.buf], 1, t.size)
<1>0. frags # 0 /\ chain # <<>>
  BY DEF audio_dmaout_done_callback, IInv, OwnerInv, TypeOK
<1>1. /\ chain' = Tail(chain)
      /\ played' = IF damaged THEN <<>> ELSE played \o q
      /\ pc' = "flush" => pc = "flush"
      /\ UNCHANGED <<frags, fragsize, buf_idx, size, mem, accepted, damaged>>
  BY DEF audio_dmaout_done_callback
<1>2. /\ Head(chain) = chain[1] /\ 1 \in DOMAIN chain
      /\ Len(chain) \in Nat \ {0} /\ Len(chain') = Len(chain) - 1
      /\ DOMAIN chain = 1 .. Len(chain) /\ DOMAIN chain' = 1 .. Len(chain) - 1
      /\ \A k \in DOMAIN chain' : chain'[k] = chain[k + 1]
  BY <1>0, <1>1, Ring, TailChain
<1>3. \A k \in DOMAIN chain' : k + 1 \in DOMAIN chain
  BY <1>2
<1>4. DataType'
  <2>1. Buffers' = Buffers
    BY <1>1 DEF Buffers
  <2> QED
    BY <1>1, <1>2, <1>3, <2>1 DEF InOrder, DataType
<1>5. ASSUME ~damaged
      PROVE  /\ played' \in Seq(Nat)
             /\ \A k \in 1 .. Len(played') : played'[k] = k
             /\ QueueInOrder' /\ RestInOrder'
  <2>1. played \in Seq(Nat) /\ \A k \in 1 .. Len(played) : played[k] = k
    BY <1>5 DEF InOrder
  <2>2. /\ t.buf \in Buffers /\ t.size \in 1 .. fragsize /\ fragsize \in Nat
        /\ mem[t.buf] \in [1 .. fragsize -> Nat]
    <3>1. chain[1].buf \in Buffers
      BY <1>2 DEF IInv, OwnerInv, TypeOK, InChain
    <3>2. chain[1].size \in 1 .. fragsize /\ mem \in [Buffers -> [1 .. fragsize -> Nat]]
      BY <1>2 DEF InOrder, DataType
    <3>3. fragsize \in Nat
      BY <1>0, Ring
    <3> QED
      BY <1>2, <3>1, <3>2, <3>3
  <2>3. \A j \in 1 .. t.size : mem[t.buf][j] = Len(played) + j
    <3>1. \A j \in 1 .. t.size : mem[t.buf][j] = End(1 - 1) + j
      BY <1>2, <1>5 DEF InOrder, QueueInOrder
    <3> QED
      BY <3>1 DEF End
  <2> DEFINE m == t.size
             x == mem[t.buf]
  <2>4. m \in Nat /\ m >= 1 /\ \A j \in 1 .. m : x[j] \in Nat
    <3> HIDE DEF m, x
    <3>1. m \in 1 .. fragsize /\ fragsize \in Nat /\ x \in [1 .. fragsize -> Nat]
      BY <2>2, Zenon DEF m, x
    <3> QED
      BY <3>1
  <2> HIDE DEF m, x
  <2>5. /\ SubSeq(x, 1, m) \in Seq(Nat) /\ Len(SubSeq(x, 1, m)) = m
        /\ \A j \in 1 .. m : SubSeq(x, 1, m)[j] = x[j]
    <3>1. /\ SubSeq(x, 1, m) \in Seq(Nat)
          /\ Len(SubSeq(x, 1, m)) = IF 1 <= m THEN m - 1 + 1 ELSE 0
          /\ \A j \in 1 .. m - 1 + 1 : SubSeq(x, 1, m)[j] = x[1 + j - 1]
      BY <2>4, SubSeqProperties
    <3> QED
      BY <2>4, <3>1
  <2>6. q \in Seq(Nat) /\ Len(q) = m /\ \A j \in 1 .. m : q[j] = Len(played) + j
    BY <2>3, <2>5 DEF m, x
  <2> HIDE DEF q
  <2>7. /\ played' \in Seq(Nat) /\ Len(played') = Len(played) + Len(q)
        /\ \A k \in 1 .. Len(played) + Len(q) :
             played'[k] = IF k <= Len(played) THEN played[k]
                                              ELSE q[k - Len(played)]
    BY <1>1, <1>5, <2>1, <2>6, ConcatProperties
  <2>8. Len(played) \in Nat
    BY <2>1
  <2>9. ASSUME NEW k \in 1 .. Len(played') PROVE played'[k] = k
    <3>1. CASE k <= Len(played)
      <4>1. k \in 1 .. Len(played) /\ k \in 1 .. Len(played) + Len(q)
        BY <2>7, <2>8, <3>1
      <4> QED
        BY <2>1, <2>7, <3>1, <4>1
    <3>2. CASE ~(k <= Len(played))
      <4>1. k - Len(played) \in 1 .. m
        BY <2>4, <2>6, <2>7, <2>8, <3>2
      <4> QED
        BY <2>4, <2>6, <2>7, <2>8, <3>2, <4>1
    <3> QED
      BY <3>1, <3>2
  <2>10. End(1) = Len(played) + m
    <3>1. m \in 1 .. m
      BY <2>4
    <3> QED
      BY <1>2, <2>3, <3>1 DEF End, m
  <2>11. \A k \in 0 .. Len(chain) - 1 : End(k)' = End(k + 1)
    <3>1. ASSUME NEW k \in 0 .. Len(chain) - 1 PROVE End(k)' = End(k + 1)
      <4>1. CASE k = 0
        BY <2>6, <2>7, <2>10, <4>1 DEF End
      <4>2. CASE k # 0
        <5>1. k \in DOMAIN chain' /\ k + 1 # 0
          BY <1>2, <4>2
        <5> QED
          BY <1>1, <1>2, <4>2, <5>1 DEF End
      <4> QED
        BY <4>1, <4>2
    <3> QED
      BY <3>1
  <2>12. QueueInOrder'
    <3>1. ASSUME NEW k \in DOMAIN chain', NEW j \in 1 .. chain'[k].size
          PROVE  mem'[chain'[k].buf][j] = End(k - 1)' + j
      <4>1. /\ k - 1 \in 0 .. Len(chain) - 1 /\ (k - 1) + 1 = k
            /\ (k + 1) - 1 = k /\ k + 1 \in DOMAIN chain
        BY <1>2
      <4>2. mem[chain[k + 1].buf][j] = End((k + 1) - 1) + j
        BY <1>2, <1>5, <4>1 DEF InOrder, QueueInOrder
      <4> QED
        BY <1>1, <1>2, <2>11, <4>1, <4>2
    <3> QED
      BY <3>1 DEF QueueInOrder
  <2>13. End(Len(chain))' = End(Len(chain))
    <3>1. /\ Len(chain) - 1 \in 0 .. Len(chain) - 1
          /\ (Len(chain) - 1) + 1 = Len(chain)
      BY <1>2
    <3> QED
      BY <1>2, <2>11, <3>1
  <2>14. RestInOrder'
    BY <1>1, <1>5, <2>13 DEF InOrder, RestInOrder
  <2> QED
    BY <2>7, <2>9, <2>12, <2>14
<1> QED
  BY <1>1, <1>4, <1>5 DEF InOrder

(***************************************************************************)
(* Every step keeps the order.                                             *)
(***************************************************************************)
\* The calls: they clear the stream, set it up or leave its data alone.
LEMMA CallOrder == IInv /\ InOrder /\ Call => InOrder'
<1> SUFFICES ASSUME IInv, InOrder, Call PROVE InOrder'
  OBVIOUS
<1>0. geometry \in Geometry
  BY DEF IInv, OwnerInv, TypeOK
<1>1. CASE smdk2410_audio_open \/ Reset
  BY <1>1, ClearOrder DEF smdk2410_audio_open, Reset, Return
<1>2. ASSUME NEW n \in 1 .. MaxUnits, smdk2410_audio_write(n) PROVE InOrder'
  <2>1. pc' # "flush"
    BY <1>2 DEF smdk2410_audio_write, WithBuffers, Return
  <2>2. UNCHANGED <<stream, ghosts>> \/ (frags = 0 /\ audio_setup_buf(geometry))
    BY <1>2 DEF smdk2410_audio_write, WithBuffers
  <2>3. CASE UNCHANGED <<stream, ghosts>>
    BY <2>1, <2>3, QuietOrder DEF stream, ghosts, Data
  <2> QED
    BY <1>0, <2>1, <2>2, <2>3, SetupOrder
<1>3. ASSUME NEW c \in BOOLEAN, SyncStart(c) PROVE InOrder'
  <2>1. UNCHANGED Data /\ (pc' = "flush" => size[buf_idx] # 0)
    BY <1>3 DEF SyncStart, stream, ghosts, Data
  <2> QED
    BY <2>1, QuietOrder
<1>4. CASE smdk2410_audio_poll
  <2>1. pc' # "flush"
    BY <1>4 DEF smdk2410_audio_poll, WithBuffers, Return, Goto
  <2>2. UNCHANGED <<stream, ghosts>> \/ (frags = 0 /\ audio_setup_buf(geometry))
    BY <1>4 DEF smdk2410_audio_poll, WithBuffers
  <2>3. CASE UNCHANGED <<stream, ghosts>>
    BY <2>1, <2>3, QuietOrder DEF stream, ghosts, Data
  <2> QED
    BY <1>0, <2>1, <2>2, <2>3, SetupOrder
<1>5. CASE SetFragment
  <2>1. pc' # "flush"
    BY <1>5 DEF SetFragment, Return
  <2>2. \/ \E g \in Geometry : frags = 0 /\ audio_setup_buf(g)
        \/ UNCHANGED <<stream, ghosts>>
    BY <1>5 DEF SetFragment
  <2>3. CASE UNCHANGED <<stream, ghosts>>
    BY <2>1, <2>3, QuietOrder DEF stream, ghosts, Data
  <2> QED
    BY <2>1, <2>2, <2>3, SetupOrder
<1>6. CASE SetChannels \/ Nonblock
  BY <1>6, QuietOrder DEF SetChannels, Nonblock, Return, stream, ghosts, Data
<1> QED
  BY <1>1, <1>2, <1>3, <1>4, <1>5, <1>6 DEF Call

\* Every other step.
LEMMA OrderStep == IInv /\ InOrder /\ [Next]_vars => InOrder'
<1> SUFFICES ASSUME IInv, InOrder, [Next]_vars PROVE InOrder'
  OBVIOUS
<1>1. CASE smdk2410_audio_release
  BY <1>1, ClearOrder DEF smdk2410_audio_release
<1>2. CASE Down \/ CopyFails
  BY <1>2, QuietOrder DEF Down, CopyFails, Goto, Return, ghosts, Data
<1>3. CASE SyncWait \/ SyncReturns \/ PollAgain
  BY <1>3, QuietOrder
     DEF SyncWait, SyncReturns, PollAgain, Goto, Return, stream, ghosts, Data
<1>4. CASE Interrupted
  BY <1>4, QuietOrder
     DEF Interrupted, DownFails, SyncSignal, PollSignal, WriteReturns, Return,
         stream, ghosts, Data
<1>5. CASE UNCHANGED vars
  <2>1. UNCHANGED Data /\ pc' = pc
    BY <1>5 DEF vars, stream, process, ghosts, Data
  <2> QED
    BY <2>1, QuietOrder DEF InOrder, DataType
<1> QED
  BY <1>1, <1>2, <1>3, <1>4, <1>5, CallOrder, FillOrder, EnqueueOrder,
     EnqueueFailsOrder, SyncFlushOrder, CallbackOrder DEF Next, Step

\* Nothing was taken yet.
LEMMA InitOrder == Init => InOrder
<1> SUFFICES ASSUME Init PROVE InOrder
  OBVIOUS
<1>1. /\ frags = 0 /\ fragsize = 0 /\ chain = <<>> /\ mem = NoBuffers
      /\ accepted = 0 /\ played = <<>> /\ damaged = FALSE /\ pc = "closed"
  BY DEF Init
<1>2. Buffers = {} /\ DOMAIN chain = {} /\ Len(chain) = 0 /\ Len(played) = 0
  BY <1>1 DEF Buffers
<1>3. DataType
  BY <1>1, <1>2 DEF DataType, NoBuffers
<1>4. QueueInOrder /\ RestInOrder
  BY <1>1, <1>2 DEF QueueInOrder, RestInOrder, End
<1>5. played \in Seq(Nat) /\ \A k \in 1 .. Len(played) : played[k] = k
  BY <1>1, <1>2
<1>6. damaged \in BOOLEAN
  BY <1>1, Zenon
<1> QED
  BY <1>3, <1>4, <1>5, <1>6 DEF InOrder

(***************************************************************************)
(* From the order of the units to the sequences of PlayedInOrder.  Queued  *)
(* is a recursive function: that a function satisfying its equation exists *)
(* and what it computes are both shown by induction over the queue, as a   *)
(* statement about a set of numbers.                                       *)
(***************************************************************************)
\* A set of numbers has a least element.
LEMMA LeastByRelation ==
  ASSUME NEW LT, IsWellFoundedOn(LT, Nat),
         \A x, y \in Nat : y < x => <<y, x>> \in LT,
         NEW T \in SUBSET Nat, T # {}
  PROVE  \E x \in T : \A y \in T : x <= y
<1>1. \E x \in T : \A y \in T : ~ (<<y, x>> \in LT)
  BY WFMin
<1>2. PICK x \in T : \A y \in T : ~ (<<y, x>> \in LT)
  BY <1>1
<1>3. x \in Nat
  OBVIOUS
<1>4. ASSUME NEW y \in T PROVE x <= y
  <2>1. ~(y < x)
    BY <1>2, <1>3
  <2> QED
    BY <1>3, <2>1
<1> QED
  BY <1>4

\* The same without naming the relation.
LEMMA LeastNat ==
  ASSUME NEW T \in SUBSET Nat, T # {}
  PROVE  \E x \in T : \A y \in T : x <= y
<1>1. IsWellFoundedOn(OpToRel(<, Nat), Nat)
  BY NatLessThanWellFounded
<1>2. \A x, y \in Nat : y < x => <<y, x>> \in OpToRel(<, Nat)
  BY DEF OpToRel
<1> QED
  BY <1>1, <1>2, LeastByRelation

\* Induction, with a set for the predicate.
LEMMA SetInduction ==
  ASSUME NEW A, 0 \in A, \A k \in Nat : k \in A => k + 1 \in A
  PROVE  \A k \in Nat : k \in A
<1> DEFINE T == Nat \ A
<1>1. SUFFICES ASSUME T # {} PROVE FALSE
  OBVIOUS
<1>2. T \in SUBSET Nat
  OBVIOUS
<1>3. PICK x \in T : \A y \in T : x <= y
  BY <1>1, <1>2, LeastNat
<1>4. x \in Nat /\ x \notin A /\ x # 0
  OBVIOUS
<1>5. x - 1 \in Nat /\ (x - 1) + 1 = x
  BY <1>4
<1>6. x - 1 \notin T
  <2>1. ~(x <= x - 1)
    BY <1>4
  <2> QED
    BY <1>3, <2>1
<1> QED
  BY <1>4, <1>5, <1>6

\* The units after a up to b.
Run(a, b) == [j \in 1 .. b - a |-> a + j]

\* Its length and elements.
LEMMA RunSeq ==
  ASSUME NEW a \in Nat, NEW b \in Nat, a <= b
  PROVE  /\ Run(a, b) \in Seq(Nat) /\ Len(Run(a, b)) = b - a
         /\ \A j \in 1 .. b - a : Run(a, b)[j] = a + j
<1>1. b - a \in Nat
  OBVIOUS
<1> QED
  BY <1>1 DEF Run

\* A sequence of consecutive units is a run.
LEMMA IsRun ==
  ASSUME NEW a \in Nat, NEW s \in Seq(Nat), NEW n \in Nat, Len(s) = n,
         \A j \in 1 .. n : s[j] = a + j
  PROVE  s = Run(a, a + n)
<1> DEFINE b == a + n
           v == Run(a, b)
<1>1. b \in Nat /\ a <= b /\ b - a = n
  OBVIOUS
<1> HIDE DEF b
<1>2. v \in Seq(Nat) /\ Len(v) = n /\ \A j \in 1 .. n : v[j] = a + j
  BY <1>1, RunSeq
<1> HIDE DEF v
<1>3. s = v
  BY <1>2, SeqEqual
<1> QED
  BY <1>3 DEF b, v

\* Two runs that meet are one.
LEMMA RunConcat ==
  ASSUME NEW a \in Nat, NEW b \in Nat, NEW d \in Nat, a <= b, b <= d
  PROVE  Run(a, b) \o Run(b, d) = Run(a, d)
<1> DEFINE s == Run(a, b)
           t == Run(b, d)
           v == Run(a, d)
           u == s \o t
<1>0. a <= d
  OBVIOUS
<1>1. s \in Seq(Nat) /\ Len(s) = b - a /\ \A j \in 1 .. b - a : s[j] = a + j
  BY RunSeq
<1>2. t \in Seq(Nat) /\ Len(t) = d - b /\ \A j \in 1 .. d - b : t[j] = b + j
  BY RunSeq
<1>3. v \in Seq(Nat) /\ Len(v) = d - a /\ \A j \in 1 .. d - a : v[j] = a + j
  BY <1>0, RunSeq
<1> HIDE DEF s, t, v
<1>4. /\ u \in Seq(Nat) /\ Len(u) = Len(s) + Len(t)
      /\ \A i \in 1 .. Len(s) + Len(t) :
           u[i] = IF i <= Len(s) THEN s[i] ELSE t[i - Len(s)]
  BY <1>1, <1>2, ConcatProperties
<1> HIDE DEF u
<1>5. Len(u) = Len(v)
  BY <1>1, <1>2, <1>3, <1>4
<1>6. ASSUME NEW i \in 1 .. Len(u) PROVE u[i] = v[i]
  <2>1. i \in 1 .. d - a
    BY <1>3, <1>5
  <2>2. CASE i <= b - a
    BY <1>1, <1>2, <1>3, <1>4, <2>1, <2>2
  <2>3. CASE ~(i <= b - a)
    <3>1. i - (b - a) \in 1 .. d - b
      BY <2>1, <2>3
    <3>2. u[i] = t[i - (b - a)]
      BY <1>1, <1>2, <1>4, <2>1, <2>3
    <3> QED
      BY <1>2, <1>3, <2>1, <3>1, <3>2
  <2> QED
    BY <2>2, <2>3
<1>7. u = v
  BY <1>3, <1>4, <1>5, <1>6, SeqEqual
<1> QED
  BY <1>7 DEF u, v, s, t

\* The first units of a buffer that holds consecutive ones.
LEMMA PrefixRun ==
  ASSUME NEW x, NEW n \in Nat, NEW a \in Nat, \A j \in 1 .. n : x[j] = a + j
  PROVE  SubSeq(x, 1, n) = Run(a, a + n)
<1> DEFINE q == SubSeq(x, 1, n)
<1>1. \A j \in 1 .. n : x[j] \in Nat
  OBVIOUS
<1>2. /\ q \in Seq(Nat)
      /\ Len(q) = IF 1 <= n THEN n - 1 + 1 ELSE 0
      /\ \A j \in 1 .. n - 1 + 1 : q[j] = x[1 + j - 1]
  BY <1>1, SubSeqProperties
<1> HIDE DEF q
<1>3. Len(q) = n /\ \A j \in 1 .. n : q[j] = a + j
  BY <1>2
<1>4. q = Run(a, a + n)
  BY <1>2, <1>3, IsRun
<1> QED
  BY <1>4 DEF q

\* A transfer carries the units from the end of the one before it to its own.
LEMMA TransferRun ==
  ASSUME IInv, InOrder, ~damaged, NEW k \in DOMAIN chain
  PROVE  /\ k \in 1 .. Len(chain) /\ Len(chain) \in Nat
         /\ End(k - 1) \in Nat /\ End(k) \in Nat /\ End(k - 1) <= End(k)
         /\ SubSeq(mem[chain[k].buf], 1, chain[k].size)
              = Run(End(k - 1), End(k))
<1> DEFINE x == mem[chain[k].buf]
           n == chain[k].size
           a == End(k - 1)
<1>0. fragsize \in Nat /\ chain \in Seq(Transfer)
  BY DEF IInv, StreamType
<1>1. k \in 1 .. Len(chain) /\ Len(chain) \in Nat
  BY <1>0, LenProperties
<1>2. k - 1 \in 0 .. Len(chain) /\ k # 0
  BY <1>1
<1>3. a \in Nat
  BY <1>2, EndType
<1>4. n \in Nat /\ n >= 1
  BY <1>0 DEF InOrder, DataType
<1>5. \A j \in 1 .. n : x[j] = a + j
  BY DEF InOrder, QueueInOrder
<1>6. End(k) = x[n]
  BY <1>2 DEF End
<1> HIDE DEF x, n, a
<1>7. End(k) = a + n
  BY <1>4, <1>5, <1>6
<1>8. SubSeq(x, 1, n) = Run(a, a + n)
  BY <1>3, <1>4, <1>5, PrefixRun
<1>9. a <= a + n /\ a + n \in Nat
  BY <1>3, <1>4
<1> QED
  BY <1>1, <1>3, <1>7, <1>8, <1>9 DEF x, n, a

\* The transfers come after what was played.
LEMMA EndsAfterPlayed ==
  ASSUME IInv, InOrder, ~damaged
  PROVE  \A k \in 0 .. Len(chain) : Len(played) <= End(k) /\ End(k) \in Nat
<1> DEFINE A == {k \in Nat : k <= Len(chain) => Len(played) <= End(k)}
<1>0. /\ Len(chain) \in Nat /\ DOMAIN chain = 1 .. Len(chain)
      /\ Len(played) \in Nat
  BY LenProperties DEF IInv, StreamType, InOrder
<1>1. 0 \in A
  BY <1>0 DEF End
<1>2. ASSUME NEW k \in Nat, k \in A PROVE k + 1 \in A
  <2>1. SUFFICES ASSUME k + 1 <= Len(chain) PROVE Len(played) <= End(k + 1)
    OBVIOUS
  <2>2. k <= Len(chain) /\ k + 1 \in DOMAIN chain
    BY <1>0, <2>1
  <2> DEFINE i == k + 1
  <2>3. i \in DOMAIN chain /\ i - 1 = k
    BY <2>2
  <2>4. Len(played) <= End(k)
    BY <1>2, <2>2
  <2> HIDE DEF i
  <2>5. End(i - 1) \in Nat /\ End(i) \in Nat /\ End(i - 1) <= End(i)
    BY <2>3, TransferRun
  <2>6. Len(played) <= End(i)
    BY <1>0, <2>3, <2>4, <2>5
  <2> QED
    BY <2>6 DEF i
<1> HIDE DEF A
<1>3. \A k \in Nat : k \in A
  BY <1>1, <1>2, SetInduction
<1>4. ASSUME NEW k \in 0 .. Len(chain) PROVE Len(played) <= End(k)
  <2>1. k \in Nat /\ k <= Len(chain)
    BY <1>0
  <2> QED
    BY <1>3, <2>1 DEF A
<1> QED
  BY <1>4, EndType

\* One transfer more in the queue.
LEMMA RunStep ==
  ASSUME IInv, InOrder, ~damaged, NEW k \in DOMAIN chain
  PROVE  Run(Len(played), End(k - 1))
           \o SubSeq(mem[chain[k].buf], 1, chain[k].size)
           = Run(Len(played), End(k))
<1> DEFINE p == Len(played)
           a == End(k - 1)
           b == End(k)
<1>1. /\ k \in 1 .. Len(chain) /\ Len(chain) \in Nat
      /\ a \in Nat /\ b \in Nat /\ a <= b
      /\ SubSeq(mem[chain[k].buf], 1, chain[k].size) = Run(a, b)
  BY TransferRun
<1>2. k - 1 \in 0 .. Len(chain)
  BY <1>1
<1>3. p <= a /\ p \in Nat
  BY <1>2, EndsAfterPlayed DEF InOrder
<1> HIDE DEF p, a, b
<1>4. Run(p, a) \o Run(a, b) = Run(p, b)
  BY <1>1, <1>3, RunConcat
<1> QED
  BY <1>1, <1>4 DEF p, a, b

\* The equation of Queued, given some function that satisfies it.
LEMMA QueuedEquation ==
  ASSUME NEW G,
         G = [k \in 0 .. Len(chain) |->
                IF k = 0 THEN <<>>
                ELSE G[k - 1] \o SubSeq(mem[chain[k].buf], 1, chain[k].size)]
  PROVE  Queued = [k \in 0 .. Len(chain) |->
                     IF k = 0 THEN <<>>
                     ELSE Queued[k - 1]
                            \o SubSeq(mem[chain[k].buf], 1, chain[k].size)]
BY Zenon DEF Queued

\* What is queued are the units after those played.
LEMMA QueuedRun ==
  ASSUME IInv, InOrder, ~damaged
  PROVE  Queued[Len(chain)] = Run(Len(played), End(Len(chain)))
<1> DEFINE p == Len(played)
           S(k) == SubSeq(mem[chain[k].buf], 1, chain[k].size)
           G == [k \in 0 .. Len(chain) |-> Run(p, End(k))]
           H == [k \in 0 .. Len(chain) |->
                   IF k = 0 THEN <<>> ELSE G[k - 1] \o S(k)]
<1>0. /\ Len(chain) \in Nat /\ DOMAIN chain = 1 .. Len(chain)
      /\ p \in Nat
  BY LenProperties DEF IInv, StreamType, InOrder
<1>1. Run(p, End(0)) = <<>>
  <2>1. Run(p, p) \in Seq(Nat) /\ Len(Run(p, p)) = 0
    BY <1>0, RunSeq
  <2>2. Run(p, p) = <<>>
    BY <2>1, EmptySeq
  <2> QED
    BY <2>2 DEF End
<1>2. \A k \in 1 .. Len(chain) : Run(p, End(k - 1)) \o S(k) = Run(p, End(k))
  BY <1>0, RunStep
<1>3. ASSUME NEW k \in 0 .. Len(chain) PROVE G[k] = H[k]
  <2>1. CASE k = 0
    BY <1>0, <1>1, <2>1
  <2>2. CASE k # 0
    <3>1. k \in 1 .. Len(chain) /\ k - 1 \in 0 .. Len(chain)
      BY <1>0, <2>2
    <3>2. G[k - 1] = Run(p, End(k - 1)) /\ G[k] = Run(p, End(k))
      BY <3>1
    <3>3. H[k] = G[k - 1] \o S(k)
      BY <2>2
    <3> QED
      BY <1>2, <3>1, <3>2, <3>3
  <2> QED
    BY <2>1, <2>2
<1>4. G = H
  BY <1>3
<1> HIDE DEF G
<1>5. Queued = [k \in 0 .. Len(chain) |->
                  IF k = 0 THEN <<>> ELSE Queued[k - 1] \o S(k)]
  BY <1>4, QueuedEquation
<1>6. /\ Queued[0] = <<>>
      /\ \A k \in 1 .. Len(chain) : Queued[k] = Queued[k - 1] \o S(k)
  <2> DEFINE Q == Queued
  <2>1. Q = [k \in 0 .. Len(chain) |->
               IF k = 0 THEN <<>> ELSE Q[k - 1] \o S(k)]
    BY <1>5
  <2> HIDE DEF Q, S
  <2>2. Q[0] = <<>>
    BY <1>0, <2>1
  <2>3. ASSUME NEW k \in 1 .. Len(chain) PROVE Q[k] = Q[k - 1] \o S(k)
    <3>1. k \in 0 .. Len(chain) /\ k # 0
      BY <1>0
    <3> QED
      BY <2>1, <3>1
  <2> QED
    BY <2>2, <2>3 DEF Q, S
<1> DEFINE A == {k \in Nat : k <= Len(chain) => Queued[k] = Run(p, End(k))}
<1> HIDE DEF S
<1>7. 0 \in A
  BY <1>1, <1>6
<1>8. ASSUME NEW k \in Nat, k \in A PROVE k + 1 \in A
  <2>1. SUFFICES ASSUME k + 1 <= Len(chain)
                 PROVE  Queued[k + 1] = Run(p, End(k + 1))
    OBVIOUS
  <2> DEFINE i == k + 1
  <2>2. i \in 1 .. Len(chain) /\ i - 1 = k /\ k <= Len(chain)
    BY <1>0, <2>1
  <2>3. Queued[k] = Run(p, End(k))
    BY <1>8, <2>2
  <2> HIDE DEF i
  <2>4. Queued[i] = Queued[i - 1] \o S(i)
    BY <1>6, <2>2
  <2>5. Run(p, End(i - 1)) \o S(i) = Run(p, End(i))
    BY <1>2, <2>2
  <2>6. Queued[i] = Run(p, End(i))
    BY <2>2, <2>3, <2>4, <2>5
  <2> QED
    BY <2>6 DEF i
<1> HIDE DEF A
<1>9. \A k \in Nat : k \in A
  BY <1>7, <1>8, SetInduction
<1> QED
  BY <1>0, <1>9 DEF A

\* Played, queued and waiting units together are those taken, in order.
LEMMA OrderImplied == IInv /\ InOrder => PlayedInOrder
<1> SUFFICES ASSUME IInv, InOrder, ~damaged
             PROVE  played \o Queued[Len(chain)] \o Rest = [k \in 1 .. accepted |-> k]
  BY DEF PlayedInOrder
<1> DEFINE p == Len(played)
           e == End(Len(chain))
<1>0. played \in Seq(Nat) /\ p \in Nat /\ Len(chain) \in Nat /\ accepted \in Nat
  BY LenProperties DEF IInv, StreamType, InOrder, DataType
<1>1. e \in Nat /\ p <= e
  BY <1>0, EndsAfterPlayed
<1>2. Queued[Len(chain)] = Run(p, e)
  BY QueuedRun
<1>3. Rest = Run(e, accepted) /\ e <= accepted
  <2>1. CASE frags = 0
    <3>1. accepted = e /\ Rest = <<>>
      BY <2>1 DEF InOrder, RestInOrder, Rest
    <3> HIDE DEF e
    <3>2. Run(e, e) \in Seq(Nat) /\ Len(Run(e, e)) = 0
      BY <1>1, RunSeq
    <3>3. Run(e, e) = <<>>
      BY <3>2, EmptySeq
    <3> QED
      BY <1>1, <3>1, <3>3
  <2>2. CASE frags # 0
    <3> DEFINE n == size[buf_idx]
               x == mem[buf_idx]
    <3>1. accepted = e + n /\ \A j \in 1 .. n : x[j] = e + j
      BY <2>2 DEF InOrder, RestInOrder
    <3>2. n \in Nat /\ Rest = SubSeq(x, 1, n)
      BY <2>2, Ring DEF Rest
    <3> HIDE DEF n, x, e
    <3>3. SubSeq(x, 1, n) = Run(e, e + n)
      BY <1>1, <3>1, <3>2, PrefixRun
    <3> QED
      BY <1>1, <3>1, <3>2, <3>3
  <2> QED
    BY <2>1, <2>2
<1>4. played = Run(0, p)
  <2>1. \A j \in 1 .. p : played[j] = 0 + j
    BY <1>0 DEF InOrder
  <2>2. played = Run(0, 0 + p)
    BY <1>0, <2>1, IsRun
  <2> QED
    BY <1>0, <2>2
<1> HIDE DEF p, e
<1>5. \A o \in {0} : /\ Run(o, p) \o Run(p, e) = Run(o, e)
                     /\ Run(o, e) \o Run(e, accepted) = Run(o, accepted)
  <2> TAKE o \in {0}
  <2>1. o \in Nat /\ o <= p /\ o <= e
    BY <1>0, <1>1
  <2>2. Run(o, p) \o Run(p, e) = Run(o, e)
    BY <1>0, <1>1, <2>1, RunConcat
  <2>3. Run(o, e) \o Run(e, accepted) = Run(o, accepted)
    BY <1>0, <1>1, <1>3, <2>1, RunConcat
  <2> QED
    BY <2>2, <2>3
<1>6. /\ Run(0, p) \o Run(p, e) = Run(0, e)
      /\ Run(0, e) \o Run(e, accepted) = Run(0, accepted)
  BY <1>5
<1>7. Run(0, accepted) = [k \in 1 .. accepted |-> k]
  BY <1>0 DEF Run
<1> QED
  BY <1>2, <1>3, <1>4, <1>5, <1>6, <1>7

\* What was played, what is queued and what waits in the current buffer are the
\* units write took, each once and in order, unless an enqueue error of the DMA
\* core made the driver repeat or drop a buffer.
THEOREM PlayedInOrderAlways == Spec => []PlayedInOrder
<1>1. Init => IInv /\ InOrder
  BY InitInv, InitOrder
<1>2. (IInv /\ InOrder) /\ [Next]_vars => (IInv /\ InOrder)'
  BY StepInv, OrderStep
<1>3. IInv /\ InOrder => PlayedInOrder
  BY OrderImplied
<1> QED
  BY <1>1, <1>2, <1>3, PTL DEF Spec

=============================================================================
