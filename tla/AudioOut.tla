------------------------------ MODULE AudioOut ------------------------------
(***************************************************************************)
(* The playback half of the sound driver 21th_sound/driver/s3c-wm8976.c:   *)
(* one process writes into a ring of fragments, the DMA channel plays the  *)
(* fragments handed to it and its interrupt gives them back.  A fragment's *)
(* semaphore is 1 while it is free and 0 while somebody owns it.           *)
(*                                                                         *)
(* A unit of data is one stereo sample (the code cuts counts down to       *)
(* multiples of 4 bytes); the units of a session are numbered 1, 2, ...    *)
(* The DMA core is the queue that plat-s3c24xx/dma.c keeps: its two-deep   *)
(* loading of the hardware is not visible to the driver.  On this          *)
(* uniprocessor kernel only the DMA interrupt comes between two steps of   *)
(* a process that does not sleep.                                          *)
(***************************************************************************)
EXTENDS Integers, Sequences

CONSTANTS
  Geometry,         \* the <<nbfrags, fragsize>> SETFRAGMENT can arrive at
  DefaultGeometry,  \* <<AUDIO_NBFRAGS_DEFAULT, AUDIO_FRAGSIZE_DEFAULT>>
  MaxUnits          \* bound: units written between two resets of the stream

ASSUME AudioAssumption ==
  /\ Geometry \subseteq (Nat \ {0, 1}) \X (Nat \ {0})
  /\ DefaultGeometry \in Geometry
  /\ MaxUnits \in Nat

VARIABLES
  geometry,  \* audio_nbfrags, audio_fragsize
  channels,  \* audio_channels
  nonblock,  \* O_NONBLOCK of the open file
  \* output_stream
  frags,     \* nbfrags of the buffers, 0 when buffers is NULL
  fragsize,
  buf_idx,
  size, sem, mem,  \* of each buffer: its fill level, semaphore and contents
  chain,     \* the DMA channel's queue: buffer and size of each transfer
  \* the process
  pc, count, ret,
  closing,   \* audio_sync was called by audio_release
  \* what happened since the stream was last reset
  accepted,  \* units taken from the user
  played,    \* units played, in order (not kept once damaged)
  lost,      \* buffers whose enqueue failed for lack of memory
  damaged    \* an enqueue error made the driver repeat or drop a buffer

stream == <<frags, fragsize, buf_idx, size, sem, mem, chain>>
ghosts == <<accepted, played, lost, damaged>>
process == <<pc, count, ret, closing>>
settings == <<geometry, channels, nonblock>>
vars == <<settings, stream, process, ghosts>>

EAGAIN == -11
ERESTARTSYS == -512
EFAULT == -14
EINTR == -4
ENOMEM == -12
EINVAL == -22
EBUSY == -16

Buffers == 0 .. frags - 1
NoBuffers == [b \in {} |-> 0]
InChain == {chain[k].buf : k \in DOMAIN chain}

-----------------------------------------------------------------------------
(* Mutants of the definitions below.                                       *)
PreviousSame == buf_idx
WakesNobody(b) == FALSE
ReleaseNever == sem
CopyAtStart == 0

-----------------------------------------------------------------------------
(* Setting up and clearing the stream.                                     *)

NEXT_BUF(i) == (i + 1) % frags

\* s3c2410_dma_flush calls the callback for every queued transfer, then all
\* buffers are freed: their semaphores are gone with them.
audio_clear_buf ==
  /\ chain' = <<>>
  /\ frags' = 0 /\ fragsize' = 0 /\ buf_idx' = 0
  /\ size' = NoBuffers /\ sem' = NoBuffers /\ mem' = NoBuffers
  /\ accepted' = 0 /\ played' = <<>> /\ lost' = {} /\ damaged' = FALSE

audio_setup_buf(g) ==
  /\ frags' = g[1] /\ fragsize' = g[2] /\ buf_idx' = 0
  /\ size' = [b \in 0 .. g[1] - 1 |-> 0]
  /\ sem' = [b \in 0 .. g[1] - 1 |-> 1]
  /\ mem' = [b \in 0 .. g[1] - 1 |-> [k \in 1 .. g[2] |-> 0]]
  /\ UNCHANGED <<chain, ghosts>>

Return(r) ==
  /\ pc' = "user"
  /\ ret' = r
  /\ count' = 0
  /\ UNCHANGED closing

Goto(l) == pc' = l /\ UNCHANGED <<count, ret, closing>>

\* The tail of audio_write: bytes written, if any, else the error.
WriteReturns(r) == Return(IF ret > 0 THEN ret ELSE r)

\* The calls that need the buffers set them up first, or fail.
WithBuffers(Then) ==
  \/ frags > 0 /\ UNCHANGED <<stream, ghosts>> /\ Then
  \/ frags = 0 /\ audio_setup_buf(geometry) /\ Then
  \/ frags = 0 /\ UNCHANGED <<stream, ghosts>> /\ Return(ENOMEM)

-----------------------------------------------------------------------------
(* The DMA channel.                                                        *)

s3c2410_dma_enqueue(b, n) == chain' = Append(chain, [buf |-> b, size |-> n])

Up(b) == [sem EXCEPT ![b] = @ + 1]

\* A sleeping poll is on the queue of the buffer that was the current one when it
\* was called and still is: only this process moves buf_idx.
Wakes(b) == pc = "poll" /\ b = buf_idx

\* The interrupt for the oldest transfer: what is in memory now was played.
\* up, then wake_up of whoever polls on this buffer's semaphore.
audio_dmaout_done_callback ==
  /\ chain # <<>>
  /\ LET t == Head(chain)
     IN /\ played' = IF damaged THEN <<>> ELSE played \o SubSeq(mem[t.buf], 1, t.size)
        /\ chain' = Tail(chain)
        /\ sem' = Up(t.buf)
        /\ pc' = IF Wakes(t.buf) THEN "woken" ELSE pc
  /\ UNCHANGED <<settings, frags, fragsize, buf_idx, size, mem, count, ret,
                 closing, accepted, lost, damaged>>

-----------------------------------------------------------------------------
(* open, write.                                                            *)

smdk2410_audio_open ==
  /\ pc = "closed"
  /\ geometry' = DefaultGeometry
  /\ channels' = 2
  /\ nonblock' \in BOOLEAN
  /\ audio_clear_buf
  /\ Return(0)

smdk2410_audio_write(n) ==
  /\ pc = "user"
  /\ accepted + n <= MaxUnits
  /\ WithBuffers(/\ pc' = "down" /\ count' = n /\ ret' = 0
                 /\ UNCHANGED closing)
  /\ UNCHANGED settings

Down ==
  /\ pc = "down"
  /\ sem[buf_idx] > 0
  /\ sem' = [sem EXCEPT ![buf_idx] = 0]
  /\ Goto("fill")
  /\ UNCHANGED <<settings, frags, fragsize, buf_idx, size, mem, chain, ghosts>>

\* The current buffer is not free: down_trylock fails, or a signal ends the sleep.
DownFails ==
  /\ pc = "down"
  /\ sem[buf_idx] = 0
  /\ WriteReturns(IF nonblock THEN EAGAIN ELSE ERESTARTSYS)
  /\ UNCHANGED <<settings, stream, ghosts>>

\* copy_from_user fails; for mono always, the test of access_ok is inverted.
CopyFails ==
  /\ pc = "fill"
  /\ sem' = Up(buf_idx)
  /\ Return(EFAULT)
  /\ UNCHANGED <<settings, frags, fragsize, buf_idx, size, mem, chain, ghosts>>

Chunk ==
  LET room == fragsize - size[buf_idx] IN IF room > count THEN count ELSE room

\* Where in the buffer the chunk is copied to.
CopyAt == size[buf_idx]

PartialReleased == Up(buf_idx)

Fill ==
  /\ pc = "fill" /\ channels = 2
  /\ LET b == buf_idx
         full == size[b] + Chunk = fragsize
     IN /\ mem' = [mem EXCEPT ![b] =
                     [k \in DOMAIN @ |-> IF k \in CopyAt + 1 .. CopyAt + Chunk
                                           THEN accepted + k - CopyAt ELSE @[k]]]
        /\ size' = [size EXCEPT ![b] = @ + Chunk]
        /\ accepted' = accepted + Chunk
        /\ \/ /\ full
              /\ pc' = "enqueue" /\ count' = count - Chunk /\ ret' = ret + Chunk
              /\ UNCHANGED <<sem, closing>>
           \/ /\ ~full
              /\ sem' = PartialReleased
              /\ Return(ret + Chunk)
  /\ UNCHANGED <<settings, frags, fragsize, buf_idx, chain, played, lost, damaged>>

Enqueue ==
  /\ pc = "enqueue"
  /\ s3c2410_dma_enqueue(buf_idx, size[buf_idx])
  /\ size' = [size EXCEPT ![buf_idx] = 0]
  /\ buf_idx' = NEXT_BUF(buf_idx)
  /\ \/ count > 0 /\ Goto("down")
     \/ count = 0 /\ Return(ret)
  /\ UNCHANGED <<settings, frags, fragsize, sem, mem, ghosts>>

\* No memory for the queue entry, or (EINVAL) the entry is queued but the
\* hardware does not load: write returns at once, without up and NEXT_BUF.
EnqueueFails ==
  /\ pc = "enqueue"
  /\ \/ lost' = lost \union {buf_idx} /\ Return(ENOMEM) /\ UNCHANGED <<damaged, chain>>
     \/ /\ s3c2410_dma_enqueue(buf_idx, size[buf_idx])
        /\ damaged' = TRUE /\ Return(EINVAL) /\ UNCHANGED lost
  /\ UNCHANGED <<settings, frags, fragsize, buf_idx, size, sem, mem, accepted, played>>

-----------------------------------------------------------------------------
(* audio_sync, from SNDCTL_DSP_SYNC and from release.                      *)

SyncStart(c) ==
  /\ pc = "user"
  /\ closing' = c
  /\ ret' = 0
  /\ pc' = IF frags = 0 THEN "synced"
           ELSE IF size[buf_idx] # 0 THEN "flush" ELSE "wait"
  /\ UNCHANGED <<settings, stream, ghosts, count>>

\* down, not interruptible; the result of the enqueue is not looked at.
SyncFlush ==
  /\ pc = "flush"
  /\ sem[buf_idx] > 0
  /\ sem' = [sem EXCEPT ![buf_idx] = 0]
  /\ \/ s3c2410_dma_enqueue(buf_idx, size[buf_idx]) /\ UNCHANGED <<lost, damaged>>
     \/ lost' = lost \union {buf_idx} /\ damaged' = TRUE /\ UNCHANGED chain
  /\ size' = [size EXCEPT ![buf_idx] = 0]
  /\ buf_idx' = NEXT_BUF(buf_idx)
  /\ Goto("wait")
  /\ UNCHANGED <<settings, frags, fragsize, mem, accepted, played>>

Previous == (frags + buf_idx - 1) % frags

\* down_interruptible and up of the buffer enqueued last.
SyncWait ==
  /\ pc = "wait"
  /\ sem[Previous] > 0
  /\ Goto("synced")
  /\ UNCHANGED <<settings, stream, ghosts>>

SyncSignal ==
  /\ pc = "wait"
  /\ sem[Previous] = 0
  /\ pc' = "synced" /\ ret' = EINTR
  /\ UNCHANGED <<settings, stream, ghosts, count, closing>>

SyncReturns ==
  /\ pc = "synced" /\ ~closing
  /\ Return(ret)
  /\ UNCHANGED <<settings, stream, ghosts>>

smdk2410_audio_release ==
  /\ pc = "synced" /\ closing
  /\ audio_clear_buf
  /\ pc' = "closed" /\ closing' = FALSE /\ ret' = 0
  /\ UNCHANGED <<settings, count>>

-----------------------------------------------------------------------------
(* poll, and the other ioctls that change state.                           *)

\* poll_wait puts the process on the queue of the current buffer's semaphore; the
\* loop over the buffers looks at the first only.  The process sleeps if that one
\* is not free; a wake_up that comes before the sleep is not lost.
smdk2410_audio_poll ==
  /\ pc = "user"
  /\ WithBuffers(\/ sem'[0] > 0 /\ Return(0)
                 \/ sem'[0] = 0 /\ Goto("poll"))
  /\ UNCHANGED settings

\* The system call asks the driver again when it is woken, and stays on the queue.
PollAgain ==
  /\ pc = "woken"
  /\ \/ sem[0] > 0 /\ Return(0)
     \/ sem[0] = 0 /\ Goto("poll")
  /\ UNCHANGED <<settings, stream, ghosts>>

PollSignal ==
  /\ pc = "poll"
  /\ Return(EINTR)
  /\ UNCHANGED <<settings, stream, ghosts>>

SetFragment ==
  /\ pc = "user"
  /\ \/ /\ frags = 0
        /\ \E g \in Geometry :
             /\ geometry' = g
             /\ \/ audio_setup_buf(g) /\ Return(0)
                \/ UNCHANGED <<stream, ghosts>> /\ Return(ENOMEM)
     \/ frags > 0 /\ Return(EBUSY) /\ UNCHANGED <<geometry, stream, ghosts>>
  /\ UNCHANGED <<channels, nonblock>>

SetChannels ==
  /\ pc = "user"
  /\ channels' \in {1, 2}
  /\ Return(0)
  /\ UNCHANGED <<geometry, nonblock, stream, ghosts>>

Nonblock ==
  /\ pc = "user"
  /\ nonblock' = TRUE
  /\ Return(0)
  /\ UNCHANGED <<geometry, channels, stream, ghosts>>

Reset ==
  /\ pc = "user"
  /\ audio_clear_buf
  /\ Return(0)
  /\ UNCHANGED settings

-----------------------------------------------------------------------------
Init ==
  /\ geometry = DefaultGeometry /\ channels = 2 /\ nonblock = FALSE
  /\ frags = 0 /\ fragsize = 0 /\ buf_idx = 0
  /\ size = NoBuffers /\ sem = NoBuffers /\ mem = NoBuffers /\ chain = <<>>
  /\ pc = "closed" /\ count = 0 /\ ret = 0 /\ closing = FALSE
  /\ accepted = 0 /\ played = <<>> /\ lost = {} /\ damaged = FALSE

Call ==
  \/ smdk2410_audio_open
  \/ \E n \in 1 .. MaxUnits : smdk2410_audio_write(n)
  \/ \E c \in BOOLEAN : SyncStart(c)
  \/ smdk2410_audio_poll \/ SetFragment \/ SetChannels \/ Nonblock \/ Reset

\* The steps the process takes by itself once it is in a call.
Step ==
  \/ Down \/ CopyFails \/ Fill \/ Enqueue \/ EnqueueFails
  \/ SyncFlush \/ SyncWait \/ SyncReturns \/ smdk2410_audio_release \/ PollAgain

\* A signal, or for DownFails also O_NONBLOCK, ends a sleep.
Interrupted == DownFails \/ SyncSignal \/ PollSignal

Next == Call \/ Step \/ Interrupted \/ audio_dmaout_done_callback

Spec == Init /\ [][Next]_vars /\ WF_vars(Step) /\ WF_vars(audio_dmaout_done_callback)

-----------------------------------------------------------------------------
(* What a user of the device relies on.                                    *)

\* No semaphore is ever upped twice for one down, no buffer overflows, and
\* nothing is queued or played after the buffers are gone (lines 319-404).
TypeOK ==
  /\ geometry \in Geometry /\ channels \in {1, 2}
  /\ frags = 0 => chain = <<>> /\ pc \notin {"down", "fill", "enqueue", "flush", "wait", "poll",
                                                  "woken"}
  /\ buf_idx \in 0 .. IF frags = 0 THEN 0 ELSE frags - 1
  /\ sem \in [Buffers -> 0 .. 1] /\ size \in [Buffers -> 0 .. fragsize]
  /\ InChain \subseteq Buffers
  /\ pc \in {"closed", "user", "down", "fill", "enqueue", "flush", "wait", "synced", "poll",
             "woken"}

Writing(b) == pc \in {"fill", "enqueue"} /\ b = buf_idx

\* A buffer has one owner: it is free, or being filled by write, or queued once
\* for the DMA, or (after an enqueue that failed) lost; its semaphore says which
\* and the DMA never reads a buffer that write is filling (lines 171-177, 497-548).
OneOwner ==
  /\ \A j, k \in DOMAIN chain : chain[j].buf = chain[k].buf => j = k
  /\ \A b \in Buffers :
       /\ sem[b] = 0 <=> (b \in InChain \/ Writing(b) \/ b \in lost)
       /\ Writing(b) => b \notin InChain \union lost
       /\ b \notin InChain \intersect lost

\* Semaphores, fill levels, index and DMA queue agree on who owns which buffer.
OwnerInv == TypeOK /\ OneOwner

Queued[k \in 0 .. Len(chain)] ==
  IF k = 0 THEN <<>>
           ELSE Queued[k - 1] \o SubSeq(mem[chain[k].buf], 1, chain[k].size)

Rest ==
  IF frags = 0 THEN <<>> ELSE SubSeq(mem[buf_idx], 1, size[buf_idx])

\* What has been played, what is queued and what waits in the current buffer are
\* together the units write took, each once and in order, however the interrupt,
\* short writes, signals and failing copies fall.  Two errors of the DMA core are
\* excepted: a buffer that was queued but reported as failed is queued again by the
\* next write, and sync drops a buffer it has no memory to queue (lines 427, 542).
PlayedInOrder ==
  ~damaged => played \o Queued[Len(chain)] \o Rest = [k \in 1 .. accepted |-> k]

\* When audio_sync returns 0 every unit written before it has been played, so the
\* close that follows cuts nothing off (lines 415-438, 1021-1026).
SyncComplete ==
  (pc = "synced" /\ ret = 0 /\ frags > 0) => chain = <<>> /\ size[buf_idx] = 0

\* With no enqueue lost, every call returns without a signal: the DMA interrupt
\* brings each buffer back and tells who waits for it.  Of polls this holds for
\* those made while the first buffer is the current one (lines 402-403, 426, 433,
\* 506, 658-664).
CallReturns ==
  ( /\ pc \notin {"user", "closed"} /\ lost = {}
    /\ pc \in {"poll", "woken"} => buf_idx = 0 ) ~>
    (pc \in {"user", "closed"} \/ lost # {})

\* A process sleeping in poll while every buffer is free is told so (lines 655-664).
PollWakes ==
  (pc = "poll" /\ ~damaged /\ \A b \in Buffers : sem[b] > 0) ~> (pc # "poll")
=============================================================================
