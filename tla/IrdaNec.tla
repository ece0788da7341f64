------------------------------ MODULE IrdaNec -------------------------------
(***************************************************************************)
(* The NEC decoder of sensors/irda/irda_nec.c, fed by a remote control     *)
(* through irda_irq (irda_raw.c) and the event ring.  The ring is the FIFO *)
(* that CircleBuffer is proved to implement, so a get is one step here.    *)
(*                                                                         *)
(* The remote's pulses are numbered from 0, the silence before a frame, so *)
(* odd pulses are low and even ones high.  An event is put when its pulse  *)
(* ends.  Inside a frame pulses follow each other within 10 ms, and udelay *)
(* is never early (SystemTimer!NeverEarly): a get with timeout can only    *)
(* expire while the remote is silent.                                      *)
(***************************************************************************)
EXTENDS Integers, Sequences

CONSTANTS
  ByteBits,   \* bits of a byte: 8 in the code
  Messages,   \* what remotes send, each with its clock's error in us
  Misreads,   \* widths a disturbed pulse may be measured to have, in us
  Capacity,   \* events the ring holds: 1023 in the code
  MaxFrames,  \* bound: frames sent
  MaxSpoils   \* bound: pulses disturbed

Byte == [0 .. ByteBits - 1 -> 0 .. 1]
Message ==
  [repeat : BOOLEAN, address : Byte, check : Byte, data : Byte, skew : Int]
Bits == 4 * ByteBits

ASSUME NecAssumption ==
  /\ ByteBits \in Nat \ {0} /\ Capacity \in Nat \ {0}
  /\ MaxFrames \in Nat /\ MaxSpoils \in Nat
  /\ Messages \subseteq Message
  /\ Misreads \subseteq Int

VARIABLES
  \* the remote
  sent,    \* the frames begun, each with how many of its pulses were
           \* disturbed, dropped or cut off (0, 1, or 2 for more)
  pos,     \* the pulse under way, 0 while the remote is silent
  spoils,  \* pulses disturbed so far
  \* the ring, and the event the last get returned
  queue, taken,
  \* irda_nec_read: where it waits, and its locals
  at, i, val,
  got      \* per frame, the results 0 and 1 returned on one of its events

remote == <<sent, pos, spoils>>
ring == <<queue, taken>>
necVars == <<remote, ring, at, i, val, got>>

DURATION_BASE == 563
DURATION_DELTA == DURATION_BASE \div 2
DURATION_HEAD_LOW == 16 * DURATION_BASE
DURATION_HEAD_HIGH == 8 * DURATION_BASE
DURATION_REPEAT_HIGH == 4 * DURATION_BASE
DURATION_DATA_LOW == DURATION_BASE
DURATION_DATA1_HIGH == 3 * DURATION_BASE
DURATION_DATA0_HIGH == DURATION_BASE
SILENCE == 40000

Nothing == [pol |-> 1, duration |-> 0, frame |-> 0, pulse |-> 0]
PulseEvent ==
  [pol : 0 .. 1, duration : Int, frame : 0 .. MaxFrames, pulse : 0 .. 2 * Bits + 3]
Events == INSTANCE EventFifo WITH Event <- PulseEvent, out <- taken

-----------------------------------------------------------------------------
(* The remote and the interrupt.                                           *)

Complement(b) == [j \in DOMAIN b |-> 1 - b[j]]

FrameBit(m, n) ==
  LET bytes == <<m.address, m.check, m.data, Complement(m.data)>>
  IN bytes[n \div ByteBits + 1][n % ByteBits]

LastPulse(m) == IF m.repeat THEN 3 ELSE 2 * Bits + 3

Width(m, k) ==
  CASE k = 0 -> SILENCE
    [] k = 1 -> DURATION_HEAD_LOW
    [] k = 2 -> IF m.repeat THEN DURATION_REPEAT_HIGH ELSE DURATION_HEAD_HIGH
    [] k > 2 /\ k % 2 = 1 -> DURATION_DATA_LOW
    [] OTHER -> IF FrameBit(m, (k - 4) \div 2) = 1 THEN DURATION_DATA1_HIGH
                                                   ELSE DURATION_DATA0_HIGH

Worse(frames, n) ==
  [frames EXCEPT ![Len(frames)].faults = IF @ + n > 2 THEN 2 ELSE @ + n]

\* irda_irq at the edge that ends pulse k of the last of the frames: it stores
\* the measured width and the level before the edge; a full ring drops them.
irda_irq(frames, k, us, bad) ==
  LET e == [pol |-> (k + 1) % 2, duration |-> us, frame |-> Len(frames), pulse |-> k]
  IN \/ Events!Put(e) /\ sent' = Worse(frames, bad)
     \/ Events!PutRefused(e) /\ sent' = Worse(frames, 1)

Edge(frames, k) ==
  LET f == frames[Len(frames)]
  IN \/ /\ irda_irq(frames, k, Width(f.message, k) + f.message.skew, 0)
        /\ UNCHANGED spoils
     \/ /\ spoils < MaxSpoils
        /\ spoils' = spoils + 1
        /\ \E us \in Misreads : irda_irq(frames, k, us, 1)

Silent == pos = 0

StartFrame ==
  /\ Silent
  /\ Len(sent) < MaxFrames
  /\ \E m \in Messages : Edge(Append(sent, [message |-> m, faults |-> 0]), 0)
  /\ pos' = 1
  /\ UNCHANGED <<at, i, val, got>>

EndPulse ==
  /\ ~Silent
  /\ Edge(sent, pos)
  /\ pos' = IF pos = LastPulse(sent[Len(sent)].message) THEN 0 ELSE pos + 1
  /\ UNCHANGED <<at, i, val, got>>

\* The remote is cut off: its line stays high until the next frame begins.
CutOff ==
  /\ ~Silent /\ pos % 2 = 0
  /\ pos' = 0
  /\ sent' = Worse(sent, 1)
  /\ UNCHANGED <<spoils, ring, at, i, val, got>>

-----------------------------------------------------------------------------
(* irda_nec_read, called for ever by irda_nec_test.                        *)

\* Mutants of the definitions below.
DataValidAlways(v) == TRUE
ReturnKeepingVal(results) ==
  /\ at' = "head"
  /\ i' = 0
  /\ got' = [got EXCEPT ![taken'.frame] = @ \o results]
  /\ UNCHANGED val
NoTimeout == FALSE

duration_in_margin(duration, us) ==
  /\ duration > us - DURATION_DELTA
  /\ duration < us + DURATION_DELTA

\* The event at hand has this level and, within the margin, this width.
Is(pol, us) == taken'.pol = pol /\ duration_in_margin(taken'.duration, us)

NoBits == [n \in 0 .. Bits - 1 |-> 0]

\* A return and the next call of irda_nec_test, which starts with val == 0.
Return(results) ==
  /\ at' = "head"
  /\ i' = 0
  /\ val' = NoBits
  /\ got' = [got EXCEPT ![taken'.frame] = @ \o results]

Failure == <<>>
Repeat == <<[ret |-> 1]>>
ByteOf(v, k) == [j \in 0 .. ByteBits - 1 |-> v[k * ByteBits + j]]
DataValid(v) == ByteOf(v, 2) = Complement(ByteOf(v, 3))
Decoded(v) ==
  IF DataValid(v)
    THEN <<[ret |-> 0, address |-> ByteOf(v, 0), data |-> ByteOf(v, 2)]>>
    ELSE Failure

Goto(l) == at' = l /\ UNCHANGED <<i, val, got>>

WaitHead ==
  /\ at = "head"
  /\ Events!Get
  /\ \/ Is(0, DURATION_HEAD_LOW) /\ Goto("second")
     \/ ~Is(0, DURATION_HEAD_LOW) /\ Return(Failure)
  /\ UNCHANGED remote

SecondPulse ==
  /\ at = "second"
  /\ Events!Get
  /\ \/ Is(1, DURATION_HEAD_HIGH) /\ Goto("low")
     \/ Is(1, DURATION_REPEAT_HIGH) /\ Return(Repeat)
     \/ /\ ~Is(1, DURATION_HEAD_HIGH) /\ ~Is(1, DURATION_REPEAT_HIGH)
        /\ Return(Failure)
  /\ UNCHANGED remote

DataLow ==
  /\ at = "low"
  /\ Events!Get
  /\ \/ Is(0, DURATION_DATA_LOW) /\ Goto("high")
     \/ ~Is(0, DURATION_DATA_LOW) /\ Return(Failure)
  /\ UNCHANGED remote

LastBit == i = Bits - 1

StoreBit(b) ==
  LET v == IF b = 1 THEN [val EXCEPT ![i] = 1] ELSE val
  IN \/ LastBit /\ Return(Decoded(v))
     \/ ~LastBit /\ at' = "low" /\ i' = i + 1 /\ val' = v /\ UNCHANGED got

DataHigh ==
  /\ at = "high"
  /\ Events!Get
  /\ \/ Is(1, DURATION_DATA1_HIGH) /\ StoreBit(1)
     \/ Is(1, DURATION_DATA0_HIGH) /\ StoreBit(0)
     \/ /\ ~Is(1, DURATION_DATA1_HIGH) /\ ~Is(1, DURATION_DATA0_HIGH)
        /\ Return(Failure)
  /\ UNCHANGED remote

TimesOut == queue = <<>> /\ Silent

\* After a head pulse the loop at line 38 goes round again, without returning.
SecondTimeout ==
  /\ at = "second"
  /\ TimesOut
  /\ Goto("head")
  /\ UNCHANGED <<remote, ring>>

DataTimeout ==
  /\ at \in {"low", "high"}
  /\ TimesOut
  /\ UNCHANGED <<remote, ring>>
  /\ Return(Failure)

-----------------------------------------------------------------------------
NecInit ==
  /\ sent = <<>> /\ pos = 0 /\ spoils = 0
  /\ queue = <<>> /\ taken = Nothing
  /\ at = "head" /\ i = 0 /\ val = NoBits
  /\ got = [f \in 0 .. MaxFrames |-> <<>>]

irda_nec_read ==
  WaitHead \/ SecondPulse \/ DataLow \/ DataHigh \/ SecondTimeout \/ DataTimeout

InFrame == EndPulse \/ CutOff

NecNext == StartFrame \/ InFrame \/ irda_nec_read

NecSpec ==
  /\ NecInit /\ [][NecNext]_necVars
  /\ WF_necVars(irda_nec_read) /\ WF_necVars(InFrame)

-----------------------------------------------------------------------------
(* What the decoder is for.                                                *)

\* The loop index stays within the 32 bits of val and every result is one the
\* comment above irda_nec_read names (irda_nec.c:28-36).
NecTypeOK ==
  /\ pos \in 0 .. 2 * Bits + 3
  /\ \A n \in DOMAIN queue : queue[n] \in PulseEvent
  /\ taken \in PulseEvent
  /\ at \in {"head", "second", "low", "high"}
  /\ i \in 0 .. Bits - 1
  /\ val \in [0 .. Bits - 1 -> 0 .. 1]
  /\ \A f \in DOMAIN got : \A n \in DOMAIN got[f] : got[f][n].ret \in 0 .. 1

Result(m) ==
  IF m.repeat THEN Repeat
              ELSE <<[ret |-> 0, address |-> m.address, data |-> m.data]>>

\* The pulse on which irda_nec_read has all it needs of the frame.
Deciding(m) == IF m.repeat THEN 2 ELSE 2 * Bits + 2

Taken(f) ==
  \/ taken.frame > f
  \/ taken.frame = f /\ taken.pulse >= Deciding(sent[f].message)

\* Whatever happened to the frames before it - disturbed, cut off, their pulses
\* dropped by a full ring, the decoder caught in the middle - a frame that itself
\* arrives whole is returned exactly once, with its own address and data, or as
\* one repeat code, as soon as its last bit is read (irda_nec.c:40-148).
FrameOnce ==
  \A f \in DOMAIN sent : sent[f].faults = 0 =>
    got[f] = IF Taken(f) THEN Result(sent[f].message) ELSE <<>>

\* irda_nec_read stays within the 32 bits of val and loses no whole frame.
DecoderInv == NecTypeOK /\ FrameOnce

\* The silence before a frame also ends the frame before it, so both count.
FaultsUpTo(f) == sent[f].faults + IF f = 1 THEN 0 ELSE sent[f - 1].faults

\* One disturbed, dropped or cut off pulse may cost a frame, or its address, but
\* no data byte that was not sent is returned: the inverted byte catches it
\* (irda_nec.c:113-126).
DataIntact ==
  \A f \in DOMAIN sent : \A n \in DOMAIN got[f] :
    (FaultsUpTo(f) <= 1 /\ got[f][n].ret = 0) =>
      ~sent[f].message.repeat /\ got[f][n].data = sent[f].message.data

\* A remote that falls silent in the middle of a frame does not hold the decoder
\* there: it gets back to waiting for a head pulse (irda_nec.c:49, 62, 68).
BackToHead == []<>(at = "head")
=============================================================================
