------------------------- MODULE InfraredProofs -------------------------
(***************************************************************************)
(* Proofs about the infrared receiver.  CircleBuffer, for every ring size: *)
(* a get copies an event that no interrupt disturbs, and the ring          *)
(* implements the bounded FIFO.  IrdaNec, which reads from that FIFO, for  *)
(* every number of frames and faults: a frame that arrives whole is        *)
(* returned once, and one fault never turns into wrong data.               *)
(***************************************************************************)
EXTENDS CircleBuffer, IrdaNec, SequenceTheorems, TLAPS

(***************************************************************************)
(* Arithmetic of the ring.                                                 *)
(***************************************************************************)
\* A remainder by a modulus larger than the dividend.
LEMMA ModSmall ==
  ASSUME NEW n \in Nat \ {0}, NEW a \in 0 .. n - 1
  PROVE  a % n = a
OBVIOUS

\* A remainder after one turn around the ring.
LEMMA ModWrap ==
  ASSUME NEW n \in Nat \ {0}, NEW a \in n .. 2 * n - 1
  PROVE  a % n = a - n
OBVIOUS

\* NEXT_PLACE without the remainder.
LEMMA NextPlace ==
  ASSUME NEW k \in 0 .. N - 1
  PROVE  /\ NEXT_PLACE(k) = IF k = N - 1 THEN 0 ELSE k + 1
         /\ NEXT_PLACE(k) \in 0 .. N - 1
<1>1. CASE k = N - 1
  BY <1>1, NAssumption, ModWrap DEF NEXT_PLACE
<1>2. CASE k # N - 1
  BY <1>2, NAssumption, ModSmall DEF NEXT_PLACE
<1> QED BY <1>1, <1>2

\* The number of waiting events without the remainder.
LEMMA CountValue ==
  ASSUME NEW r \in 0 .. N - 1, NEW w \in 0 .. N - 1
  PROVE  /\ CountOf(r, w) = IF r <= w THEN w - r ELSE w - r + N
         /\ CountOf(r, w) \in 0 .. N - 1
<1>1. CASE r <= w
  <2>1. (w - r + N) \in N .. 2 * N - 1
    BY <1>1, NAssumption
  <2> QED BY <1>1, <2>1, NAssumption, ModWrap DEF CountOf
<1>2. CASE ~(r <= w)
  <2>1. (w - r + N) \in 0 .. N - 1
    BY <1>2, NAssumption
  <2> QED BY <1>2, <2>1, NAssumption, ModSmall DEF CountOf
<1> QED BY <1>1, <1>2

\* The slot of the k-th waiting event without the remainder.
LEMMA SlotValue ==
  ASSUME NEW r \in 0 .. N - 1, NEW k \in 1 .. N
  PROVE  /\ (r + k - 1) % N = IF r + k - 1 < N THEN r + k - 1 ELSE r + k - 1 - N
         /\ (r + k - 1) % N \in 0 .. N - 1
<1>1. CASE r + k - 1 < N
  <2>1. (r + k - 1) \in 0 .. N - 1
    BY <1>1, NAssumption
  <2> QED BY <1>1, <2>1, NAssumption, ModSmall
<1>2. CASE ~(r + k - 1 < N)
  <2>1. (r + k - 1) \in N .. 2 * N - 1
    BY <1>2, NAssumption
  <2> QED BY <1>2, <2>1, NAssumption, ModWrap
<1> QED BY <1>1, <1>2

\* The waiting events form a sequence of the expected length.
LEMMA ContentsType ==
  ASSUME NEW r \in 0 .. N - 1, NEW w \in 0 .. N - 1,
         NEW events \in [0 .. N - 1 -> Event]
  PROVE  /\ Contents(events, r, w) \in Seq(Event)
         /\ Len(Contents(events, r, w)) = CountOf(r, w)
         /\ \A k \in 1 .. CountOf(r, w) :
              Contents(events, r, w)[k] = events[(r + k - 1) % N]
<1> DEFINE c == CountOf(r, w)
<1>1. c \in 0 .. N - 1
  BY CountValue
<1>2. \A k \in 1 .. c : events[(r + k - 1) % N] \in Event
  BY <1>1, SlotValue, NAssumption
<1>3. Contents(events, r, w) \in [1 .. c -> Event]
  BY <1>2 DEF Contents
<1>4. c \in Nat
  BY <1>1, NAssumption
<1> HIDE DEF c
<1>5. /\ Contents(events, r, w) \in Seq(Event)
      /\ Len(Contents(events, r, w)) = c
  BY <1>3, <1>4
<1> QED BY <1>5 DEF Contents, c

(***************************************************************************)
(* A put appends, a get removes the head.                                  *)
(***************************************************************************)
\* Storing into a ring that is not full and advancing g_w appends the event
\* to the waiting ones, which stay as they are.
LEMMA ContentsPut ==
  ASSUME NEW r \in 0 .. N - 1, NEW w \in 0 .. N - 1,
         NEW events \in [0 .. N - 1 -> Event], NEW e \in Event,
         NEXT_PLACE(w) # r
  PROVE  /\ CountOf(r, w) < N - 1
         /\ Contents([events EXCEPT ![w] = e], r, NEXT_PLACE(w))
              = Append(Contents(events, r, w), e)
<1> DEFINE w1 == NEXT_PLACE(w)
           ev1 == [events EXCEPT ![w] = e]
           s == Contents(events, r, w)
           t == Contents(ev1, r, w1)
           c == CountOf(r, w)
<1>1. /\ w1 \in 0 .. N - 1
      /\ w1 = IF w = N - 1 THEN 0 ELSE w + 1
  BY NextPlace
<1>2. ev1 \in [0 .. N - 1 -> Event]
  OBVIOUS
<1>3. /\ c \in 0 .. N - 1
      /\ c = IF r <= w THEN w - r ELSE w - r + N
  BY CountValue
<1>4. CountOf(r, w1) = c + 1 /\ c < N - 1
  <2>1. CountOf(r, w1) = IF r <= w1 THEN w1 - r ELSE w1 - r + N
    BY <1>1, CountValue
  <2> HIDE DEF w1, c
  <2>2. w1 # r
    BY DEF w1
  <2> QED BY <1>1, <1>3, <2>1, <2>2, NAssumption
<1>5. /\ s \in Seq(Event)
      /\ Len(s) = c
      /\ \A k \in 1 .. c : s[k] = events[(r + k - 1) % N]
  BY ContentsType
<1>6. /\ t \in Seq(Event)
      /\ Len(t) = c + 1
      /\ \A k \in 1 .. c + 1 : t[k] = ev1[(r + k - 1) % N]
  <2>1. /\ t \in Seq(Event)
        /\ Len(t) = CountOf(r, w1)
        /\ \A k \in 1 .. CountOf(r, w1) : t[k] = ev1[(r + k - 1) % N]
    <3> HIDE DEF w1, ev1
    <3> QED BY <1>1, <1>2, ContentsType
  <2> HIDE DEF t, ev1, w1, c
  <2> QED BY <1>4, <2>1
<1>7. \A k \in 1 .. c + 1 : t[k] = IF k <= c THEN s[k] ELSE e
  <2> SUFFICES ASSUME NEW k \in 1 .. c + 1
               PROVE  t[k] = IF k <= c THEN s[k] ELSE e
    OBVIOUS
  <2> DEFINE p == (r + k - 1) % N
  <2>1. k \in 1 .. N
    BY <1>3, <1>4, NAssumption
  <2>2. /\ p = IF r + k - 1 < N THEN r + k - 1 ELSE r + k - 1 - N
        /\ p \in 0 .. N - 1
    BY <2>1, SlotValue
  <2> HIDE DEF c, p
  <2>3. k = c + 1 => p = w
    BY <1>3, <2>1, <2>2, NAssumption
  <2>4. k <= c => p # w
    BY <1>3, <2>1, <2>2, NAssumption
  <2>5. t[k] = ev1[p]
    BY <1>6 DEF p
  <2>6. k <= c => s[k] = events[p]
    BY <1>3, <1>5, NAssumption DEF p
  <2>7. k <= c \/ k = c + 1
    BY <1>3, NAssumption
  <2>8. ev1[p] = IF p = w THEN e ELSE events[p]
    BY <2>2
  <2>9. ~(c + 1 <= c)
    BY <1>3, NAssumption
  <2> HIDE DEF s, t, ev1
  <2> QED BY <2>3, <2>4, <2>5, <2>6, <2>7, <2>8, <2>9
<1> HIDE DEF s, t, c, ev1, w1
<1>8. t = Append(s, e)
  <2>1. /\ Append(s, e) \in Seq(Event)
        /\ Len(Append(s, e)) = c + 1
        /\ \A k \in 1 .. c : Append(s, e)[k] = s[k]
        /\ Append(s, e)[c + 1] = e
    BY <1>5, AppendProperties
  <2>2. \A k \in 1 .. c + 1 : t[k] = Append(s, e)[k]
    BY <1>3, <1>7, <2>1, NAssumption
  <2> QED BY <1>6, <2>1, <2>2, SeqEqual
<1> QED BY <1>4, <1>8 DEF s, t, c, ev1, w1

\* Advancing g_r in a ring that is not empty removes the oldest event, the
\* one in slot g_r.
LEMMA ContentsGet ==
  ASSUME NEW r \in 0 .. N - 1, NEW w \in 0 .. N - 1,
         NEW events \in [0 .. N - 1 -> Event],
         r # w
  PROVE  /\ Contents(events, r, w) # <<>>
         /\ Head(Contents(events, r, w)) = events[r]
         /\ Contents(events, NEXT_PLACE(r), w) = Tail(Contents(events, r, w))
<1> DEFINE r1 == NEXT_PLACE(r)
           s == Contents(events, r, w)
           t == Contents(events, r1, w)
           c == CountOf(r, w)
<1>1. /\ r1 \in 0 .. N - 1
      /\ r1 = IF r = N - 1 THEN 0 ELSE r + 1
  BY NextPlace
<1>2. /\ c \in 0 .. N - 1
      /\ c = IF r <= w THEN w - r ELSE w - r + N
  BY CountValue
<1>3. CountOf(r1, w) = c - 1 /\ c >= 1
  <2>1. CountOf(r1, w) = IF r1 <= w THEN w - r1 ELSE w - r1 + N
    BY <1>1, CountValue
  <2> HIDE DEF r1, c
  <2> QED BY <1>1, <1>2, <2>1, NAssumption
<1>4. /\ s \in Seq(Event)
      /\ Len(s) = c
      /\ \A k \in 1 .. c : s[k] = events[(r + k - 1) % N]
  BY ContentsType
<1>5. /\ t \in Seq(Event)
      /\ Len(t) = c - 1
      /\ \A k \in 1 .. c - 1 : t[k] = events[(r1 + k - 1) % N]
  <2>1. /\ t \in Seq(Event)
        /\ Len(t) = CountOf(r1, w)
        /\ \A k \in 1 .. CountOf(r1, w) : t[k] = events[(r1 + k - 1) % N]
    <3> HIDE DEF r1
    <3> QED BY <1>1, ContentsType
  <2> HIDE DEF t, r1, c
  <2> QED BY <1>3, <2>1
<1>6. \A k \in 1 .. c - 1 : t[k] = s[k + 1]
  <2> SUFFICES ASSUME NEW k \in 1 .. c - 1
               PROVE  t[k] = s[k + 1]
    OBVIOUS
  <2>0. /\ t[k] = events[(r1 + k - 1) % N]
        /\ s[k + 1] = events[(r + (k + 1) - 1) % N]
    <3> HIDE DEF s, t, c, r1
    <3>1. k + 1 \in 1 .. c
      BY <1>2, NAssumption
    <3> QED BY <1>4, <1>5, <3>1
  <2>1. k \in 1 .. N /\ k + 1 \in 1 .. N
    BY <1>2, NAssumption
  <2>2. (r1 + k - 1) % N
          = IF r1 + k - 1 < N THEN r1 + k - 1 ELSE r1 + k - 1 - N
    BY <1>1, <2>1, SlotValue
  <2>3. (r + (k + 1) - 1) % N
          = IF r + (k + 1) - 1 < N THEN r + (k + 1) - 1
            ELSE r + (k + 1) - 1 - N
    BY <2>1, SlotValue
  <2> DEFINE a == (r1 + k - 1) % N
             b == (r + (k + 1) - 1) % N
  <2> HIDE DEF r1, c
  <2>4. a = IF r1 + k - 1 < N THEN r1 + k - 1 ELSE r1 + k - 1 - N
    BY <2>2
  <2>5. b = IF r + k < N THEN r + k ELSE r + k - N
    BY <2>3, <2>1, NAssumption
  <2> HIDE DEF a, b
  <2>6. a = b
    BY <1>1, <2>1, <2>4, <2>5, NAssumption
  <2> QED BY <2>0, <2>6 DEF a, b
<1>7. s[1] = events[r]
  <2>1. (r + 1 - 1) % N = r
    BY SlotValue, NAssumption
  <2> QED BY <1>2, <1>3, <1>4, <2>1, NAssumption
<1> HIDE DEF s, t, c, r1
<1>8. s # <<>>
  BY <1>2, <1>3, <1>4, EmptySeq
<1>9. Head(s) = events[r]
  BY <1>4, <1>7, <1>8
<1>10. t = Tail(s)
  <2>1. /\ Tail(s) \in Seq(Event)
        /\ Len(Tail(s)) = Len(s) - 1
        /\ \A k \in 1 .. Len(Tail(s)) : Tail(s)[k] = s[k + 1]
    BY <1>4, <1>8, HeadTailProperties
  <2> QED BY <1>4, <1>5, <1>6, <2>1, SeqEqual
<1> QED BY <1>8, <1>9, <1>10 DEF s, t, r1

(***************************************************************************)
(* The invariant: types and the stability of the copy are inductive        *)
(* together.                                                               *)
(***************************************************************************)
Inv == TypeOK /\ CopyStable

\* The ring starts empty and no get is under way.
LEMMA InitInv == Init => Inv
BY NAssumption, TimeoutAssumption DEF Init, Inv, TypeOK, CopyStable

\* The interrupt never touches the slot under the reader: it stores at g_w,
\* which differs from g_r while the ring is not empty.
LEMMA PutInv ==
  ASSUME Inv, NEW e \in Event, ir_event_put(e)
  PROVE  Inv'
<1> USE DEF Inv, TypeOK, CopyStable
<1>1. CASE is_ir_event_buf_full
  BY <1>1 DEF ir_event_put
<1>2. CASE ~is_ir_event_buf_full
  <2>1. /\ g_events' = [g_events EXCEPT ![g_w] = e]
        /\ g_w' = NEXT_PLACE(g_w)
        /\ UNCHANGED <<g_r, pc, timeout_us, pd, out>>
        /\ g_w' # g_r
    BY <1>2 DEF ir_event_put, is_ir_event_buf_full
  <2>2. g_w' \in 0 .. N - 1
    BY <2>1, NextPlace
  <2>3. g_r # g_w => g_events'[g_r] = g_events[g_r]
    BY <2>1
  <2> QED BY <2>1, <2>2, <2>3
<1> QED BY <1>1, <1>2

\* The steps of a get.
LEMMA GetInv ==
  ASSUME Inv,
         \/ ir_event_get
         \/ \E t \in 0 .. MaxTimeout : ir_event_get_timeout(t)
         \/ GetSteps
  PROVE  Inv'
<1> USE DEF Inv, TypeOK, CopyStable, ringVars
<1>1. CASE ir_event_get
  BY <1>1, TimeoutAssumption DEF ir_event_get, is_ir_event_buf_empty
<1>2. CASE \E t \in 0 .. MaxTimeout : ir_event_get_timeout(t)
  BY <1>2 DEF ir_event_get_timeout
<1>3. CASE while_timeout
  <2>1. timeout_us # 0 => timeout_us - 1 \in 0 .. MaxTimeout
    BY TimeoutAssumption
  <2> QED BY <1>3, <2>1 DEF while_timeout, is_ir_event_buf_empty
<1>4. CASE CopyPol
  BY <1>4 DEF CopyPol, Event
<1>5. CASE CopyDuration
  BY <1>5 DEF CopyDuration, Event
<1>6. CASE Advance
  BY <1>6, NextPlace DEF Advance
<1> QED BY <1>1, <1>2, <1>3, <1>4, <1>5, <1>6 DEF GetSteps

\* Every step of the program keeps the invariant.
LEMMA NextInv == Inv /\ [Next]_vars => Inv'
<1> SUFFICES ASSUME Inv, [Next]_vars PROVE Inv'
  OBVIOUS
<1>1. CASE Next
  BY <1>1, PutInv, GetInv DEF Next
<1>2. CASE UNCHANGED vars
  BY <1>2 DEF vars, ringVars, Inv, TypeOK, CopyStable
<1> QED BY <1>1, <1>2

\* In every reachable state of circle_buffer.c the indices are inside the
\* ring and the event main is copying is the one in slot g_r.
THEOREM Safety == Spec => [](TypeOK /\ CopyStable)
<1>1. Inv => TypeOK /\ CopyStable
  BY DEF Inv
<1> QED BY <1>1, InitInv, NextInv, PTL DEF Spec

(***************************************************************************)
(* Refinement.                                                             *)
(***************************************************************************)
\* An empty ring is an empty queue.
LEMMA InitFifo == Init => Fifo!Init
<1> SUFFICES ASSUME Init PROVE Fifo!Init
  OBVIOUS
<1>1. Inv
  BY InitInv
<1>2. CountOf(g_r, g_w) = 0
  BY <1>1, CountValue, NAssumption DEF Init, Inv, TypeOK
<1>3. Queue \in Seq(Event) /\ Len(Queue) = 0
  BY <1>1, <1>2, ContentsType DEF Queue, Inv, TypeOK
<1>4. Queue = <<>>
  BY <1>3, EmptySeq
<1> QED BY <1>1, <1>4 DEF Fifo!Init, Inv, TypeOK

\* ir_event_put is a Put or, in a full ring, a refused one.
LEMMA PutFifo ==
  ASSUME Inv, NEW e \in Event, ir_event_put(e)
  PROVE  Fifo!Put(e) \/ Fifo!PutRefused(e)
<1> USE DEF Inv, TypeOK
<1>1. /\ Queue \in Seq(Event)
      /\ Len(Queue) = CountOf(g_r, g_w)
  BY ContentsType DEF Queue
<1>2. CASE is_ir_event_buf_full
  <2>1. CountOf(g_r, g_w) = N - 1
    <3>1. g_r = IF g_w = N - 1 THEN 0 ELSE g_w + 1
      BY <1>2, NextPlace DEF is_ir_event_buf_full
    <3>2. CountOf(g_r, g_w)
            = IF g_r <= g_w THEN g_w - g_r ELSE g_w - g_r + N
      BY CountValue
    <3> QED BY <3>1, <3>2, NAssumption
  <2>2. Queue' = Queue /\ out' = out
    BY <1>2 DEF ir_event_put, Queue
  <2> QED BY <1>1, <2>1, <2>2 DEF Fifo!PutRefused, Fifo!vars
<1>3. CASE ~is_ir_event_buf_full
  <2>1. /\ g_events' = [g_events EXCEPT ![g_w] = e]
        /\ g_w' = NEXT_PLACE(g_w)
        /\ NEXT_PLACE(g_w) # g_r
        /\ g_r' = g_r
        /\ out' = out
    BY <1>3 DEF ir_event_put, is_ir_event_buf_full
  <2>2. /\ CountOf(g_r, g_w) < N - 1
        /\ Queue' = Append(Queue, e)
    BY <2>1, ContentsPut DEF Queue
  <2> QED BY <1>1, <2>1, <2>2 DEF Fifo!Put
<1> QED BY <1>2, <1>3

\* The update of g_r is the Get; what the caller got is the head.
LEMMA AdvanceFifo ==
  ASSUME Inv, Advance
  PROVE  Fifo!Get
<1> USE DEF Inv, TypeOK
<1>1. g_r # g_w /\ pd = g_events[g_r]
  <2>1. /\ pd.pol = g_events[g_r].pol
        /\ pd.duration = g_events[g_r].duration
        /\ g_r # g_w
    BY DEF CopyStable, Advance
  <2>2. pd \in Event /\ g_events[g_r] \in Event
    OBVIOUS
  <2> QED BY <2>1, <2>2 DEF Event
<1>2. /\ Queue # <<>>
      /\ Head(Queue) = g_events[g_r]
      /\ Contents(g_events, NEXT_PLACE(g_r), g_w) = Tail(Queue)
  BY <1>1, ContentsGet DEF Queue
<1>3. /\ Queue' = Contents(g_events, NEXT_PLACE(g_r), g_w)
      /\ out' = pd
  BY DEF Advance, Queue
<1> QED BY <1>1, <1>2, <1>3 DEF Fifo!Get

\* Every step is a step of the FIFO or changes nothing it can see.
LEMMA NextFifo == Inv /\ [Next]_vars => [Fifo!Next]_(Fifo!vars)
<1> SUFFICES ASSUME Inv, [Next]_vars PROVE [Fifo!Next]_(Fifo!vars)
  OBVIOUS
<1>1. CASE \E e \in Event : ir_event_put(e)
  BY <1>1, PutFifo DEF Fifo!Next
<1>2. CASE Advance
  BY <1>2, AdvanceFifo DEF Fifo!Next
<1>3. ASSUME UNCHANGED <<ringVars, out>>
      PROVE  UNCHANGED Fifo!vars
  BY <1>3 DEF ringVars, Fifo!vars, Queue
<1>4. CASE \/ ir_event_get
           \/ \E t \in 0 .. MaxTimeout : ir_event_get_timeout(t)
           \/ while_timeout \/ CopyPol \/ CopyDuration
           \/ UNCHANGED vars
  <2>1. UNCHANGED <<ringVars, out>>
    BY <1>4 DEF ir_event_get, ir_event_get_timeout, while_timeout, CopyPol,
                CopyDuration, vars
  <2> QED BY <1>3, <2>1
<1> QED BY <1>1, <1>2, <1>4 DEF Next, GetSteps

\* circle_buffer.c, with its gets interrupted anywhere, implements the
\* bounded FIFO of capacity N - 1.
THEOREM Refinement == Spec => FifoSpec
<1>1. Init => Fifo!Init
  BY InitFifo
<1>2. Inv /\ [Next]_vars => [Fifo!Next]_(Fifo!vars)
  BY NextFifo
<1> QED BY <1>1, <1>2, InitInv, NextInv, PTL DEF Spec, FifoSpec, Fifo!Spec

(***************************************************************************)
(* The decoder, whose ring is the FIFO of the theorem above.               *)
(*                                                                         *)
(* FrameOnce is not inductive: it says nothing of the events on their way. *)
(* The invariant follows them.  RingInv: of a frame that is whole so far,  *)
(* every event is in the ring, in order, and none is missing between two   *)
(* neighbours.  ReadInv: after an event of such a frame irda_nec_read      *)
(* waits where that pulse leads, with the bits read so far in val, however *)
(* badly it was placed when the frame began: the silence before the frame  *)
(* is no pulse it accepts, and brings it back to the head.                 *)
(***************************************************************************)
\* The remotes' clocks are off by less than the margin of the decoder.
ClocksInMargin ==
  \A m \in Messages : -DURATION_DELTA < m.skew /\ m.skew < DURATION_DELTA

\* The frames sent, and what irda_nec_read returns of them.
Frames == [message : Messages, faults : 0 .. 2]
Results == [ret : {1}] \cup [ret : {0}, address : Byte, data : Byte]

\* A frame that has arrived whole so far.
Good(s, f) == f \in 1 .. Len(s) /\ s[f].faults = 0

\* The event at hand and those in the ring, in the order of their pulses.
At(o, q, n) == IF n = 0 THEN o ELSE q[n]

\* An event of a whole frame is what its pulse was.
Faithful(s, e) ==
  Good(s, e.frame) =>
    /\ e.pulse \in 0 .. LastPulse(s[e.frame].message)
    /\ e.pol = (e.pulse + 1) % 2
    /\ e.duration = Width(s[e.frame].message, e.pulse) + s[e.frame].message.skew

\* No event of a whole frame is missing between two neighbours.
Follows(s, a, b) ==
  /\ a.frame <= b.frame
  /\ Good(s, b.frame) => b.pulse = IF a.frame = b.frame THEN a.pulse + 1 ELSE 0
  /\ Good(s, a.frame) /\ a.frame # b.frame =>
       a.pulse = LastPulse(s[a.frame].message)
  /\ \A f \in 1 .. Len(s) : a.frame < f /\ f < b.frame => ~Good(s, f)

\* Nor after the newest one, z, while the remote is at pulse p.
Newest(s, p, z) ==
  /\ \A f \in 1 .. Len(s) : Good(s, f) => f <= z.frame
  /\ Good(s, z.frame) =>
       z.pulse = IF z.frame = Len(s) /\ p # 0 THEN p - 1
                 ELSE LastPulse(s[z.frame].message)

\* The events from the one at hand to the newest.
EventsOK(s, o, q) ==
  /\ \A n \in 0 .. Len(q) : At(o, q, n).frame <= Len(s) /\ Faithful(s, At(o, q, n))
  /\ \A n \in 0 .. Len(q) - 1 : Follows(s, At(o, q, n), At(o, q, n + 1))

\* Everything sent of a whole frame is at hand, in the ring, or taken before.
RingInv ==
  /\ sent \in Seq(Frames) /\ Len(sent) <= MaxFrames
  /\ pos \in Nat
  /\ pos # 0 => sent # <<>> /\ pos <= LastPulse(sent[Len(sent)].message)
  /\ queue \in Seq(PulseEvent) /\ taken \in PulseEvent
  /\ EventsOK(sent, taken, queue)
  /\ Newest(sent, pos, At(taken, queue, Len(queue)))

\* Where irda_nec_read waits after pulse p of a whole frame.
WaitsAt(m, p) ==
  IF p = 1 THEN "second"
  ELSE IF p \in 2 .. 2 * Bits + 1 /\ ~m.repeat
       THEN IF p % 2 = 0 THEN "low" ELSE "high"
       ELSE "head"

\* The first k bits of the frame are in v, and nothing else.
BitsRead(m, k, v) ==
  \A j \in 0 .. Bits - 1 : v[j] = IF j < k THEN FrameBit(m, j) ELSE 0

\* After event e of a whole frame the decoder is where e leads.
InStep(s, e, l, k, v) ==
  Good(s, e.frame) =>
    /\ l = WaitsAt(s[e.frame].message, e.pulse)
    /\ l \in {"low", "high"} =>
         /\ k = (e.pulse - 2) \div 2
         /\ BitsRead(s[e.frame].message, k, v)

\* irda_nec_read and its locals; no bits are left over from a call before.
ReadInv ==
  /\ at \in {"head", "second", "low", "high"}
  /\ i \in 0 .. Bits - 1
  /\ val \in [0 .. Bits - 1 -> 0 .. 1]
  /\ at \in {"head", "second"} => i = 0 /\ val = NoBits
  /\ InStep(sent, taken, at, i, val)

\* What was returned: nothing yet of frames whose events have not been read.
GotInv ==
  /\ got \in [0 .. MaxFrames -> Seq(Results)]
  /\ \A f \in 0 .. MaxFrames : f > taken.frame => got[f] = <<>>
  /\ FrameOnce

\* The inductive invariant.
NecInv == RingInv /\ ReadInv /\ GotInv

\* t tells of the frames of s no more than s does, and of further ones.
Later(s, t) ==
  /\ Len(s) <= Len(t)
  /\ \A f \in 1 .. Len(s) :
       t[f].message = s[f].message /\ (t[f].faults = 0 => s[f].faults = 0)

\* A frame that is whole later was whole before.
LEMMA GoodBefore ==
  ASSUME NEW s \in Seq(Frames), NEW t \in Seq(Frames), Later(s, t),
         NEW f \in Int, f <= Len(s), Good(t, f)
  PROVE  Good(s, f) /\ t[f].message = s[f].message
<1>1. f \in 1 .. Len(s)
  BY DEF Good
<1> QED BY <1>1 DEF Good, Later

\* The pulses of a frame.
LEMMA LastPulseType ==
  ASSUME NEW m
  PROVE  /\ Bits \in Nat \ {0} /\ LastPulse(m) \in 3 .. 2 * Bits + 3
         /\ m.repeat = TRUE => LastPulse(m) = 3
         /\ m.repeat = FALSE => LastPulse(m) = 2 * Bits + 3
<1>1. Bits \in Nat \ {0}
  BY NecAssumption DEF Bits
<1> HIDE DEF Bits
<1> QED BY <1>1 DEF LastPulse

\* What the ring holds is right for the frames that remain whole.
LEMMA EventsLater ==
  ASSUME NEW s \in Seq(Frames), NEW t \in Seq(Frames), Later(s, t),
         NEW o \in PulseEvent, NEW q \in Seq(PulseEvent), EventsOK(s, o, q)
  PROVE  EventsOK(t, o, q)
<1>0. Len(s) \in Nat /\ Len(t) \in Nat /\ Len(q) \in Nat /\ Len(s) <= Len(t)
  BY DEF Later
<1>1. \A n \in 0 .. Len(q) : At(o, q, n) \in PulseEvent
  BY DEF At
<1>2. \A e \in PulseEvent : e.frame \in Int /\ e.pulse \in Int
  BY DEF PulseEvent
<1>3. ASSUME NEW e \in PulseEvent, e.frame <= Len(s), Faithful(s, e)
      PROVE  e.frame <= Len(t) /\ Faithful(t, e)
  <2>1. e.frame <= Len(t)
    BY <1>0, <1>2, <1>3
  <2>2. ASSUME Good(t, e.frame)
        PROVE  Good(s, e.frame) /\ t[e.frame].message = s[e.frame].message
    BY <1>2, <1>3, <2>2, GoodBefore
  <2> QED BY <1>3, <2>1, <2>2 DEF Faithful
<1>4. ASSUME NEW a \in PulseEvent, NEW b \in PulseEvent, a.frame <= Len(s),
             b.frame <= Len(s), Follows(s, a, b)
      PROVE  Follows(t, a, b)
  <2>1. ASSUME NEW f \in Int, f <= Len(s), Good(t, f)
        PROVE  Good(s, f) /\ t[f].message = s[f].message
    BY <2>1, GoodBefore
  <2>2. a.frame \in Int /\ b.frame \in Int /\ a.frame <= b.frame
    BY <1>2, <1>4 DEF Follows
  <2>3. Good(t, b.frame) => b.pulse = IF a.frame = b.frame THEN a.pulse + 1 ELSE 0
    BY <1>4, <2>1, <2>2 DEF Follows
  <2>4. Good(t, a.frame) /\ a.frame # b.frame =>
          a.pulse = LastPulse(t[a.frame].message)
    BY <1>4, <2>1, <2>2 DEF Follows
  <2>5. ASSUME NEW f \in 1 .. Len(t), a.frame < f, f < b.frame, Good(t, f)
        PROVE  FALSE
    <3>1. f \in Int /\ f <= Len(s)
      BY <1>0, <1>4, <2>2, <2>5
    <3>2. Good(s, f) /\ f \in 1 .. Len(s)
      BY <2>1, <2>5, <3>1 DEF Good
    <3> QED BY <1>4, <2>5, <3>2 DEF Follows
  <2> QED BY <2>2, <2>3, <2>4, <2>5 DEF Follows
<1>5. ASSUME NEW n \in 0 .. Len(q)
      PROVE  At(o, q, n).frame <= Len(t) /\ Faithful(t, At(o, q, n))
  BY <1>1, <1>3 DEF EventsOK
<1>6. ASSUME NEW n \in 0 .. Len(q) - 1
      PROVE  Follows(t, At(o, q, n), At(o, q, n + 1))
  <2>1. n \in 0 .. Len(q) /\ n + 1 \in 0 .. Len(q)
    BY <1>0
  <2> DEFINE a == At(o, q, n)
             b == At(o, q, n + 1)
  <2>2. /\ a \in PulseEvent /\ b \in PulseEvent /\ a.frame <= Len(s)
        /\ b.frame <= Len(s) /\ Follows(s, a, b)
    BY <1>1, <2>1 DEF EventsOK
  <2> HIDE DEF a, b
  <2>3. Follows(t, a, b)
    BY <1>4, <2>2
  <2> QED BY <2>3 DEF a, b
<1> QED BY <1>5, <1>6 DEF EventsOK

\* A put appends the newest event.
LEMMA EventsPut ==
  ASSUME NEW t \in Seq(Frames), NEW o \in PulseEvent, NEW q \in Seq(PulseEvent),
         EventsOK(t, o, q), NEW e \in PulseEvent, e.frame <= Len(t),
         Faithful(t, e), Follows(t, At(o, q, Len(q)), e)
  PROVE  /\ Append(q, e) \in Seq(PulseEvent)
         /\ EventsOK(t, o, Append(q, e))
         /\ At(o, Append(q, e), Len(Append(q, e))) = e
<1> DEFINE r == Append(q, e)
<1>1. /\ r \in Seq(PulseEvent) /\ Len(r) = Len(q) + 1 /\ Len(q) \in Nat
      /\ \A n \in 1 .. Len(q) : r[n] = q[n]
      /\ r[Len(q) + 1] = e
  BY AppendProperties
<1> HIDE DEF r
<1>2. /\ \A n \in 0 .. Len(q) : At(o, r, n) = At(o, q, n)
      /\ At(o, r, Len(q) + 1) = e
  BY <1>1 DEF At
<1>3. ASSUME NEW n \in 0 .. Len(r)
      PROVE  At(o, r, n).frame <= Len(t) /\ Faithful(t, At(o, r, n))
  <2>1. CASE n \in 0 .. Len(q)
    BY <1>2, <2>1 DEF EventsOK
  <2>2. CASE n = Len(q) + 1
    BY <1>2, <2>2
  <2> QED BY <1>1, <2>1, <2>2
<1>4. ASSUME NEW n \in 0 .. Len(r) - 1
      PROVE  Follows(t, At(o, r, n), At(o, r, n + 1))
  <2>1. CASE n \in 0 .. Len(q) - 1
    <3>1. n \in 0 .. Len(q) /\ n + 1 \in 0 .. Len(q)
      BY <1>1, <2>1
    <3> QED BY <1>2, <2>1, <3>1 DEF EventsOK
  <2>2. CASE n = Len(q)
    BY <1>1, <1>2, <2>2
  <2> QED BY <1>1, <2>1, <2>2
<1>5. EventsOK(t, o, r)
  BY <1>3, <1>4 DEF EventsOK
<1> QED BY <1>1, <1>2, <1>5 DEF r

\* A get moves on to the next event.
LEMMA EventsGet ==
  ASSUME NEW s \in Seq(Frames), NEW o \in PulseEvent, NEW q \in Seq(PulseEvent),
         EventsOK(s, o, q), q # <<>>
  PROVE  /\ Head(q) \in PulseEvent /\ Tail(q) \in Seq(PulseEvent)
         /\ EventsOK(s, Head(q), Tail(q))
         /\ At(Head(q), Tail(q), Len(Tail(q))) = At(o, q, Len(q))
         /\ Follows(s, o, Head(q)) /\ Faithful(s, Head(q))
         /\ Head(q).frame <= Len(s)
<1> DEFINE h == Head(q)
           r == Tail(q)
<1>1. /\ Len(q) \in Nat \ {0} /\ h = q[1] /\ h \in PulseEvent
      /\ r \in Seq(PulseEvent) /\ Len(r) = Len(q) - 1
      /\ \A n \in 1 .. Len(r) : r[n] = q[n + 1]
  BY HeadTailProperties, EmptySeq
<1> HIDE DEF h, r
<1>2. \A n \in 0 .. Len(r) : At(h, r, n) = At(o, q, n + 1)
  BY <1>1 DEF At
<1>3. ASSUME NEW n \in 0 .. Len(r)
      PROVE  At(h, r, n).frame <= Len(s) /\ Faithful(s, At(h, r, n))
  <2>1. n + 1 \in 0 .. Len(q)
    BY <1>1
  <2> QED BY <1>2, <2>1 DEF EventsOK
<1>4. ASSUME NEW n \in 0 .. Len(r) - 1
      PROVE  Follows(s, At(h, r, n), At(h, r, n + 1))
  <2> DEFINE k == n + 1
  <2>1. /\ k \in 0 .. Len(q) - 1 /\ n \in 0 .. Len(r) /\ k \in 0 .. Len(r)
    BY <1>1
  <2>2. At(h, r, n) = At(o, q, k) /\ At(h, r, k) = At(o, q, k + 1)
    BY <1>2, <2>1
  <2> QED BY <2>1, <2>2 DEF EventsOK
<1>5. EventsOK(s, h, r)
  BY <1>3, <1>4 DEF EventsOK
<1>6. At(h, r, Len(r)) = At(o, q, Len(q))
  <2>1. Len(r) \in 0 .. Len(r) /\ Len(r) + 1 = Len(q)
    BY <1>1
  <2> QED BY <1>2, <2>1
<1>7. Follows(s, o, h)
  <2>1. 0 \in 0 .. Len(q) - 1 /\ At(o, q, 0) = o /\ At(o, q, 0 + 1) = h
    BY <1>1 DEF At
  <2>2. Follows(s, At(o, q, 0), At(o, q, 0 + 1))
    BY <2>1 DEF EventsOK
  <2> QED BY <2>1, <2>2
<1>8. Faithful(s, h) /\ h.frame <= Len(s)
  <2>1. 1 \in 0 .. Len(q) /\ At(o, q, 1) = h
    BY <1>1 DEF At
  <2> QED BY <2>1 DEF EventsOK
<1> QED BY <1>1, <1>5, <1>6, <1>7, <1>8 DEF h, r

\* Counting a fault against the newest frame.
LEMMA WorseFrames ==
  ASSUME NEW s \in Seq(Frames), s # <<>>, NEW b \in {0, 1}
  PROVE  /\ Worse(s, b) \in Seq(Frames)
         /\ Len(Worse(s, b)) = Len(s)
         /\ Later(s, Worse(s, b))
         /\ Good(Worse(s, b), Len(s)) => b = 0 /\ Good(s, Len(s))
<1>1. Len(s) \in Nat \ {0} /\ Len(s) \in 1 .. Len(s) /\ s[Len(s)] \in Frames
  BY EmptySeq, ElementOfSeq
<1> DEFINE r == s[Len(s)]
           c == IF r.faults + b > 2 THEN 2 ELSE r.faults + b
           x == [r EXCEPT !.faults = c]
<1>2. /\ x \in Frames /\ x.message = r.message
      /\ x.faults = 0 => r.faults = 0 /\ b = 0
  <2>1. r.faults \in 0 .. 2 /\ c \in 0 .. 2 /\ (c = 0 => r.faults = 0 /\ b = 0)
    BY <1>1 DEF Frames
  <2> HIDE DEF c
  <2>2. x \in Frames /\ x.message = r.message /\ x.faults = c
    BY <1>1, <2>1 DEF Frames
  <2> QED BY <2>1, <2>2
<1>3. Worse(s, b) = [s EXCEPT ![Len(s)] = x]
  BY DEF Worse
<1> HIDE DEF x
<1>4. /\ Worse(s, b) \in Seq(Frames) /\ Len(Worse(s, b)) = Len(s)
      /\ \A n \in 1 .. Len(s) : Worse(s, b)[n] = IF n = Len(s) THEN x ELSE s[n]
  BY <1>1, <1>2, <1>3, ExceptSeq
<1>5. Later(s, Worse(s, b))
  BY <1>1, <1>2, <1>4 DEF Later
<1>6. Good(Worse(s, b), Len(s)) => b = 0 /\ Good(s, Len(s))
  BY <1>1, <1>2, <1>4 DEF Good
<1> QED BY <1>4, <1>5, <1>6

\* Pulses have a width.
LEMMA WidthType ==
  ASSUME NEW m, NEW k \in Nat
  PROVE  Width(m, k) \in Int
<1>1. /\ SILENCE \in Int /\ DURATION_HEAD_LOW \in Int
      /\ DURATION_REPEAT_HIGH \in Int /\ DURATION_HEAD_HIGH \in Int
      /\ DURATION_DATA_LOW \in Int /\ DURATION_DATA1_HIGH \in Int
      /\ DURATION_DATA0_HIGH \in Int
  BY DEF SILENCE, DURATION_HEAD_LOW, DURATION_REPEAT_HIGH,
         DURATION_HEAD_HIGH,
         DURATION_DATA_LOW, DURATION_DATA1_HIGH, DURATION_DATA0_HIGH,
         DURATION_BASE
<1> QED BY <1>1 DEF Width

\* What irda_irq puts for pulse k, and how the frame fares.
LEMMA EdgePuts ==
  ASSUME NEW frames \in Seq(Frames), frames # <<>>,
         Len(frames) <= MaxFrames, NEW k \in 0 .. 2 * Bits + 3, Edge(frames, k)
  PROVE  \E b \in {0, 1}, e \in PulseEvent :
           /\ e.frame = Len(frames) /\ e.pulse = k /\ e.pol = (k + 1) % 2
           /\ b = 0 => e.duration = Width(frames[Len(frames)].message, k)
                                      + frames[Len(frames)].message.skew
           /\ UNCHANGED taken
           /\ \/ queue' = Append(queue, e) /\ sent' = Worse(frames, b)
              \/ UNCHANGED queue /\ sent' = Worse(frames, 1)
<1> DEFINE L == Len(frames)
           m == frames[L].message
           w == Width(m, k) + m.skew
           Ev(us) == [pol |-> (k + 1) % 2, duration |-> us, frame |-> L, pulse |-> k]
<1>1. L \in Nat \ {0} /\ L \in 1 .. L /\ frames[L] \in Frames
  BY EmptySeq, ElementOfSeq
<1>2. k \in Nat /\ (k + 1) % 2 \in 0 .. 1 /\ Bits \in Nat
  <2>1. Bits \in Nat
    BY NecAssumption DEF Bits
  <2>2. k \in Nat
    BY <2>1
  <2>3. (k + 1) % 2 \in 0 .. 1
    BY <2>2
  <2> QED BY <2>1, <2>2, <2>3
<1>3. w \in Int
  <2>1. m \in Messages /\ m.skew \in Int
    BY <1>1, NecAssumption DEF Frames, Message
  <2>2. Width(m, k) \in Int
    BY <1>2, WidthType
  <2> HIDE DEF m
  <2> QED BY <2>1, <2>2
<1>4. MaxFrames \in Nat /\ Misreads \subseteq Int
  BY NecAssumption
<1> HIDE DEF w
<1>5. \A us \in Int : Ev(us) \in PulseEvent
  BY <1>1, <1>2, <1>4 DEF PulseEvent
<1>6. ASSUME NEW us \in Int, NEW b \in {0, 1}, b = 0 => us = w,
             irda_irq(frames, k, us, b)
      PROVE  \E c \in {0, 1}, e \in PulseEvent :
           /\ e.frame = L /\ e.pulse = k /\ e.pol = (k + 1) % 2
           /\ c = 0 => e.duration = w
           /\ UNCHANGED taken
           /\ \/ queue' = Append(queue, e) /\ sent' = Worse(frames, c)
              \/ UNCHANGED queue /\ sent' = Worse(frames, 1)
  <2>1. Ev(us) \in PulseEvent
    BY <1>5
  <2>2. /\ UNCHANGED taken
        /\ \/ queue' = Append(queue, Ev(us)) /\ sent' = Worse(frames, b)
           \/ UNCHANGED queue /\ sent' = Worse(frames, 1)
    BY <1>6 DEF irda_irq, Events!Put, Events!PutRefused, Events!vars
  <2>3. /\ Ev(us).frame = L /\ Ev(us).pulse = k /\ Ev(us).pol = (k + 1) % 2
        /\ b = 0 => Ev(us).duration = w
    BY <1>6
  <2> HIDE DEF Ev
  <2> QED BY <2>1, <2>2, <2>3
<1>7. \/ irda_irq(frames, k, w, 0)
      \/ \E us \in Misreads : irda_irq(frames, k, us, 1)
  BY DEF Edge, w
<1>8. CASE irda_irq(frames, k, w, 0)
  BY <1>3, <1>6, <1>8 DEF w
<1>9. CASE \E us \in Misreads : irda_irq(frames, k, us, 1)
  <2>1. PICK us \in Misreads : irda_irq(frames, k, us, 1)
    BY <1>9
  <2>2. us \in Int /\ 1 # 0
    BY <1>4
  <2> QED BY <1>6, <2>1, <2>2 DEF w
<1> QED BY <1>7, <1>8, <1>9

\* The frames whose events are complete, with z the newest event, when the next
\* edge is the end of pulse k of the last frame.
BeforeEdge(s, k, z) ==
  /\ \A f \in 1 .. Len(s) - 1 : Good(s, f) => f <= z.frame
  /\ Good(s, Len(s)) => IF z.frame = Len(s) THEN k = z.pulse + 1 ELSE k = 0
  /\ Good(s, z.frame) /\ z.frame # Len(s) =>
       z.pulse = LastPulse(s[z.frame].message)

\* An edge: the ring holds one event more, or the frame is no longer whole.
LEMMA EdgeRing ==
  ASSUME RingInv, NEW frames \in Seq(Frames), frames # <<>>,
         Len(frames) <= MaxFrames, Later(sent, frames),
         NEW k \in 0 .. LastPulse(frames[Len(frames)].message),
         BeforeEdge(frames, k, At(taken, queue, Len(queue))),
         Edge(frames, k),
         pos' = IF k = LastPulse(frames[Len(frames)].message) THEN 0 ELSE k + 1
  PROVE  RingInv' /\ UNCHANGED taken /\ Later(frames, sent')
         /\ Len(sent') = Len(frames)
<1> DEFINE L == Len(frames)
           m == frames[L].message
           z == At(taken, queue, Len(queue))
<1>1. L \in Nat \ {0} /\ L \in 1 .. L /\ frames[L] \in Frames
  BY EmptySeq, ElementOfSeq
<1>2. /\ LastPulse(m) \in 3 .. 2 * Bits + 3 /\ Bits \in Nat
      /\ k \in 0 .. 2 * Bits + 3 /\ k \in Nat
  <2>1. LastPulse(m) \in 3 .. 2 * Bits + 3 /\ Bits \in Nat
    BY LastPulseType
  <2> HIDE DEF m
  <2> QED BY <2>1 DEF m
<1>3. PICK b \in {0, 1}, e \in PulseEvent :
           /\ e.frame = L /\ e.pulse = k /\ e.pol = (k + 1) % 2
           /\ b = 0 => e.duration = Width(m, k) + m.skew
           /\ UNCHANGED taken
           /\ \/ queue' = Append(queue, e) /\ sent' = Worse(frames, b)
              \/ UNCHANGED queue /\ sent' = Worse(frames, 1)
  BY <1>2, EdgePuts
<1>4. /\ sent \in Seq(Frames) /\ queue \in Seq(PulseEvent) /\ taken \in PulseEvent
      /\ EventsOK(sent, taken, queue) /\ Len(queue) \in Nat /\ Len(sent) \in Nat
  BY DEF RingInv
<1>5. z \in PulseEvent /\ z.frame <= Len(sent) /\ z.frame <= L /\ z.frame \in Int
      /\ z.pulse \in Int
  <2>1. Len(queue) \in 0 .. Len(queue)
    BY <1>4
  <2>2. z \in PulseEvent
    BY <1>4, <2>1 DEF At
  <2>3. z.frame <= Len(sent)
    BY <1>4, <2>1 DEF EventsOK
  <2>4. z.frame \in Int /\ z.pulse \in Int
    BY <2>2 DEF PulseEvent
  <2>5. Len(sent) <= L
    BY DEF Later
  <2> HIDE DEF z, L
  <2> QED BY <1>1, <1>4, <2>2, <2>3, <2>4, <2>5
<1>6. EventsOK(frames, taken, queue)
  BY <1>4, EventsLater
<1>7. BeforeEdge(frames, k, z)
  OBVIOUS
<1> HIDE DEF z, m
<1>8. ASSUME NEW c \in {0, 1}, sent' = Worse(frames, c)
      PROVE  /\ sent' \in Seq(Frames) /\ Len(sent') = L /\ Later(frames, sent')
             /\ Good(sent', L) => c = 0 /\ Good(frames, L)
             /\ sent'[L].message = m
             /\ EventsOK(sent', taken, queue)
             /\ \A f \in Int : f <= L /\ Good(sent', f) =>
                  Good(frames, f) /\ sent'[f].message = frames[f].message
  <2>1. /\ sent' \in Seq(Frames) /\ Len(sent') = L /\ Later(frames, sent')
        /\ Good(sent', L) => c = 0 /\ Good(frames, L)
    BY <1>8, WorseFrames
  <2>2. EventsOK(sent', taken, queue)
    BY <1>4, <1>6, <2>1, EventsLater
  <2>3. sent'[L].message = m
    BY <1>1, <2>1 DEF Later, m
  <2>4. \A f \in Int : f <= L /\ Good(sent', f) =>
           Good(frames, f) /\ sent'[f].message = frames[f].message
    BY <2>1, GoodBefore
  <2> QED BY <2>1, <2>2, <2>3, <2>4
<1>9. /\ pos' \in Nat /\ pos' # 0 => pos' <= LastPulse(m)
      /\ k = IF pos' # 0 THEN pos' - 1 ELSE LastPulse(m)
  BY <1>2 DEF m
<1>10. CASE queue' = Append(queue, e) /\ sent' = Worse(frames, b)
  <2>1. /\ sent' \in Seq(Frames) /\ Len(sent') = L /\ Later(frames, sent')
        /\ Good(sent', L) => b = 0 /\ Good(frames, L)
        /\ sent'[L].message = m
        /\ EventsOK(sent', taken, queue)
        /\ \A f \in Int : f <= L /\ Good(sent', f) =>
             Good(frames, f) /\ sent'[f].message = frames[f].message
    BY <1>8, <1>10
  <2>2. Faithful(sent', e)
    BY <1>2, <1>3, <2>1 DEF Faithful, m
  <2>3. Follows(sent', z, e)
    <3>1. z.frame <= e.frame
      BY <1>3, <1>5
    <3>2. Good(sent', e.frame) =>
            e.pulse = IF z.frame = e.frame THEN z.pulse + 1 ELSE 0
      BY <1>3, <1>7, <2>1 DEF BeforeEdge
    <3>3. Good(sent', z.frame) /\ z.frame # e.frame =>
            z.pulse = LastPulse(sent'[z.frame].message)
      BY <1>3, <1>5, <1>7, <2>1 DEF BeforeEdge
    <3>4. ASSUME NEW f \in 1 .. L, z.frame < f, f < L, Good(sent', f)
          PROVE  FALSE
      <4>1. f \in 1 .. L - 1 /\ f \in Int /\ f <= L
        BY <1>1, <3>4
      <4>2. Good(frames, f)
        BY <2>1, <3>4, <4>1
      <4>3. f <= z.frame
        BY <1>7, <4>1, <4>2 DEF BeforeEdge
      <4> QED BY <1>5, <3>4, <4>1, <4>3
    <3> QED BY <1>3, <2>1, <3>1, <3>2, <3>3, <3>4 DEF Follows
  <2>4. /\ queue' \in Seq(PulseEvent) /\ EventsOK(sent', taken, queue')
        /\ At(taken, queue', Len(queue')) = e
    <3>1. e.frame <= Len(sent')
      BY <1>1, <1>3, <2>1
    <3> QED BY <1>4, <1>10, <2>1, <2>2, <2>3, <3>1, EventsPut DEF z
  <2>5. Newest(sent', pos', e)
    <3>1. \A f \in 1 .. Len(sent') : f <= e.frame
      BY <1>3, <2>1
    <3> QED BY <1>3, <1>9, <2>1, <3>1 DEF Newest
  <2>6. sent' # <<>>
    BY <1>1, <2>1, EmptySeq
  <2>7. RingInv'
    BY <1>3, <1>4, <1>9, <2>1, <2>4, <2>5, <2>6 DEF RingInv
  <2> QED BY <1>3, <2>1, <2>7
<1>11. CASE UNCHANGED queue /\ sent' = Worse(frames, 1)
  <2>1. /\ sent' \in Seq(Frames) /\ Len(sent') = L /\ Later(frames, sent')
        /\ ~Good(sent', L)
        /\ sent'[L].message = m
        /\ EventsOK(sent', taken, queue)
        /\ \A f \in Int : f <= L /\ Good(sent', f) =>
             Good(frames, f) /\ sent'[f].message = frames[f].message
    <3>1. 1 # 0 /\ 1 \in {0, 1}
      OBVIOUS
    <3> QED BY <1>8, <1>11, <3>1
  <2>2. Newest(sent', pos', z)
    <3>1. ASSUME NEW f \in 1 .. L, Good(sent', f) PROVE f <= z.frame
      <4>1. f \in 1 .. L - 1 /\ f \in Int /\ f <= L
        BY <1>1, <2>1, <3>1
      <4>2. Good(frames, f)
        BY <2>1, <3>1, <4>1
      <4> QED BY <1>7, <4>1, <4>2 DEF BeforeEdge
    <3>2. ASSUME Good(sent', z.frame)
          PROVE  z.frame # L /\ z.pulse = LastPulse(sent'[z.frame].message)
      BY <1>5, <1>7, <2>1, <3>2 DEF BeforeEdge
    <3> QED BY <2>1, <3>1, <3>2 DEF Newest
  <2>3. sent' # <<>>
    BY <1>1, <2>1, EmptySeq
  <2>4. RingInv'
    <3>1. taken' = taken /\ queue' = queue
      BY <1>3, <1>11
    <3>2. /\ EventsOK(sent', taken', queue')
          /\ Newest(sent', pos', At(taken', queue', Len(queue')))
      BY <2>1, <2>2, <3>1 DEF z
    <3>3. pos' # 0 => pos' <= LastPulse(sent'[Len(sent')].message)
      BY <1>9, <2>1
    <3> QED BY <1>4, <1>9, <2>1, <2>3, <3>1, <3>2, <3>3 DEF RingInv
  <2> QED BY <1>3, <2>1, <2>4
<1> QED BY <1>3, <1>10, <1>11

\* A frame begins: the one before it is as complete as it will be.
LEMMA StartRing ==
  ASSUME RingInv, StartFrame
  PROVE  RingInv' /\ UNCHANGED taken /\ Later(sent, sent')
         /\ Len(sent') = Len(sent) + 1
<1>1. PICK m \in Messages : Edge(Append(sent, [message |-> m, faults |-> 0]), 0)
  BY DEF StartFrame
<1> DEFINE x == [message |-> m, faults |-> 0]
           frames == Append(sent, x)
           z == At(taken, queue, Len(queue))
<1>2. /\ sent \in Seq(Frames) /\ Len(sent) \in Nat /\ Len(sent) < MaxFrames
      /\ MaxFrames \in Nat /\ pos = 0 /\ pos' = 1
      /\ Newest(sent, pos, z)
  BY NecAssumption DEF RingInv, StartFrame, Silent
<1>3. x \in Frames /\ x.faults = 0
  BY DEF Frames
<1> HIDE DEF x
<1>4. /\ frames \in Seq(Frames) /\ Len(frames) = Len(sent) + 1
      /\ \A f \in 1 .. Len(sent) : frames[f] = sent[f]
      /\ frames[Len(sent) + 1] = x
  BY <1>2, <1>3, AppendProperties
<1>5. z \in PulseEvent /\ z.frame <= Len(sent) /\ z.frame \in Int
  <2>1. Len(queue) \in 0 .. Len(queue)
    BY DEF RingInv
  <2>2. z \in PulseEvent
    BY <2>1 DEF At, RingInv
  <2>3. z.frame <= Len(sent)
    BY <2>1 DEF EventsOK, RingInv
  <2>4. z.frame \in Int
    BY <2>2 DEF PulseEvent
  <2> QED BY <2>2, <2>3, <2>4
<1> HIDE DEF frames, z
<1>6. frames # <<>> /\ Len(frames) <= MaxFrames
  BY <1>2, <1>4, EmptySeq
<1>7. Later(sent, frames)
  BY <1>2, <1>4 DEF Later
<1>8. BeforeEdge(frames, 0, z)
  <2>1. ASSUME NEW f \in 1 .. Len(sent), Good(frames, f)
        PROVE  Good(sent, f) /\ frames[f] = sent[f]
    BY <1>4, <2>1 DEF Good
  <2>2. \A f \in 1 .. Len(sent) : Good(frames, f) => f <= z.frame
    BY <1>2, <2>1 DEF Newest
  <2>3. z.frame # Len(frames)
    BY <1>2, <1>4, <1>5
  <2>4. Good(frames, z.frame) => z.pulse = LastPulse(frames[z.frame].message)
    <3>1. Good(frames, z.frame) => z.frame \in 1 .. Len(sent)
      BY <1>2, <1>5 DEF Good
    <3> QED BY <1>2, <2>1, <3>1 DEF Newest
  <2>5. Len(frames) - 1 = Len(sent)
    BY <1>2, <1>4
  <2> QED BY <2>2, <2>3, <2>4, <2>5 DEF BeforeEdge
<1>9. /\ LastPulse(frames[Len(frames)].message) \in 3 .. 2 * Bits + 3
      /\ Bits \in Nat
  BY LastPulseType
<1>10. /\ 0 \in 0 .. LastPulse(frames[Len(frames)].message)
       /\ pos' = IF 0 = LastPulse(frames[Len(frames)].message) THEN 0 ELSE 0 + 1
  BY <1>2, <1>9
<1>11. Edge(frames, 0)
  BY <1>1 DEF frames, x
<1>12. RingInv' /\ UNCHANGED taken /\ Later(frames, sent') /\ Len(sent') = Len(frames)
  BY <1>4, <1>6, <1>7, <1>8, <1>10, <1>11, EdgeRing DEF z
<1>13. Later(sent, sent')
  BY <1>2, <1>4, <1>7, <1>12 DEF Later
<1> QED BY <1>4, <1>12, <1>13

\* A pulse ends.
LEMMA PulseRing ==
  ASSUME RingInv, EndPulse
  PROVE  RingInv' /\ UNCHANGED taken /\ Later(sent, sent') /\ Len(sent') = Len(sent)
<1> DEFINE m == sent[Len(sent)].message
           z == At(taken, queue, Len(queue))
<1>1. /\ sent \in Seq(Frames) /\ Len(sent) \in Nat /\ Len(sent) <= MaxFrames
      /\ pos \in Nat \ {0} /\ sent # <<>> /\ pos <= LastPulse(m)
      /\ pos' = IF pos = LastPulse(m) THEN 0 ELSE pos + 1
      /\ Edge(sent, pos) /\ Newest(sent, pos, z)
  BY DEF RingInv, EndPulse, Silent
<1>2. z \in PulseEvent /\ z.frame <= Len(sent) /\ z.frame \in Int /\ z.pulse \in Int
  <2>1. Len(queue) \in 0 .. Len(queue)
    BY DEF RingInv
  <2>2. z \in PulseEvent
    BY <2>1 DEF At, RingInv
  <2>3. z.frame <= Len(sent)
    BY <2>1 DEF EventsOK, RingInv
  <2>4. z.frame \in Int /\ z.pulse \in Int
    BY <2>2 DEF PulseEvent
  <2> QED BY <2>2, <2>3, <2>4
<1>3. LastPulse(m) \in 3 .. 2 * Bits + 3 /\ Bits \in Nat
  BY LastPulseType
<1> HIDE DEF m, z
<1>4. pos \in 0 .. LastPulse(m)
  BY <1>1, <1>3
<1>5. BeforeEdge(sent, pos, z)
  <2>1. Good(sent, Len(sent)) => z.frame = Len(sent)
    BY <1>1, <1>2 DEF Newest, Good
  <2>2. Good(sent, Len(sent)) => pos = z.pulse + 1
    BY <1>1, <1>2, <2>1 DEF Newest
  <2>3. \A f \in 1 .. Len(sent) - 1 : Good(sent, f) => f <= z.frame
    BY <1>1 DEF Newest
  <2>4. Good(sent, z.frame) /\ z.frame # Len(sent) =>
          z.pulse = LastPulse(sent[z.frame].message)
    BY <1>1 DEF Newest
  <2> QED BY <2>1, <2>2, <2>3, <2>4 DEF BeforeEdge
<1>6. Later(sent, sent)
  BY <1>1 DEF Later
<1> QED BY <1>1, <1>4, <1>5, <1>6, EdgeRing DEF m, z

\* The remote is cut off.
LEMMA CutRing ==
  ASSUME RingInv, CutOff
  PROVE  RingInv' /\ UNCHANGED taken /\ Later(sent, sent') /\ Len(sent') = Len(sent)
<1> DEFINE L == Len(sent)
           z == At(taken, queue, Len(queue))
<1>1. /\ sent \in Seq(Frames) /\ L \in Nat /\ L <= MaxFrames
      /\ sent # <<>> /\ pos' = 0 /\ sent' = Worse(sent, 1)
      /\ UNCHANGED <<queue, taken>> /\ queue \in Seq(PulseEvent) /\ taken \in PulseEvent
      /\ EventsOK(sent, taken, queue) /\ Newest(sent, pos, z)
  BY DEF RingInv, CutOff, Silent, ring
<1>2. 1 # 0 /\ 1 \in {0, 1}
  OBVIOUS
<1>3. /\ sent' \in Seq(Frames) /\ Len(sent') = L /\ Later(sent, sent')
      /\ ~Good(sent', L)
  BY <1>1, <1>2, WorseFrames
<1>4. EventsOK(sent', taken, queue)
  BY <1>1, <1>3, EventsLater
<1>5. z.frame \in Int /\ z.frame <= L
  <2>1. Len(queue) \in 0 .. Len(queue)
    BY <1>1
  <2>2. z \in PulseEvent
    BY <1>1, <2>1 DEF At
  <2>3. z.frame <= L
    BY <1>1, <2>1 DEF EventsOK
  <2> QED BY <2>2, <2>3 DEF PulseEvent
<1> HIDE DEF z
<1>6. \A f \in Int : f <= L /\ Good(sent', f) =>
        Good(sent, f) /\ sent'[f].message = sent[f].message
  BY <1>1, <1>3, GoodBefore
<1>7. Newest(sent', 0, z)
  BY <1>1, <1>3, <1>5, <1>6 DEF Newest
<1>8. RingInv'
  BY <1>1, <1>3, <1>4, <1>7 DEF RingInv, z
<1> QED BY <1>1, <1>3, <1>8

\* The remote's steps do not concern what was read so far.
LEMMA RemoteKeeps ==
  ASSUME NecInv, RingInv', Later(sent, sent'),
         UNCHANGED <<taken, at, i, val, got>>
  PROVE  NecInv'
<1>1. /\ sent \in Seq(Frames) /\ sent' \in Seq(Frames) /\ Len(sent) \in Nat
      /\ Len(sent') \in Nat /\ Len(sent') <= MaxFrames /\ MaxFrames \in Nat
      /\ DOMAIN sent = 1 .. Len(sent) /\ DOMAIN sent' = 1 .. Len(sent')
  BY NecAssumption DEF NecInv, RingInv
<1>2. taken \in PulseEvent /\ taken.frame \in Int /\ taken.frame <= Len(sent)
  <2>1. 0 \in 0 .. Len(queue) /\ At(taken, queue, 0) = taken
    BY DEF NecInv, RingInv, At
  <2>2. taken \in PulseEvent /\ taken.frame <= Len(sent)
    BY <2>1 DEF NecInv, RingInv, EventsOK
  <2> QED BY <2>2 DEF PulseEvent
<1>3. \A f \in Int : f <= Len(sent) /\ Good(sent', f) =>
        Good(sent, f) /\ sent'[f].message = sent[f].message
  BY <1>1, GoodBefore
<1>4. InStep(sent', taken, at, i, val)
  BY <1>2, <1>3 DEF NecInv, ReadInv, InStep
<1>5. ReadInv'
  BY <1>4 DEF NecInv, ReadInv
<1>6. FrameOnce'
  <2>1. SUFFICES ASSUME NEW f \in 1 .. Len(sent'), sent'[f].faults = 0
                 PROVE  got[f] = IF Taken(f)' THEN Result(sent'[f].message)
                                              ELSE <<>>
    BY <1>1 DEF FrameOnce
  <2>2. Good(sent', f) /\ f \in Int
    BY <2>1 DEF Good
  <2>3. CASE f <= Len(sent)
    <3>1. Good(sent, f) /\ sent'[f].message = sent[f].message
      BY <1>3, <2>2, <2>3
    <3>2. Taken(f)' <=> Taken(f)
      BY <3>1 DEF Taken
    <3>3. got[f] = IF Taken(f) THEN Result(sent[f].message) ELSE <<>>
      BY <1>1, <3>1 DEF NecInv, GotInv, FrameOnce, Good
    <3> QED BY <3>1, <3>2, <3>3
  <2>4. CASE f > Len(sent)
    <3>1. f > taken.frame /\ f \in 0 .. MaxFrames
      BY <1>1, <1>2, <2>1, <2>4
    <3>2. got[f] = <<>>
      BY <3>1 DEF NecInv, GotInv
    <3>3. ~Taken(f)'
      BY <1>2, <2>2, <3>1 DEF Taken
    <3> QED BY <3>2, <3>3
  <2> QED BY <1>1, <2>2, <2>3, <2>4
<1>7. GotInv'
  BY <1>6 DEF NecInv, GotInv
<1> QED BY <1>5, <1>7 DEF NecInv

\* A get: the next event is there as irda_irq stored it.
LEMMA GetRing ==
  ASSUME RingInv, Events!Get, UNCHANGED remote
  PROVE  /\ RingInv' /\ sent' = sent
         /\ taken' \in PulseEvent /\ taken'.frame <= Len(sent)
         /\ Follows(sent, taken, taken') /\ Faithful(sent, taken')
<1>1. /\ sent \in Seq(Frames) /\ queue \in Seq(PulseEvent) /\ taken \in PulseEvent
      /\ EventsOK(sent, taken, queue) /\ queue # <<>>
      /\ taken' = Head(queue) /\ queue' = Tail(queue)
      /\ UNCHANGED <<sent, pos>>
      /\ Newest(sent, pos, At(taken, queue, Len(queue)))
  BY DEF RingInv, Events!Get, remote
<1>2. /\ taken' \in PulseEvent /\ queue' \in Seq(PulseEvent)
      /\ EventsOK(sent, taken', queue')
      /\ At(taken', queue', Len(queue')) = At(taken, queue, Len(queue))
      /\ Follows(sent, taken, taken') /\ Faithful(sent, taken')
      /\ taken'.frame <= Len(sent)
  BY <1>1, EventsGet
<1>3. RingInv'
  BY <1>1, <1>2 DEF RingInv
<1> QED BY <1>1, <1>2, <1>3

\* The number of the pulse that decides a frame.
LEMMA DecidingType ==
  ASSUME NEW m \in Messages
  PROVE  /\ Deciding(m) \in Nat /\ Deciding(m) >= 2
         /\ Deciding(m) < LastPulse(m)
         /\ m.repeat \in BOOLEAN
         /\ m.repeat => Deciding(m) = 2
         /\ ~m.repeat => Deciding(m) = 2 * Bits + 2
<1>1. Bits \in Nat \ {0}
  BY NecAssumption DEF Bits
<1>2. m.repeat \in BOOLEAN
  BY NecAssumption DEF Message
<1> HIDE DEF Bits
<1> QED BY <1>1, <1>2 DEF Deciding, LastPulse

\* What a whole frame should give is a result.
LEMMA ResultType ==
  ASSUME NEW m \in Messages
  PROVE  Result(m) \in Seq(Results)
<1>1. m.repeat \in BOOLEAN /\ m.address \in Byte /\ m.data \in Byte
  BY NecAssumption DEF Message
<1>2. /\ [ret |-> 1] \in Results
      /\ [ret |-> 0, address |-> m.address, data |-> m.data] \in Results
  BY <1>1 DEF Results
<1>3. /\ << [ret |-> 1] >> \in Seq(Results)
      /\ << [ret |-> 0, address |-> m.address, data |-> m.data] >> \in Seq(Results)
  BY <1>2
<1>4. CASE m.repeat = TRUE
  BY <1>3, <1>4 DEF Result, Repeat
<1>5. CASE m.repeat = FALSE
  BY <1>3, <1>5 DEF Result
<1> QED BY <1>1, <1>4, <1>5

\* Reading one event right is enough: if the decoder is in step after it and
\* returns a result exactly at the pulse that decides the frame, then every
\* whole frame is returned once.
LEMMA GetKeeps ==
  ASSUME NecInv, Events!Get, UNCHANGED remote,
         NEW res \in Seq(Results),
         got' = [got EXCEPT ![taken'.frame] = got[taken'.frame] \o res],
         at' \in {"head", "second", "low", "high"}, i' \in 0 .. Bits - 1,
         val' \in [0 .. Bits - 1 -> 0 .. 1],
         at' \in {"head", "second"} => i' = 0 /\ val' = NoBits,
         InStep(sent, taken', at', i', val'),
         Good(sent, taken'.frame) =>
           res = IF taken'.pulse = Deciding(sent[taken'.frame].message)
                 THEN Result(sent[taken'.frame].message) ELSE <<>>
  PROVE  NecInv'
<1> DEFINE a == taken
           b == taken'
<1>1. /\ RingInv' /\ sent' = sent /\ b \in PulseEvent /\ b.frame <= Len(sent)
      /\ Follows(sent, a, b)
  BY GetRing DEF NecInv
<1>2. /\ sent \in Seq(Frames) /\ Len(sent) \in Nat /\ Len(sent) <= MaxFrames
      /\ MaxFrames \in Nat /\ DOMAIN sent = 1 .. Len(sent) /\ a \in PulseEvent
  BY NecAssumption DEF NecInv, RingInv
<1>3. /\ a.frame \in Int /\ b.frame \in 0 .. MaxFrames
      /\ a.pulse \in Nat /\ b.pulse \in Int
      /\ a.frame <= b.frame
  BY <1>1, <1>2 DEF PulseEvent, Follows
<1>4. ReadInv'
  BY <1>1 DEF ReadInv
<1>5. /\ got \in [0 .. MaxFrames -> Seq(Results)]
      /\ \A f \in 0 .. MaxFrames : f > a.frame => got[f] = <<>>
  BY DEF NecInv, GotInv
<1> DEFINE g == got[b.frame] \o res
<1>6. g \in Seq(Results)
  BY <1>3, <1>5
<1>7. got' = [got EXCEPT ![b.frame] = g]
  OBVIOUS
<1> HIDE DEF g
<1>8. /\ got' \in [0 .. MaxFrames -> Seq(Results)]
      /\ \A f \in 0 .. MaxFrames : got'[f] = IF f = b.frame THEN g ELSE got[f]
  BY <1>3, <1>5, <1>6, <1>7
<1>9. \A f \in 0 .. MaxFrames : f > b.frame => got'[f] = <<>>
  BY <1>3, <1>5, <1>8
<1>10. FrameOnce'
  <2>1. SUFFICES ASSUME NEW f \in 1 .. Len(sent), sent[f].faults = 0
                 PROVE  got'[f] = IF Taken(f)' THEN Result(sent[f].message)
                                               ELSE <<>>
    BY <1>1, <1>2 DEF FrameOnce
  <2> DEFINE m == sent[f].message
             D == Deciding(m)
  <2>2. /\ Good(sent, f) /\ f \in Int /\ f \in 0 .. MaxFrames
    BY <1>2, <2>1 DEF Good
  <2>3. got[f] = IF Taken(f) THEN Result(m) ELSE <<>>
    BY <1>2, <2>1 DEF NecInv, GotInv, FrameOnce
  <2>4. D \in Nat /\ D >= 2 /\ D < LastPulse(m) /\ LastPulse(m) \in Nat
    <3>1. m \in Messages
      <4>1. sent[f] \in Frames
        BY <1>2, <2>1, ElementOfSeq
      <4> QED BY <4>1 DEF Frames
    <3>2. LastPulse(m) \in 3 .. 2 * Bits + 3 /\ Bits \in Nat
      BY LastPulseType
    <3> HIDE DEF m
    <3> QED BY <3>1, <3>2, DecidingType
  <2>5. /\ Taken(f) <=> a.frame > f \/ (a.frame = f /\ a.pulse >= D)
        /\ Taken(f)' <=> b.frame > f \/ (b.frame = f /\ b.pulse >= D)
    BY <1>1 DEF Taken
  <2>6. Result(m) \o <<>> = Result(m) /\ <<>> \o <<>> = <<>>
        /\ <<>> \o res = res
    <3>1. m \in Messages
      <4>1. sent[f] \in Frames
        BY <1>2, <2>1, ElementOfSeq
      <4> QED BY <4>1 DEF Frames
    <3>2. Result(m) \in Seq(Results)
      BY <3>1, ResultType
    <3>3. <<>> \in Seq(Results)
      BY EmptySeq
    <3> QED BY <3>2, <3>3, ConcatEmptySeq
  <2> HIDE DEF m, D
  <2>7. CASE f = b.frame
    <3>1. res = IF b.pulse = D THEN Result(m) ELSE <<>>
      BY <2>2, <2>7 DEF D, m
    <3>2. b.pulse = IF a.frame = b.frame THEN a.pulse + 1 ELSE 0
      BY <1>1, <2>2, <2>7 DEF Follows
    <3>3. got'[f] = got[f] \o res
      BY <1>8, <2>2, <2>7 DEF g
    <3>4. CASE a.frame = f
      <4>1. b.pulse = a.pulse + 1
        BY <2>7, <3>2, <3>4
      <4>2. CASE b.pulse < D
        <5>1. ~Taken(f) /\ ~Taken(f)' /\ res = <<>>
          BY <1>3, <2>4, <2>5, <2>7, <3>1, <3>4, <4>1, <4>2
        <5> QED BY <2>3, <2>6, <3>3, <5>1
      <4>3. CASE b.pulse = D
        <5>1. ~Taken(f) /\ Taken(f)' /\ res = Result(m)
          BY <1>3, <2>4, <2>5, <2>7, <3>1, <3>4, <4>1, <4>3
        <5> QED BY <2>3, <2>6, <3>3, <5>1 DEF m
      <4>4. CASE b.pulse > D
        <5>1. Taken(f) /\ Taken(f)' /\ res = <<>>
          BY <1>3, <2>4, <2>5, <2>7, <3>1, <3>4, <4>1, <4>4
        <5> QED BY <2>3, <2>6, <3>3, <5>1 DEF m
      <4> QED BY <1>3, <2>4, <4>2, <4>3, <4>4
    <3>5. CASE a.frame # f
      <4>1. f > a.frame /\ b.pulse = 0
        BY <1>3, <2>7, <3>2, <3>5
      <4>2. got[f] = <<>> /\ res = <<>> /\ ~Taken(f)'
        BY <1>3, <1>5, <2>2, <2>4, <2>5, <2>7, <3>1, <4>1
      <4> QED BY <2>6, <3>3, <4>2
    <3> QED BY <3>4, <3>5
  <2>8. CASE f # b.frame
    <3>1. got'[f] = got[f]
      BY <1>8, <2>2, <2>8
    <3>2. ~(a.frame < f /\ f < b.frame)
      BY <1>1, <2>1, <2>2 DEF Follows
    <3>3. a.frame = f => a.pulse = LastPulse(m)
      BY <1>1, <2>2, <2>8 DEF Follows, m
    <3>4. Taken(f) <=> Taken(f)'
      BY <1>3, <2>2, <2>4, <2>5, <2>8, <3>2, <3>3
    <3> QED BY <2>3, <3>1, <3>4 DEF m
  <2> QED BY <2>7, <2>8
<1>11. GotInv'
  BY <1>8, <1>9, <1>10 DEF GotInv
<1> QED BY <1>1, <1>4, <1>11 DEF NecInv

\* The margins tell exact pulses apart.
LEMMA Margins ==
  ASSUME ClocksInMargin, taken' \in PulseEvent, NEW m \in Messages,
         taken'.pol = (taken'.pulse + 1) % 2,
         taken'.duration = Width(m, taken'.pulse) + m.skew
  PROVE  LET k == taken'.pulse
         IN /\ Is(0, DURATION_HEAD_LOW) <=> k = 1
            /\ Is(1, DURATION_HEAD_HIGH) <=> k = 2 /\ ~m.repeat
            /\ Is(1, DURATION_REPEAT_HIGH) <=> k = 2 /\ m.repeat
            /\ Is(0, DURATION_DATA_LOW) <=> k > 2 /\ k % 2 = 1
            /\ Is(1, DURATION_DATA1_HIGH) <=>
                 k > 2 /\ k % 2 = 0 /\ FrameBit(m, (k - 4) \div 2) = 1
            /\ Is(1, DURATION_DATA0_HIGH) <=>
                 k > 2 /\ k % 2 = 0 /\ FrameBit(m, (k - 4) \div 2) # 1
<1> DEFINE k == taken'.pulse
           d == taken'.duration
           bit == FrameBit(m, (k - 4) \div 2)
<1>1. m \in Messages /\ m.repeat \in BOOLEAN /\ m.skew \in Int
      /\ -281 < m.skew /\ m.skew < 281
  <2>1. DURATION_DELTA = 281
    BY DEF DURATION_DELTA, DURATION_BASE
  <2> QED BY <2>1, NecAssumption DEF Message, ClocksInMargin
<1>2. k \in Nat /\ taken'.pol = (k + 1) % 2 /\ d = Width(m, k) + m.skew
  BY DEF PulseEvent
<1>3. Width(m, k) = CASE k = 0 -> 40000
                      [] k = 1 -> 9008
                      [] k = 2 -> IF m.repeat THEN 2252 ELSE 4504
                      [] k > 2 /\ k % 2 = 1 -> 563
                      [] OTHER -> IF bit = 1 THEN 1689 ELSE 563
  BY DEF Width, SILENCE, DURATION_HEAD_LOW, DURATION_REPEAT_HIGH,
         DURATION_HEAD_HIGH, DURATION_DATA_LOW, DURATION_DATA1_HIGH,
         DURATION_DATA0_HIGH, DURATION_BASE
<1>4. /\ Is(0, DURATION_HEAD_LOW) <=> taken'.pol = 0 /\ d > 8727 /\ d < 9289
      /\ Is(1, DURATION_HEAD_HIGH) <=> taken'.pol = 1 /\ d > 4223 /\ d < 4785
      /\ Is(1, DURATION_REPEAT_HIGH) <=> taken'.pol = 1 /\ d > 1971 /\ d < 2533
      /\ Is(0, DURATION_DATA_LOW) <=> taken'.pol = 0 /\ d > 282 /\ d < 844
      /\ Is(1, DURATION_DATA1_HIGH) <=> taken'.pol = 1 /\ d > 1408 /\ d < 1970
      /\ Is(1, DURATION_DATA0_HIGH) <=> taken'.pol = 1 /\ d > 282 /\ d < 844
  BY DEF Is, duration_in_margin, DURATION_HEAD_LOW,
         DURATION_REPEAT_HIGH,
         DURATION_HEAD_HIGH, DURATION_DATA_LOW, DURATION_DATA1_HIGH,
         DURATION_DATA0_HIGH, DURATION_DELTA, DURATION_BASE
<1> HIDE DEF k, d, bit
<1>5. CASE k = 0
  <2>1. taken'.pol = 1 /\ Width(m, k) = 40000
    BY <1>2, <1>3, <1>5
  <2> QED BY <1>1, <1>2, <1>4, <1>5, <2>1 DEF k
<1>6. CASE k = 1
  <2>1. taken'.pol = 0 /\ Width(m, k) = 9008
    BY <1>2, <1>3, <1>6
  <2> QED BY <1>1, <1>2, <1>4, <1>6, <2>1 DEF k
<1>7. CASE k = 2
  <2>1. taken'.pol = 1 /\ Width(m, k) = IF m.repeat THEN 2252 ELSE 4504
    BY <1>2, <1>3, <1>7
  <2>2. CASE m.repeat = TRUE
    BY <1>1, <1>2, <1>4, <1>7, <2>1, <2>2 DEF k
  <2>3. CASE m.repeat = FALSE
    BY <1>1, <1>2, <1>4, <1>7, <2>1, <2>3 DEF k
  <2> QED BY <1>1, <2>2, <2>3
<1>8. CASE k > 2 /\ k % 2 = 1
  <2>1. taken'.pol = 0 /\ Width(m, k) = 563
    BY <1>2, <1>3, <1>8
  <2> QED BY <1>1, <1>2, <1>4, <1>8, <2>1 DEF k
<1>9. CASE k > 2 /\ k % 2 = 0
  <2>1. taken'.pol = 1 /\ Width(m, k) = IF bit = 1 THEN 1689 ELSE 563
    BY <1>2, <1>3, <1>9
  <2>2. CASE bit = 1
    BY <1>1, <1>2, <1>4, <1>9, <2>1, <2>2 DEF k, bit
  <2>3. CASE bit # 1
    BY <1>1, <1>2, <1>4, <1>9, <2>1, <2>3 DEF k, bit
  <2> QED BY <2>2, <2>3
<1> QED BY <1>2, <1>5, <1>6, <1>7, <1>8, <1>9

\* So the pulses of a whole frame are told apart.
LEMMA Reads ==
  ASSUME ClocksInMargin, RingInv, taken' \in PulseEvent,
         Good(sent, taken'.frame), Faithful(sent, taken')
  PROVE  LET m == sent[taken'.frame].message
             k == taken'.pulse
         IN /\ Is(0, DURATION_HEAD_LOW) <=> k = 1
            /\ Is(1, DURATION_HEAD_HIGH) <=> k = 2 /\ ~m.repeat
            /\ Is(1, DURATION_REPEAT_HIGH) <=> k = 2 /\ m.repeat
            /\ Is(0, DURATION_DATA_LOW) <=> k > 2 /\ k % 2 = 1
            /\ Is(1, DURATION_DATA1_HIGH) <=>
                 k > 2 /\ k % 2 = 0 /\ FrameBit(m, (k - 4) \div 2) = 1
            /\ Is(1, DURATION_DATA0_HIGH) <=>
                 k > 2 /\ k % 2 = 0 /\ FrameBit(m, (k - 4) \div 2) # 1
<1>1. sent[taken'.frame].message \in Messages
  <2>1. sent[taken'.frame] \in Frames
    BY ElementOfSeq DEF RingInv, Good
  <2> QED BY <2>1 DEF Frames
<1> QED BY <1>1, Margins DEF Faithful

\* Quotient and remainder of a bit's number by the bits of a byte.
LEMMA ByteAndBit ==
  ASSUME NEW B \in Nat \ {0}, NEW x \in Int
  PROVE  /\ x \div B \in Int
         /\ x % B \in Int
         /\ x = B * (x \div B) + (x % B)
         /\ 0 <= x % B /\ x % B < B
OBVIOUS

\* Both are determined by the number.
LEMMA ByteAndBitUnique ==
  ASSUME NEW B \in Nat \ {0}, NEW q \in Int, NEW k \in Int,
         NEW r \in 0 .. B - 1, NEW j \in 0 .. B - 1, B * q + r = B * k + j
  PROVE  q = k /\ r = j
<1>1. B * (q - k) = j - r
  OBVIOUS
<1>2. CASE q - k >= 1
  <2>1. B * ((q - k) - 1) >= 0
    BY <1>2
  <2> QED BY <1>1, <2>1
<1>3. CASE q - k <= -1
  <2>1. B * ((q - k) + 1) <= 0
    BY <1>3
  <2> QED BY <1>1, <2>1
<1>4. q = k
  BY <1>2, <1>3
<1>5. r = j
  BY <1>4
<1> QED BY <1>4, <1>5

\* The bits of a frame are those of its four bytes.
LEMMA FrameBits ==
  ASSUME NEW m \in Messages
  PROVE  /\ \A n \in 0 .. Bits - 1 : FrameBit(m, n) \in 0 .. 1
         /\ \A k \in 0 .. 3, j \in 0 .. ByteBits - 1 :
              /\ k * ByteBits + j \in 0 .. Bits - 1
              /\ FrameBit(m, k * ByteBits + j) =
                   <<m.address, m.check, m.data, Complement(m.data)>>[k + 1][j]
<1> DEFINE B == ByteBits
           bytes == <<m.address, m.check, m.data, Complement(m.data)>>
<1>1. B \in Nat \ {0} /\ Bits = 4 * B
  BY NecAssumption DEF Bits
<1>2. m.address \in Byte /\ m.check \in Byte /\ m.data \in Byte
  BY NecAssumption DEF Message
<1>3. Complement(m.data) \in Byte
  <2>1. DOMAIN m.data = 0 .. B - 1 /\ \A j \in 0 .. B - 1 : m.data[j] \in 0 .. 1
    BY <1>2 DEF Byte
  <2> QED BY <2>1 DEF Complement, Byte
<1>4. \A k \in 0 .. 3 : bytes[k + 1] \in Byte
  <2>1. /\ bytes[1] \in Byte /\ bytes[2] \in Byte
        /\ bytes[3] \in Byte /\ bytes[4] \in Byte
    BY <1>2, <1>3
  <2> HIDE DEF bytes
  <2>2. \A k \in 0 .. 3 : k + 1 = 1 \/ k + 1 = 2 \/ k + 1 = 3 \/ k + 1 = 4
    OBVIOUS
  <2> QED BY <2>1, <2>2
<1>5. \A n : FrameBit(m, n) = bytes[n \div B + 1][n % B]
  BY DEF FrameBit
<1> HIDE DEF bytes, B
<1>6. ASSUME NEW n \in 0 .. Bits - 1 PROVE FrameBit(m, n) \in 0 .. 1
  <2> DEFINE q == n \div B
             r == n % B
  <2>1. q \in Int /\ r \in Int /\ n = B * q + r /\ 0 <= r /\ r < B
    BY <1>1, ByteAndBit
  <2> HIDE DEF q, r
  <2>2. CASE q <= -1
    <3>1. B * (q + 1) <= 0
      BY <1>1, <2>1, <2>2
    <3> QED BY <1>1, <2>1, <3>1
  <2>3. CASE q >= 4
    <3>1. B * (q - 4) >= 0
      BY <1>1, <2>1, <2>3
    <3> QED BY <1>1, <2>1, <3>1
  <2>4. q \in 0 .. 3 /\ r \in 0 .. B - 1
    BY <1>1, <2>1, <2>2, <2>3
  <2>5. bytes[q + 1] \in Byte
    BY <1>4, <2>4
  <2>6. bytes[q + 1][r] \in 0 .. 1
    BY <2>4, <2>5 DEF Byte, B
  <2> QED BY <1>5, <2>6 DEF q, r
<1>7. ASSUME NEW k \in 0 .. 3, NEW j \in 0 .. B - 1
      PROVE  /\ k * B + j \in 0 .. Bits - 1
             /\ FrameBit(m, k * B + j) = bytes[k + 1][j]
  <2> DEFINE n == k * B + j
             q == n \div B
             r == n % B
  <2>1. n \in Int /\ n = B * k + j
    BY <1>1
  <2>2. n \in 0 .. Bits - 1
    <3>1. k = 0 \/ k = 1 \/ k = 2 \/ k = 3
      OBVIOUS
    <3> QED BY <1>1, <3>1
  <2> HIDE DEF n
  <2>3. q \in Int /\ r \in Int /\ n = B * q + r /\ 0 <= r /\ r < B
    BY <1>1, <2>1, ByteAndBit
  <2> HIDE DEF q, r
  <2>4. r \in 0 .. B - 1 /\ k \in Int
    BY <1>1, <2>3
  <2>5. q = k /\ r = j
    BY <1>1, <2>1, <2>3, <2>4, ByteAndBitUnique
  <2>6. FrameBit(m, n) = bytes[q + 1][r]
    BY <1>5 DEF q, r
  <2> QED BY <2>2, <2>5, <2>6 DEF n
<1> QED BY <1>6, <1>7 DEF B, bytes

\* What is decoded of 32 bits is a result.
LEMMA DecodedType ==
  ASSUME NEW v \in [0 .. Bits - 1 -> 0 .. 1]
  PROVE  Decoded(v) \in Seq(Results)
<1>1. ByteOf(v, 0) \in Byte /\ ByteOf(v, 2) \in Byte
  <2>1. Bits = 4 * ByteBits /\ ByteBits \in Nat \ {0}
    BY NecAssumption DEF Bits
  <2>2. \A j \in 0 .. ByteBits - 1 :
          /\ 0 * ByteBits + j \in 0 .. Bits - 1
          /\ 2 * ByteBits + j \in 0 .. Bits - 1
    BY <2>1
  <2>3. \A j \in 0 .. ByteBits - 1 :
          v[0 * ByteBits + j] \in 0 .. 1 /\ v[2 * ByteBits + j] \in 0 .. 1
    BY <2>2
  <2> QED BY <2>3 DEF ByteOf, Byte
<1>2. [ret |-> 0, address |-> ByteOf(v, 0), data |-> ByteOf(v, 2)] \in Results
  BY <1>1 DEF Results
<1>3. << [ret |-> 0, address |-> ByteOf(v, 0), data |-> ByteOf(v, 2)] >>
        \in Seq(Results)
  BY <1>2
<1>4. <<>> \in Seq(Results)
  BY EmptySeq
<1> QED BY <1>3, <1>4 DEF Decoded, Failure

\* The bits of a whole frame, put together, are its result.
LEMMA DecodedFrame ==
  ASSUME NEW m \in Messages, m.repeat = FALSE,
         NEW v, BitsRead(m, Bits, v)
  PROVE  Decoded(v) = Result(m)
<1> DEFINE B == ByteBits
<1>1. B \in Nat \ {0} /\ Bits = 4 * B
  BY NecAssumption DEF Bits
<1>2. m.address \in Byte /\ m.data \in Byte
  BY NecAssumption DEF Message
<1>3. \A n \in 0 .. Bits - 1 : v[n] = FrameBit(m, n)
  BY <1>1 DEF BitsRead
<1>4. ASSUME NEW k \in 0 .. 3, NEW j \in 0 .. B - 1
      PROVE  v[k * B + j] =
               <<m.address, m.check, m.data, Complement(m.data)>>[k + 1][j]
  <2> DEFINE n == k * B + j
  <2>1. /\ n \in 0 .. Bits - 1
        /\ FrameBit(m, n) =
             <<m.address, m.check, m.data, Complement(m.data)>>[k + 1][j]
    BY FrameBits
  <2> HIDE DEF n
  <2>2. v[n] = FrameBit(m, n)
    BY <1>3, <2>1
  <2> QED BY <2>1, <2>2 DEF n
<1>5. \A j \in 0 .. B - 1 : v[0 * B + j] = m.address[j]
  <2>1. 0 \in 0 .. 3
    OBVIOUS
  <2> QED BY <1>4, <2>1
<1>6. \A j \in 0 .. B - 1 : v[2 * B + j] = m.data[j]
  <2>1. 2 \in 0 .. 3
    OBVIOUS
  <2> QED BY <1>4, <2>1
<1>7. \A j \in 0 .. B - 1 : v[3 * B + j] = Complement(m.data)[j]
  <2>1. 3 \in 0 .. 3
    OBVIOUS
  <2> QED BY <1>4, <2>1
<1>8. ByteOf(v, 0) = m.address
  BY <1>2, <1>5 DEF ByteOf, Byte
<1>9. ByteOf(v, 2) = m.data
  BY <1>2, <1>6 DEF ByteOf, Byte
<1>10. Complement(ByteOf(v, 3)) = m.data
  <2>1. /\ DOMAIN m.data = 0 .. B - 1
        /\ m.data = [j \in 0 .. B - 1 |-> m.data[j]]
        /\ \A j \in 0 .. B - 1 : m.data[j] \in 0 .. 1
    BY <1>2 DEF Byte
  <2>2. \A j \in 0 .. B - 1 : Complement(m.data)[j] = 1 - m.data[j]
    BY <2>1 DEF Complement
  <2>3. /\ DOMAIN ByteOf(v, 3) = 0 .. B - 1
        /\ \A j \in 0 .. B - 1 : ByteOf(v, 3)[j] = 1 - m.data[j]
    BY <1>7, <2>2 DEF ByteOf
  <2>4. \A j \in 0 .. B - 1 : 1 - ByteOf(v, 3)[j] = m.data[j]
    BY <2>1, <2>3
  <2>5. Complement(ByteOf(v, 3))
          = [j \in 0 .. B - 1 |-> 1 - ByteOf(v, 3)[j]]
    BY <2>3 DEF Complement
  <2> QED BY <2>1, <2>4, <2>5
<1>11. DataValid(v)
  BY <1>9, <1>10 DEF DataValid
<1> QED BY <1>8, <1>9, <1>11 DEF Decoded, Result

\* Where the decoder stands when it gets pulse k of a whole frame.
LEMMA PulseBefore ==
  ASSUME NecInv, Events!Get, UNCHANGED remote,
         Good(sent, taken'.frame)
  PROVE  LET m == sent[taken'.frame].message
             k == taken'.pulse
         IN /\ m \in Messages /\ m.repeat \in BOOLEAN /\ k \in 0 .. LastPulse(m)
            /\ k # 0 =>
                 /\ at = WaitsAt(m, k - 1)
                 /\ at \in {"low", "high"} =>
                      i = ((k - 1) - 2) \div 2 /\ BitsRead(m, i, val)
<1> DEFINE m == sent[taken'.frame].message
           k == taken'.pulse
<1>1. /\ taken' \in PulseEvent /\ Follows(sent, taken, taken') /\ Faithful(sent, taken')
  BY GetRing DEF NecInv
<1>2. m \in Messages /\ m.repeat \in BOOLEAN
  <2>1. sent[taken'.frame] \in Frames
    BY ElementOfSeq DEF NecInv, RingInv, Good
  <2>2. m \in Messages
    BY <2>1 DEF Frames
  <2> HIDE DEF m
  <2> QED BY <2>2, NecAssumption DEF Message
<1>3. k \in 0 .. LastPulse(m)
  BY <1>1 DEF Faithful
<1>4. ASSUME k # 0
      PROVE  /\ at = WaitsAt(m, k - 1)
             /\ at \in {"low", "high"} =>
                  i = ((k - 1) - 2) \div 2 /\ BitsRead(m, i, val)
  <2>1. taken.frame = taken'.frame /\ k = taken.pulse + 1
    BY <1>1, <1>4 DEF Follows
  <2>2. taken.pulse = k - 1
    <3>1. taken.pulse \in Nat
      BY DEF NecInv, RingInv, PulseEvent
    <3> QED BY <2>1, <3>1
  <2>3. InStep(sent, taken, at, i, val)
    BY DEF NecInv, ReadInv
  <2> QED BY <2>1, <2>2, <2>3 DEF InStep
<1> QED BY <1>2, <1>3, <1>4

\* A return without a result is right where the frame is not decided.
LEMMA FailKeeps ==
  ASSUME NecInv, Events!Get, UNCHANGED remote,
         Return(Failure),
         Good(sent, taken'.frame) =>
           /\ WaitsAt(sent[taken'.frame].message, taken'.pulse) = "head"
           /\ taken'.pulse # Deciding(sent[taken'.frame].message)
  PROVE  NecInv'
<1>1. /\ at' = "head" /\ i' = 0 /\ val' = NoBits
      /\ got' = [got EXCEPT ![taken'.frame] = got[taken'.frame] \o <<>>]
  BY DEF Return, Failure
<1>2. <<>> \in Seq(Results)
  BY EmptySeq
<1>3. 0 \in 0 .. Bits - 1 /\ NoBits \in [0 .. Bits - 1 -> 0 .. 1]
  BY NecAssumption DEF Bits, NoBits
<1>4. InStep(sent, taken', at', i', val')
  BY <1>1 DEF InStep
<1> QED BY <1>1, <1>2, <1>3, <1>4, GetKeeps

\* Going on in the frame.
LEMMA GotoKeeps ==
  ASSUME NecInv, Events!Get, UNCHANGED remote,
         NEW l \in {"second", "low", "high"}, Goto(l),
         l = "second" => at = "head",
         Good(sent, taken'.frame) =>
           taken'.pulse # Deciding(sent[taken'.frame].message),
         InStep(sent, taken', l, i, val)
  PROVE  NecInv'
<1>1. at' = l /\ i' = i /\ val' = val /\ got' = got
  BY DEF Goto
<1>2. <<>> \in Seq(Results)
  BY EmptySeq
<1>3. got' = [got EXCEPT ![taken'.frame] = got[taken'.frame] \o <<>>]
  <2>1. got \in [0 .. MaxFrames -> Seq(Results)]
    BY DEF NecInv, GotInv
  <2>2. taken'.frame \in 0 .. MaxFrames
    BY GetRing DEF NecInv, PulseEvent
  <2>3. got[taken'.frame] \o <<>> = got[taken'.frame]
    BY <2>1, <2>2, ConcatEmptySeq
  <2> QED BY <1>1, <2>1, <2>2, <2>3
<1>4. /\ i \in 0 .. Bits - 1 /\ val \in [0 .. Bits - 1 -> 0 .. 1]
      /\ at = "head" => i = 0 /\ val = NoBits
  BY DEF NecInv, ReadInv
<1> QED BY <1>1, <1>2, <1>3, <1>4, GetKeeps

\* WaitsAt pulse by pulse.
LEMMA WaitsAtCases ==
  ASSUME NEW m \in Messages, NEW p \in 0 .. LastPulse(m)
  PROVE  /\ p = 0 => WaitsAt(m, p) = "head"
         /\ p = 1 <=> WaitsAt(m, p) = "second"
         /\ WaitsAt(m, p) = "low" <=>
              ~m.repeat /\ p \in 2 .. 2 * Bits + 1 /\ p % 2 = 0
         /\ WaitsAt(m, p) = "high" <=>
              ~m.repeat /\ p \in 2 .. 2 * Bits + 1 /\ p % 2 = 1
         /\ WaitsAt(m, p) = "head" <=>
              p = 0 \/ (p >= 2 /\ (m.repeat \/ p >= 2 * Bits + 2))
<1>1. Bits \in Nat \ {0} /\ LastPulse(m) \in 3 .. 2 * Bits + 3
  BY LastPulseType
<1>2. p \in Nat /\ (p % 2 = 0 \/ p % 2 = 1)
  BY <1>1
<1>3. m.repeat \in BOOLEAN
  BY DecidingType
<1> HIDE DEF Bits
<1> QED BY <1>1, <1>2, <1>3 DEF WaitsAt

\* The head pulse.
LEMMA HeadKeeps ==
  ASSUME ClocksInMargin, NecInv, WaitHead
  PROVE  NecInv'
<1> DEFINE m == sent[taken'.frame].message
           k == taken'.pulse
<1>1. at = "head" /\ Events!Get /\ UNCHANGED remote
  BY DEF WaitHead
<1>2. ASSUME Good(sent, taken'.frame)
      PROVE  /\ m \in Messages /\ k \in 0 .. LastPulse(m)
             /\ k # 0 => WaitsAt(m, k - 1) = "head"
             /\ Is(0, DURATION_HEAD_LOW) <=> k = 1
             /\ Deciding(m) >= 2 /\ Deciding(m) \in Nat /\ k \in Nat
             /\ LastPulse(m) \in Nat /\ Bits \in Nat
             /\ m.repeat \in BOOLEAN
             /\ Deciding(m) = IF m.repeat THEN 2 ELSE 2 * Bits + 2
  <2>1. /\ m \in Messages /\ m.repeat \in BOOLEAN /\ k \in 0 .. LastPulse(m)
        /\ k # 0 => WaitsAt(m, k - 1) = "head"
    BY <1>1, <1>2, PulseBefore
  <2>2. Is(0, DURATION_HEAD_LOW) <=> k = 1
    BY <1>1, <1>2, GetRing, Reads DEF NecInv
  <2> HIDE DEF m, k
  <2>3. /\ Deciding(m) >= 2 /\ Deciding(m) \in Nat
        /\ Deciding(m) = IF m.repeat THEN 2 ELSE 2 * Bits + 2
    BY <2>1, DecidingType
  <2>4. LastPulse(m) \in 3 .. 2 * Bits + 3 /\ Bits \in Nat
    BY LastPulseType
  <2> QED BY <2>1, <2>2, <2>3, <2>4
<1> HIDE DEF m, k
<1>3. CASE Is(0, DURATION_HEAD_LOW)
  <2>1. Goto("second")
    BY <1>3 DEF WaitHead
  <2>2. ASSUME Good(sent, taken'.frame)
        PROVE  k # Deciding(m) /\ WaitsAt(m, k) = "second"
    BY <1>2, <1>3, <2>2, WaitsAtCases
  <2>3. InStep(sent, taken', "second", i, val)
    BY <2>2 DEF InStep, m, k
  <2>4. "second" \in {"second", "low", "high"}
    OBVIOUS
  <2> QED BY <1>1, <2>1, <2>2, <2>3, <2>4, GotoKeeps DEF m, k
<1>4. CASE ~Is(0, DURATION_HEAD_LOW)
  <2>1. Return(Failure)
    BY <1>4 DEF WaitHead
  <2>2. ASSUME Good(sent, taken'.frame)
        PROVE  k # Deciding(m) /\ WaitsAt(m, k) = "head"
    <3>1. k # 1
      BY <1>2, <1>4, <2>2
    <3>2. CASE k = 0
      BY <1>2, <2>2, <3>2, WaitsAtCases
    <3>3. CASE k # 0
      <4> DEFINE p == k - 1
      <4>1. p \in 0 .. LastPulse(m) /\ WaitsAt(m, p) = "head" /\ k = p + 1
        BY <1>2, <2>2, <3>3
      <4> HIDE DEF p
      <4>2. p = 0 \/ (p >= 2 /\ (m.repeat \/ p >= 2 * Bits + 2))
        BY <1>2, <2>2, <4>1, WaitsAtCases
      <4>3. k >= 2 /\ (m.repeat \/ k >= 2 * Bits + 2) /\ k # Deciding(m)
        BY <1>2, <2>2, <3>1, <4>1, <4>2
      <4> QED BY <1>2, <2>2, <4>3, WaitsAtCases
    <3> QED BY <3>2, <3>3
  <2> QED BY <1>1, <2>1, <2>2, FailKeeps DEF m, k
<1> QED BY <1>3, <1>4

\* The pulse that tells a repeat code from a key.
LEMMA SecondKeeps ==
  ASSUME ClocksInMargin, NecInv, SecondPulse
  PROVE  NecInv'
<1> DEFINE m == sent[taken'.frame].message
           k == taken'.pulse
<1>1. at = "second" /\ Events!Get /\ UNCHANGED remote
  BY DEF SecondPulse
<1>2. ASSUME Good(sent, taken'.frame)
      PROVE  /\ m \in Messages /\ k \in 0 .. LastPulse(m) /\ (k = 0 \/ k = 2)
             /\ Is(1, DURATION_HEAD_HIGH) <=> k = 2 /\ ~m.repeat
             /\ Is(1, DURATION_REPEAT_HIGH) <=> k = 2 /\ m.repeat
             /\ Bits \in Nat \ {0}
             /\ m.repeat \in BOOLEAN
             /\ Deciding(m) = IF m.repeat THEN 2 ELSE 2 * Bits + 2
  <2>1. /\ m \in Messages /\ m.repeat \in BOOLEAN /\ k \in 0 .. LastPulse(m)
        /\ k # 0 => WaitsAt(m, k - 1) = "second"
    BY <1>1, <1>2, PulseBefore
  <2>2. /\ Is(1, DURATION_HEAD_HIGH) <=> k = 2 /\ ~m.repeat
        /\ Is(1, DURATION_REPEAT_HIGH) <=> k = 2 /\ m.repeat
    BY <1>1, <1>2, GetRing, Reads DEF NecInv
  <2> HIDE DEF m, k
  <2>3. Deciding(m) = IF m.repeat THEN 2 ELSE 2 * Bits + 2
    BY <2>1, DecidingType
  <2>4. LastPulse(m) \in 3 .. 2 * Bits + 3 /\ Bits \in Nat \ {0}
    BY LastPulseType
  <2>5. k = 0 \/ k = 2
    <3> DEFINE p == k - 1
    <3>1. k # 0 => p \in 0 .. LastPulse(m) /\ WaitsAt(m, p) = "second"
      BY <2>1, <2>4
    <3>2. k # 0 => p = 1
      <4> HIDE DEF p
      <4> QED BY <2>1, <3>1, WaitsAtCases
    <3> QED BY <2>1, <2>4, <3>2
  <2> QED BY <2>1, <2>2, <2>3, <2>4, <2>5
<1> HIDE DEF m, k
<1>3. i = 0 /\ val = NoBits
  BY <1>1 DEF NecInv, ReadInv
<1>4. CASE Goto("low") /\ Is(1, DURATION_HEAD_HIGH)
  <2>1. ASSUME Good(sent, taken'.frame)
        PROVE  /\ k # Deciding(m) /\ WaitsAt(m, k) = "low"
               /\ i = (k - 2) \div 2 /\ BitsRead(m, i, val)
    <3>1. k = 2 /\ ~m.repeat
      BY <1>2, <1>4, <2>1
    <3>2. k # Deciding(m)
      <4>1. Deciding(m) = 2 * Bits + 2
        BY <1>2, <2>1, <3>1
      <4>2. Bits \in Nat \ {0}
        BY <1>2, <2>1
      <4> QED BY <3>1, <4>1, <4>2
    <3>3. WaitsAt(m, k) = "low"
      BY <1>2, <2>1, <3>1, WaitsAtCases
    <3>4. i = (k - 2) \div 2
      BY <1>3, <3>1
    <3>5. BitsRead(m, i, val)
      BY <1>3 DEF BitsRead, NoBits
    <3> QED BY <3>2, <3>3, <3>4, <3>5
  <2>2. InStep(sent, taken', "low", i, val)
    BY <2>1 DEF InStep, m, k
  <2>3. "low" \in {"second", "low", "high"}
    OBVIOUS
  <2> QED BY <1>1, <1>4, <2>1, <2>2, <2>3, GotoKeeps DEF m, k
<1>5. CASE Return(Repeat) /\ Is(1, DURATION_REPEAT_HIGH)
  <2>1. ASSUME Good(sent, taken'.frame)
        PROVE  /\ k = Deciding(m) /\ WaitsAt(m, k) = "head"
               /\ Result(m) = Repeat
    BY <1>2, <1>5, <2>1, WaitsAtCases DEF Result
  <2>2. InStep(sent, taken', at', i', val')
    BY <1>5, <2>1 DEF InStep, Return, m, k
  <2>3. Repeat \in Seq(Results)
    <3>1. [ret |-> 1] \in Results
      BY DEF Results
    <3> QED BY <3>1 DEF Repeat
  <2>4. /\ at' = "head" /\ i' = 0 /\ val' = NoBits
        /\ got' = [got EXCEPT ![taken'.frame] = got[taken'.frame] \o Repeat]
    BY <1>5 DEF Return
  <2>5. 0 \in 0 .. Bits - 1 /\ NoBits \in [0 .. Bits - 1 -> 0 .. 1]
    BY NecAssumption DEF Bits, NoBits
  <2> QED BY <1>1, <2>1, <2>2, <2>3, <2>4, <2>5, GetKeeps DEF m, k
<1>6. CASE /\ Return(Failure)
           /\ ~Is(1, DURATION_HEAD_HIGH) /\ ~Is(1, DURATION_REPEAT_HIGH)
  <2>1. ASSUME Good(sent, taken'.frame)
        PROVE  k # Deciding(m) /\ WaitsAt(m, k) = "head"
    <3>1. k = 0
      BY <1>2, <1>6, <2>1
    <3> QED BY <1>2, <2>1, <3>1, WaitsAtCases
  <2> QED BY <1>1, <1>6, <2>1, FailKeeps DEF m, k
<1> QED BY <1>4, <1>5, <1>6 DEF SecondPulse

\* The low pulse of a bit.
LEMMA LowKeeps ==
  ASSUME ClocksInMargin, NecInv, DataLow
  PROVE  NecInv'
<1> DEFINE m == sent[taken'.frame].message
           k == taken'.pulse
<1>1. at = "low" /\ Events!Get /\ UNCHANGED remote
  BY DEF DataLow
<1>2. ASSUME Good(sent, taken'.frame)
      PROVE  /\ m \in Messages /\ k \in 0 .. LastPulse(m) /\ k \in Nat
             /\ Is(0, DURATION_DATA_LOW) <=> k > 2 /\ k % 2 = 1
             /\ Bits \in Nat \ {0}
             /\ m.repeat \in BOOLEAN
             /\ Deciding(m) = IF m.repeat THEN 2 ELSE 2 * Bits + 2
             /\ k # 0 => /\ ~m.repeat /\ k \in 3 .. 2 * Bits + 1 /\ k % 2 = 1
                         /\ i = (k - 2) \div 2
                         /\ BitsRead(m, i, val)
  <2>1. /\ m \in Messages /\ m.repeat \in BOOLEAN /\ k \in 0 .. LastPulse(m)
        /\ k # 0 => /\ WaitsAt(m, k - 1) = "low"
                    /\ i = ((k - 1) - 2) \div 2 /\ BitsRead(m, i, val)
    BY <1>1, <1>2, PulseBefore
  <2>2. Is(0, DURATION_DATA_LOW) <=> k > 2 /\ k % 2 = 1
    BY <1>1, <1>2, GetRing, Reads DEF NecInv
  <2> HIDE DEF m, k
  <2>3. Deciding(m) = IF m.repeat THEN 2 ELSE 2 * Bits + 2
    BY <2>1, DecidingType
  <2>4. /\ LastPulse(m) \in 3 .. 2 * Bits + 3 /\ Bits \in Nat \ {0}
        /\ k \in Nat
    <3>1. LastPulse(m) \in 3 .. 2 * Bits + 3 /\ Bits \in Nat \ {0}
      BY LastPulseType
    <3> QED BY <2>1, <3>1
  <2>5. ASSUME k # 0
        PROVE  /\ ~m.repeat /\ k \in 3 .. 2 * Bits + 1 /\ k % 2 = 1
               /\ i = (k - 2) \div 2
    <3> DEFINE p == k - 1
    <3>1. /\ p \in 0 .. LastPulse(m) /\ p \in Nat
          /\ WaitsAt(m, p) = "low" /\ k = p + 1
      BY <2>1, <2>4, <2>5
    <3>2. i = (p - 2) \div 2
      BY <2>1, <2>5
    <3> HIDE DEF p
    <3>3. ~m.repeat /\ p \in 2 .. 2 * Bits + 1 /\ p % 2 = 0
      BY <2>1, <3>1, WaitsAtCases
    <3>4. k % 2 = 1 /\ (k - 2) \div 2 = (p - 2) \div 2
      BY <3>1, <3>3
    <3>5. p # 2 * Bits + 1
      BY <2>4, <3>3
    <3> QED BY <2>4, <3>1, <3>2, <3>3, <3>4, <3>5
  <2> QED BY <2>1, <2>2, <2>3, <2>4, <2>5
<1> HIDE DEF m, k
<1>3. CASE Is(0, DURATION_DATA_LOW)
  <2>1. Goto("high")
    BY <1>3 DEF DataLow
  <2>2. ASSUME Good(sent, taken'.frame)
        PROVE  /\ k # Deciding(m) /\ WaitsAt(m, k) = "high"
               /\ i = (k - 2) \div 2 /\ BitsRead(m, i, val)
    <3>1. k # 0
      BY <1>2, <1>3, <2>2
    <3>2. k # Deciding(m)
      BY <1>2, <2>2, <3>1
    <3>3. WaitsAt(m, k) = "high"
      BY <1>2, <2>2, <3>1, WaitsAtCases
    <3> QED BY <1>2, <2>2, <3>1, <3>2, <3>3
  <2>3. InStep(sent, taken', "high", i, val)
    BY <2>2 DEF InStep, m, k
  <2>4. "high" \in {"second", "low", "high"} /\ "high" # "second"
    OBVIOUS
  <2> QED BY <1>1, <2>1, <2>2, <2>3, <2>4, GotoKeeps DEF m, k
<1>4. CASE ~Is(0, DURATION_DATA_LOW)
  <2>1. Return(Failure)
    BY <1>4 DEF DataLow
  <2>2. ASSUME Good(sent, taken'.frame)
        PROVE  k # Deciding(m) /\ WaitsAt(m, k) = "head"
    <3>1. k = 0
      BY <1>2, <1>4, <2>2
    <3> QED BY <1>2, <2>2, <3>1, WaitsAtCases
  <2> QED BY <1>1, <2>1, <2>2, FailKeeps DEF m, k
<1> QED BY <1>3, <1>4

\* A bit, stored in a val that holds those before it.
LEMMA BitStored ==
  ASSUME NEW m, NEW v \in [0 .. Bits - 1 -> 0 .. 1],
         NEW n \in 0 .. Bits - 1, BitsRead(m, n, v),
         NEW b \in {0, 1}, FrameBit(m, n) = b
  PROVE  LET w == IF b = 1 THEN [v EXCEPT ![n] = 1] ELSE v
         IN w \in [0 .. Bits - 1 -> 0 .. 1] /\ BitsRead(m, n + 1, w)
<1> DEFINE w == IF b = 1 THEN [v EXCEPT ![n] = 1] ELSE v
<1>1. Bits \in Nat
  BY NecAssumption DEF Bits
<1> HIDE DEF Bits
<1>2. \A j \in 0 .. Bits - 1 : v[j] = IF j < n THEN FrameBit(m, j) ELSE 0
  BY DEF BitsRead
<1>3. /\ w \in [0 .. Bits - 1 -> 0 .. 1]
      /\ \A j \in 0 .. Bits - 1 : w[j] = IF j = n /\ b = 1 THEN 1 ELSE v[j]
  <2>1. CASE b = 1
    BY <2>1
  <2>2. CASE b = 0
    BY <2>2
  <2> QED BY <2>1, <2>2
<1> HIDE DEF w
<1>4. ASSUME NEW j \in 0 .. Bits - 1
      PROVE  w[j] = IF j < n + 1 THEN FrameBit(m, j) ELSE 0
  <2>1. CASE j = n
    <3>1. w[j] = b
      <4>1. CASE b = 1
        BY <1>3, <2>1, <4>1
      <4>2. CASE b = 0
        <5>1. ~(j < n)
          BY <1>1, <2>1
        <5>2. b # 1
          BY <4>2
        <5> QED BY <1>2, <1>3, <4>2, <5>1, <5>2
      <4> QED BY <4>1, <4>2
    <3>2. j < n + 1
      BY <1>1, <2>1
    <3> QED BY <2>1, <3>1, <3>2
  <2>2. CASE j # n
    <3>1. w[j] = v[j]
      BY <1>3, <2>2
    <3>2. j < n + 1 <=> j < n
      BY <1>1, <2>2
    <3> QED BY <1>2, <3>1, <3>2
  <2> QED BY <2>1, <2>2
<1>5. BitsRead(m, n + 1, w)
  BY <1>4 DEF BitsRead
<1> QED BY <1>3, <1>5 DEF w

\* The high pulse of a bit, the last one with the result.
LEMMA HighKeeps ==
  ASSUME ClocksInMargin, NecInv, DataHigh
  PROVE  NecInv'
<1> DEFINE m == sent[taken'.frame].message
           k == taken'.pulse
<1>1. at = "high" /\ Events!Get /\ UNCHANGED remote
  BY DEF DataHigh
<1>2. /\ i \in 0 .. Bits - 1 /\ val \in [0 .. Bits - 1 -> 0 .. 1]
      /\ Bits \in Nat \ {0} /\ got \in [0 .. MaxFrames -> Seq(Results)]
      /\ taken'.frame \in 0 .. MaxFrames
  <2>1. Bits \in Nat \ {0}
    BY NecAssumption DEF Bits
  <2>2. taken'.frame \in 0 .. MaxFrames
    BY <1>1, GetRing DEF NecInv, PulseEvent
  <2> QED BY <2>1, <2>2 DEF NecInv, ReadInv, GotInv
<1>3. ASSUME Good(sent, taken'.frame)
      PROVE  /\ m \in Messages /\ k \in 0 .. LastPulse(m) /\ k \in Nat
             /\ Is(1, DURATION_DATA1_HIGH) \/ Is(1, DURATION_DATA0_HIGH)
                  => k # 0
             /\ k # 0 => /\ m.repeat = FALSE /\ k = 2 * i + 4
                         /\ Is(1, DURATION_DATA1_HIGH) => FrameBit(m, i) = 1
                         /\ Is(1, DURATION_DATA0_HIGH) => FrameBit(m, i) = 0
                         /\ \/ Is(1, DURATION_DATA1_HIGH)
                            \/ Is(1, DURATION_DATA0_HIGH)
                         /\ BitsRead(m, i, val)
                         /\ Deciding(m) = 2 * Bits + 2
  <2>1. /\ m \in Messages /\ m.repeat \in BOOLEAN /\ k \in 0 .. LastPulse(m)
        /\ k # 0 => /\ WaitsAt(m, k - 1) = "high"
                    /\ i = ((k - 1) - 2) \div 2 /\ BitsRead(m, i, val)
    BY <1>1, <1>3, PulseBefore
  <2>2. /\ Is(1, DURATION_DATA1_HIGH) <=>
             k > 2 /\ k % 2 = 0 /\ FrameBit(m, (k - 4) \div 2) = 1
        /\ Is(1, DURATION_DATA0_HIGH) <=>
             k > 2 /\ k % 2 = 0 /\ FrameBit(m, (k - 4) \div 2) # 1
    BY <1>1, <1>3, GetRing, Reads DEF NecInv
  <2> HIDE DEF m, k
  <2>3. k \in Nat
    <3>1. LastPulse(m) \in 3 .. 2 * Bits + 3
      BY LastPulseType
    <3> QED BY <1>2, <2>1, <3>1
  <2>4. Is(1, DURATION_DATA1_HIGH) \/ Is(1, DURATION_DATA0_HIGH)
          => k # 0
    BY <2>2, <2>3
  <2>5. ASSUME k # 0
        PROVE  /\ m.repeat = FALSE /\ k = 2 * i + 4
               /\ k > 2 /\ k % 2 = 0 /\ (k - 4) \div 2 = i
               /\ Deciding(m) = 2 * Bits + 2
    <3> DEFINE p == k - 1
    <3>1. /\ p \in 0 .. LastPulse(m) /\ p \in Nat
          /\ WaitsAt(m, p) = "high" /\ k = p + 1
      <4>1. LastPulse(m) \in 3 .. 2 * Bits + 3
        BY LastPulseType
      <4> QED BY <1>2, <2>1, <2>3, <2>5, <4>1
    <3>2. i = (p - 2) \div 2
      BY <2>1, <2>5
    <3> HIDE DEF p
    <3>3. ~m.repeat /\ p \in 2 .. 2 * Bits + 1 /\ p % 2 = 1
      BY <2>1, <3>1, WaitsAtCases
    <3>4. p >= 2 /\ k = 2 * i + 4 /\ k > 2 /\ k % 2 = 0 /\ (k - 4) \div 2 = i
      BY <3>1, <3>2, <3>3
    <3>5. Deciding(m) = 2 * Bits + 2 /\ m.repeat = FALSE
      BY <2>1, <3>3, DecidingType
    <3> QED BY <3>4, <3>5
  <2>6. FrameBit(m, i) \in 0 .. 1
    BY <1>2, <2>1, FrameBits
  <2>7. ASSUME k # 0
        PROVE  /\ Is(1, DURATION_DATA1_HIGH) <=> FrameBit(m, i) = 1
               /\ Is(1, DURATION_DATA0_HIGH) <=> FrameBit(m, i) # 1
    BY <2>2, <2>5, <2>7
  <2>8. FrameBit(m, i) # 1 => FrameBit(m, i) = 0
    BY <2>6
  <2> QED BY <2>1, <2>3, <2>4, <2>5, <2>7, <2>8
<1> HIDE DEF m, k
<1>4. ASSUME NEW b \in {0, 1}, StoreBit(b),
             b = 1 => Is(1, DURATION_DATA1_HIGH),
             b = 0 => Is(1, DURATION_DATA0_HIGH)
      PROVE  NecInv'
  <2> DEFINE v == IF b = 1 THEN [val EXCEPT ![i] = 1] ELSE val
  <2>1. \/ LastBit /\ Return(Decoded(v))
        \/ ~LastBit /\ at' = "low" /\ i' = i + 1 /\ val' = v /\ UNCHANGED got
    BY <1>4 DEF StoreBit
  <2>2. v \in [0 .. Bits - 1 -> 0 .. 1]
    <3>1. CASE b = 1
      BY <1>2, <3>1
    <3>2. CASE b = 0
      BY <1>2, <3>2
    <3> QED BY <3>1, <3>2
  <2>3. ASSUME Good(sent, taken'.frame)
        PROVE  /\ m \in Messages /\ m.repeat = FALSE /\ k = 2 * i + 4
               /\ BitsRead(m, i + 1, v) /\ Deciding(m) = 2 * Bits + 2
               /\ k \in 0 .. LastPulse(m)
    <3>1. k # 0
      BY <1>3, <1>4, <2>3
    <3>2. FrameBit(m, i) = b /\ BitsRead(m, i, val)
      BY <1>3, <1>4, <2>3, <3>1
    <3>3. BitsRead(m, i + 1, v)
      BY <1>2, <3>2, BitStored
    <3> QED BY <1>3, <2>3, <3>1, <3>3
  <2> HIDE DEF v
  <2>4. CASE LastBit /\ Return(Decoded(v))
    <3>1. /\ at' = "head" /\ i' = 0 /\ val' = NoBits
          /\ got' = [got EXCEPT ![taken'.frame] = got[taken'.frame] \o Decoded(v)]
      BY <2>4 DEF Return
    <3>2. Decoded(v) \in Seq(Results)
      BY <2>2, DecodedType
    <3>3. ASSUME Good(sent, taken'.frame)
          PROVE  /\ k = Deciding(m) /\ WaitsAt(m, k) = "head"
                 /\ Decoded(v) = Result(m)
      <4>1. i + 1 = Bits
        BY <1>2, <2>4 DEF LastBit
      <4>2. k = Deciding(m) /\ k >= 2 * Bits + 2 /\ k >= 2
        BY <1>2, <2>3, <3>3, <4>1
      <4>3. Decoded(v) = Result(m)
        BY <2>3, <3>3, <4>1, DecodedFrame
      <4>4. WaitsAt(m, k) = "head"
        BY <2>3, <3>3, <4>2, WaitsAtCases
      <4> QED BY <4>2, <4>3, <4>4
    <3>4. InStep(sent, taken', at', i', val')
      BY <3>1, <3>3 DEF InStep, m, k
    <3>5. 0 \in 0 .. Bits - 1 /\ NoBits \in [0 .. Bits - 1 -> 0 .. 1]
      BY NecAssumption DEF Bits, NoBits
    <3> QED BY <1>1, <3>1, <3>2, <3>3, <3>4, <3>5, GetKeeps DEF m, k
  <2>5. CASE ~LastBit /\ at' = "low" /\ i' = i + 1 /\ val' = v /\ UNCHANGED got
    <3>1. i' \in 0 .. Bits - 1
      BY <1>2, <2>5 DEF LastBit
    <3>2. got' = [got EXCEPT ![taken'.frame] = got[taken'.frame] \o <<>>]
      <4>1. got[taken'.frame] \o <<>> = got[taken'.frame]
        BY <1>2, ConcatEmptySeq
      <4> QED BY <1>2, <2>5, <4>1
    <3>3. ASSUME Good(sent, taken'.frame)
          PROVE  /\ k # Deciding(m) /\ WaitsAt(m, k) = "low"
                 /\ i' = (k - 2) \div 2 /\ BitsRead(m, i', val')
      <4>1. k = 2 * i' + 2 /\ i' <= Bits - 1 /\ i' \in Nat /\ i' >= 1
        BY <1>2, <2>3, <2>5, <3>1, <3>3
      <4>2. \A x, y \in Nat : x <= y - 1 =>
              /\ 2 * x + 2 # 2 * y + 2
              /\ 2 * x + 2 \in 2 .. 2 * y + 1
              /\ (2 * x + 2) % 2 = 0
              /\ x = ((2 * x + 2) - 2) \div 2
        OBVIOUS
      <4>3. Bits \in Nat
        BY NecAssumption DEF Bits
      <4>4. /\ k # 2 * Bits + 2 /\ k \in 2 .. 2 * Bits + 1 /\ k % 2 = 0
            /\ i' = (k - 2) \div 2
        BY <4>1, <4>2, <4>3
      <4>5. WaitsAt(m, k) = "low"
        BY <2>3, <3>3, <4>4, WaitsAtCases
      <4> QED BY <2>3, <2>5, <3>3, <4>4, <4>5
    <3>4. InStep(sent, taken', at', i', val')
      BY <2>5, <3>3 DEF InStep, m, k
    <3>5. <<>> \in Seq(Results)
      BY EmptySeq
    <3> QED BY <1>1, <2>2, <2>5, <3>1, <3>2, <3>3, <3>4, <3>5, GetKeeps DEF m, k
  <2> QED BY <2>1, <2>4, <2>5
<1>5. CASE Is(1, DURATION_DATA1_HIGH) /\ StoreBit(1)
  <2>1. 1 \in {0, 1} /\ 1 # 0
    OBVIOUS
  <2> QED BY <1>4, <1>5, <2>1
<1>6. CASE Is(1, DURATION_DATA0_HIGH) /\ StoreBit(0)
  <2>1. 0 \in {0, 1} /\ 1 # 0
    OBVIOUS
  <2> QED BY <1>4, <1>6, <2>1
<1>7. CASE /\ ~Is(1, DURATION_DATA1_HIGH) /\ ~Is(1, DURATION_DATA0_HIGH)
           /\ Return(Failure)
  <2>1. ASSUME Good(sent, taken'.frame)
        PROVE  k # Deciding(m) /\ WaitsAt(m, k) = "head"
    <3>1. k = 0 /\ m \in Messages /\ k \in 0 .. LastPulse(m)
      BY <1>3, <1>7, <2>1
    <3>2. Deciding(m) >= 2 /\ Deciding(m) \in Nat
      BY <3>1, DecidingType
    <3> QED BY <3>1, <3>2, WaitsAtCases
  <2> QED BY <1>1, <1>7, <2>1, FailKeeps DEF m, k
<1> QED BY <1>5, <1>6, <1>7 DEF DataHigh

\* A timeout finds no whole frame half read: of such a frame either more pulses
\* are to come or all of them have been read.
LEMMA TimeoutKeeps ==
  ASSUME NecInv, SecondTimeout \/ DataTimeout
  PROVE  NecInv'
<1>1. /\ queue = <<>> /\ pos = 0 /\ at \in {"second", "low", "high"}
      /\ UNCHANGED <<sent, pos, queue, taken>>
  BY DEF SecondTimeout, DataTimeout, TimesOut, Silent,
         remote, ring
<1>2. /\ taken \in PulseEvent /\ Newest(sent, pos, taken) /\ Faithful(sent, taken)
      /\ sent \in Seq(Frames) /\ InStep(sent, taken, at, i, val)
      /\ taken.frame \in 0 .. MaxFrames
  <2>1. Len(queue) = 0 /\ 0 \in 0 .. Len(queue) /\ At(taken, queue, 0) = taken
    BY <1>1, EmptySeq DEF At
  <2>2. taken \in PulseEvent /\ Newest(sent, pos, taken) /\ Faithful(sent, taken)
    BY <2>1 DEF NecInv, RingInv, EventsOK
  <2> QED BY <2>2 DEF NecInv, RingInv, ReadInv, PulseEvent
<1>3. ~Good(sent, taken.frame)
  <2>1. SUFFICES ASSUME Good(sent, taken.frame) PROVE FALSE
    OBVIOUS
  <2> DEFINE m == sent[taken.frame].message
             k == taken.pulse
  <2>2. m \in Messages
    <3>1. sent[taken.frame] \in Frames
      BY <1>2, <2>1, ElementOfSeq DEF Good
    <3> QED BY <3>1 DEF Frames
  <2>3. k = LastPulse(m) /\ at = WaitsAt(m, k) /\ k \in 0 .. LastPulse(m)
    BY <1>1, <1>2, <2>1 DEF Newest, InStep, Faithful
  <2> HIDE DEF m, k
  <2>4. /\ m.repeat \in BOOLEAN /\ Bits \in Nat \ {0}
        /\ LastPulse(m) \in 3 .. 2 * Bits + 3
        /\ m.repeat = FALSE => LastPulse(m) = 2 * Bits + 3
    BY <2>2, DecidingType, LastPulseType
  <2>5. k >= 2 /\ (m.repeat \/ k >= 2 * Bits + 2)
    <3>1. CASE m.repeat = TRUE
      BY <2>3, <2>4, <3>1
    <3>2. CASE m.repeat = FALSE
      BY <2>3, <2>4, <3>2
    <3> QED BY <2>4, <3>1, <3>2
  <2>6. WaitsAt(m, k) = "head"
    BY <2>2, <2>3, <2>5, WaitsAtCases
  <2> QED BY <1>1, <2>3, <2>6
<1>4. /\ got \in [0 .. MaxFrames -> Seq(Results)]
      /\ i \in 0 .. Bits - 1 /\ val \in [0 .. Bits - 1 -> 0 .. 1]
      /\ at = "second" => i = 0 /\ val = NoBits
  BY DEF NecInv, GotInv, ReadInv
<1>5. /\ at' = "head" /\ i' = 0 /\ val' = NoBits /\ got' = got
  <2>1. CASE SecondTimeout
    BY <1>4, <2>1 DEF SecondTimeout, Goto
  <2>2. CASE DataTimeout
    <3>1. got[taken.frame] \o <<>> = got[taken.frame]
      BY <1>2, <1>4, ConcatEmptySeq
    <3> QED BY <1>1, <1>2, <1>4, <2>2, <3>1
            DEF DataTimeout, Return, Failure
  <2> QED BY <2>1, <2>2
<1>6. ReadInv'
  <2>1. 0 \in 0 .. Bits - 1 /\ NoBits \in [0 .. Bits - 1 -> 0 .. 1]
    BY NecAssumption DEF Bits, NoBits
  <2>2. InStep(sent', taken', at', i', val')
    BY <1>1, <1>3 DEF InStep
  <2> QED BY <1>5, <2>1, <2>2 DEF ReadInv
<1>7. RingInv'
  BY <1>1 DEF NecInv, RingInv
<1>8. GotInv'
  <2>1. \A f : Taken(f)' <=> Taken(f)
    BY <1>1 DEF Taken
  <2> QED BY <1>1, <1>5, <2>1 DEF NecInv, GotInv, FrameOnce
<1> QED BY <1>6, <1>7, <1>8 DEF NecInv

\* Before the first frame.
LEMMA InitNecInv ==
  ASSUME NecInit
  PROVE  NecInv
<1>1. /\ sent = <<>> /\ pos = 0 /\ queue = <<>> /\ taken = Nothing
      /\ at = "head" /\ i = 0 /\ val = NoBits
      /\ got = [f \in 0 .. MaxFrames |-> <<>>]
  BY DEF NecInit
<1>2. /\ sent \in Seq(Frames) /\ Len(sent) = 0
      /\ queue \in Seq(PulseEvent) /\ Len(queue) = 0
  BY <1>1, EmptySeq
<1>3. MaxFrames \in Nat /\ Bits \in Nat \ {0}
  BY NecAssumption DEF Bits
<1>4. Nothing \in PulseEvent /\ Nothing.frame = 0
  BY <1>3 DEF Nothing, PulseEvent
<1>5. \A f : ~Good(sent, f)
  BY <1>2 DEF Good
<1>6. EventsOK(sent, taken, queue)
  <2>1. \A n \in 0 .. Len(queue) : At(taken, queue, n) = taken
    BY <1>2 DEF At
  <2> QED BY <1>1, <1>2, <1>4, <1>5, <2>1 DEF EventsOK, Faithful
<1>7. Newest(sent, pos, At(taken, queue, Len(queue)))
  BY <1>5 DEF Newest
<1>8. RingInv
  BY <1>1, <1>2, <1>3, <1>4, <1>6, <1>7 DEF RingInv
<1>9. ReadInv
  <2>1. 0 \in 0 .. Bits - 1 /\ NoBits \in [0 .. Bits - 1 -> 0 .. 1]
    BY <1>3 DEF NoBits
  <2> QED BY <1>1, <1>5, <2>1 DEF ReadInv, InStep
<1>10. GotInv
  <2>1. <<>> \in Seq(Results)
    BY EmptySeq
  <2>2. DOMAIN sent = {}
    BY <1>1
  <2> QED BY <1>1, <2>1, <2>2 DEF GotInv, FrameOnce
<1> QED BY <1>8, <1>9, <1>10 DEF NecInv

\* Every step keeps the decoder in step with the whole frames.
LEMMA StepNecInv ==
  ASSUME ClocksInMargin, NecInv, [NecNext]_necVars
  PROVE  NecInv'
<1>1. CASE StartFrame
  <2>1. UNCHANGED <<at, i, val, got>>
    BY <1>1 DEF StartFrame
  <2> QED BY <1>1, <2>1, StartRing, RemoteKeeps DEF NecInv
<1>2. CASE InFrame
  <2>1. UNCHANGED <<at, i, val, got>>
    BY <1>2 DEF InFrame, EndPulse, CutOff
  <2> QED BY <1>2, <2>1, PulseRing, CutRing, RemoteKeeps DEF NecInv, InFrame
<1>3. CASE irda_nec_read
  BY <1>3, HeadKeeps, SecondKeeps, LowKeeps, HighKeeps, TimeoutKeeps
     DEF irda_nec_read
<1>4. CASE UNCHANGED necVars
  <2>1. UNCHANGED <<sent, pos, queue, taken, at, i, val, got>>
    BY <1>4 DEF necVars, remote, ring
  <2>2. RingInv' /\ ReadInv'
    BY <2>1 DEF NecInv, RingInv, ReadInv
  <2>3. \A f : Taken(f)' <=> Taken(f)
    BY <2>1 DEF Taken
  <2>4. GotInv'
    BY <2>1, <2>3 DEF NecInv, GotInv, FrameOnce
  <2> QED BY <2>2, <2>4 DEF NecInv
<1> QED BY <1>1, <1>2, <1>3, <1>4 DEF NecNext

\* The invariant says what the runs check.
LEMMA NecInvImplies ==
  ASSUME NecInv
  PROVE  DecoderInv
<1>1. Bits \in Nat \ {0}
  BY NecAssumption DEF Bits
<1>2. pos \in 0 .. 2 * Bits + 3
  <2>1. pos \in Nat /\ (pos # 0 => pos <= LastPulse(sent[Len(sent)].message))
    BY DEF NecInv, RingInv
  <2>2. LastPulse(sent[Len(sent)].message) \in 3 .. 2 * Bits + 3
    BY LastPulseType
  <2> QED BY <1>1, <2>1, <2>2
<1>3. \A n \in DOMAIN queue : queue[n] \in PulseEvent
  BY DEF NecInv, RingInv
<1>4. \A f \in DOMAIN got : \A n \in DOMAIN got[f] : got[f][n].ret \in 0 .. 1
  <2>1. \A x \in Results : x.ret \in 0 .. 1
    BY DEF Results
  <2>2. ASSUME NEW f \in DOMAIN got, NEW n \in DOMAIN got[f]
        PROVE  got[f][n] \in Results
    BY DEF NecInv, GotInv
  <2> QED BY <2>1, <2>2
<1>5. NecTypeOK
  BY <1>2, <1>3, <1>4 DEF NecTypeOK, NecInv, RingInv, ReadInv
<1> QED BY <1>5 DEF DecoderInv, NecInv, GotInv

\* Whatever happened before it, a frame that arrives whole is returned exactly
\* once and unchanged by irda_nec_read (irda_nec.c:40-148), from any remote whose
\* clock is within the decoder's margin.
THEOREM WholeFramesReturned == ClocksInMargin /\ NecSpec => []DecoderInv
<1>1. SUFFICES ASSUME ClocksInMargin PROVE NecSpec => []DecoderInv
  OBVIOUS
<1>2. NecInit => NecInv
  BY InitNecInv
<1>3. NecInv /\ [NecNext]_necVars => NecInv'
  BY <1>1, StepNecInv
<1>4. NecInv => DecoderInv
  BY NecInvImplies
<1> QED BY <1>2, <1>3, <1>4, PTL DEF NecSpec

(***************************************************************************)
(* One fault.  DataIntact speaks of frames that did not arrive whole, so   *)
(* the invariant above is silent about them.  FaultInv names the pulse x   *)
(* that the fault hit (one beyond the frame while nothing has happened):   *)
(* every other event of the frame is exact, and only x can be missing.     *)
(* So after an event irda_nec_read either waits where that pulse leads,    *)
(* with no bit wrong but the one x carried, or it has come back to the     *)
(* head, and then nothing left of the frame looks like a head pulse.       *)
(***************************************************************************)
\* One fault at most in the frame, and none in the one before it.
OneFault(s, f) ==
  f \in 1 .. Len(s) /\ s[f].faults <= 1 /\ (f = 1 \/ Good(s, f - 1))

\* An event of frame f is what its pulse was, but for the width of pulse x.
Exact(m, f, x, e) ==
  e.frame = f =>
    /\ e.pulse <= LastPulse(m) /\ e.pol = (e.pulse + 1) % 2
    /\ e.pulse # x => e.duration = Width(m, e.pulse) + m.skew

\* The pulse of frame f that event e reports, -1 before the first one.
Reached(f, e) == IF e.frame = f THEN e.pulse ELSE -1

\* Pulse k comes after pulse p when none but x can be missing.
ComesAfter(x, p, k) == k = p + 1 \/ (k = p + 2 /\ x = p + 1)

\* The events of frame f from the one at hand to the newest.
FrameOK(m, f, x, o, q) ==
  /\ \A n \in 0 .. Len(q) : Exact(m, f, x, At(o, q, n))
  /\ \A n \in 0 .. Len(q) - 1 :
       At(o, q, n + 1).frame = f =>
         ComesAfter(x, Reached(f, At(o, q, n)), At(o, q, n + 1).pulse)

\* The newest of all events, z, while the remote is at pulse p of frame f, or
\* p = 0 and the frame is over.
NewestOK(m, f, x, p, z) ==
  IF p # 0 THEN ComesAfter(x, Reached(f, z), p)
  ELSE z.frame = f => z.pulse >= LastPulse(m) - 1 \/ x <= z.pulse

\* Where irda_nec_read is after pulse p, and which bits it has.
Placed(m, x, p, l, k, v) ==
  /\ l = "head" => p <= 0 \/ p >= x \/ p >= LastPulse(m) - 1
  /\ l = "second" => p = 1 \/ p = LastPulse(m)
  /\ l = "low" => p = 2 * k + 2
  /\ l = "high" => p = 2 * k + 3
  /\ l \in {"low", "high"} =>
       /\ m.repeat => p >= x
       /\ \A j \in 0 .. Bits - 1 :
            v[j] = (IF j < k THEN FrameBit(m, j) ELSE 0) \/ x = 2 * j + 4

\* A result that may be returned of a frame with message m.
RightData(m, r) == r.ret = 0 => ~m.repeat /\ r.data = m.data

\* Frame f of s, hit at pulse x, on its way from the remote at pulse p.
Hit(s, p, o, q, f, x) ==
  /\ s[f].faults = 0 => x > LastPulse(s[f].message)
  /\ FrameOK(s[f].message, f, x, o, q)
  /\ NewestOK(s[f].message, f, x, p, At(o, q, Len(q)))

\* The pulse of frame f that the remote is at, 0 when the frame is over.
PosIn(s, p, f) == IF f = Len(s) THEN p ELSE 0

\* Frame f, hit at pulse x, from the remote to the results.
Within(f, x) ==
  /\ Hit(sent, PosIn(sent, pos, f), taken, queue, f, x)
  /\ taken.frame = f => Placed(sent[f].message, x, taken.pulse, at, i, val)
  /\ \A n \in 1 .. Len(got[f]) : RightData(sent[f].message, got[f][n])

\* The inductive invariant, together with NecInv.
FaultInv ==
  /\ \A n \in 1 .. Len(queue) : queue[n].frame >= 1
  /\ taken.frame = 0 => at = "head"
  /\ \A f \in 1 .. Len(sent) : OneFault(sent, f) => \E x \in Int : Within(f, x)

\* The numbers of a message's pulses.
LEMMA PulseNumbers ==
  ASSUME NEW m
  PROVE  LastPulse(m) \in Nat /\ LastPulse(m) >= 3 /\ Bits \in Nat \ {0}
<1>1. Bits \in Nat \ {0} /\ LastPulse(m) \in 3 .. 2 * Bits + 3
  BY LastPulseType
<1> QED BY <1>1

\* A repeat code has fewer of them.
LEMMA RepeatOrNot ==
  ASSUME NEW m \in Messages
  PROVE  \/ m.repeat = TRUE /\ LastPulse(m) = 3
         \/ m.repeat = FALSE /\ LastPulse(m) = 2 * Bits + 3
<1>1. m.repeat \in BOOLEAN
  BY DecidingType
<1>2. CASE m.repeat = TRUE
  BY <1>2 DEF LastPulse
<1>3. CASE m.repeat = FALSE
  BY <1>3 DEF LastPulse
<1> QED BY <1>1, <1>2, <1>3

\* A frame that nothing has happened to fits every pulse the fault may hit.
LEMMA NotHitYet ==
  ASSUME NEW m \in Messages, NEW f, NEW x \in Int, x > LastPulse(m), NEW y \in Int,
         NEW o \in PulseEvent, NEW q \in Seq(PulseEvent), FrameOK(m, f, x, o, q)
  PROVE  FrameOK(m, f, y, o, q)
<1>1. LastPulse(m) \in Int /\ Len(q) \in Nat
  BY PulseNumbers
<1>2. \A n \in 0 .. Len(q) : At(o, q, n) \in PulseEvent
  BY DEF At
<1>3. \A e \in PulseEvent : e.frame \in Int /\ e.pulse \in Nat
  BY LastPulseType DEF PulseEvent
<1>4. ASSUME NEW e \in PulseEvent, Exact(m, f, x, e)
      PROVE  Exact(m, f, y, e)
  BY <1>1, <1>3, <1>4 DEF Exact
<1>5. ASSUME NEW a \in PulseEvent, NEW b \in PulseEvent, Exact(m, f, x, b),
             b.frame = f, ComesAfter(x, Reached(f, a), b.pulse)
      PROVE  ComesAfter(y, Reached(f, a), b.pulse)
  <2>1. b.pulse \in Nat /\ b.pulse <= LastPulse(m)
    BY <1>3, <1>5 DEF Exact
  <2>2. Reached(f, a) \in Int
    BY <1>3 DEF Reached
  <2> QED BY <1>1, <1>5, <2>1, <2>2 DEF ComesAfter
<1>6. ASSUME NEW n \in 0 .. Len(q)
      PROVE  Exact(m, f, y, At(o, q, n))
  BY <1>2, <1>4 DEF FrameOK
<1>7. ASSUME NEW n \in 0 .. Len(q) - 1, At(o, q, n + 1).frame = f
      PROVE  ComesAfter(y, Reached(f, At(o, q, n)), At(o, q, n + 1).pulse)
  <2> DEFINE a == At(o, q, n)
             b == At(o, q, n + 1)
  <2>1. n \in 0 .. Len(q) /\ n + 1 \in 0 .. Len(q)
    BY <1>1
  <2>2. /\ a \in PulseEvent /\ b \in PulseEvent /\ Exact(m, f, x, b)
        /\ ComesAfter(x, Reached(f, a), b.pulse) /\ b.frame = f
    BY <1>2, <1>7, <2>1 DEF FrameOK
  <2> HIDE DEF a, b
  <2>3. ComesAfter(y, Reached(f, a), b.pulse)
    BY <1>5, <2>2
  <2> QED BY <2>3 DEF a, b
<1> QED BY <1>6, <1>7 DEF FrameOK

\* The decoder too.
LEMMA PlacedAnyhow ==
  ASSUME NEW m \in Messages, NEW x \in Int, x > LastPulse(m), NEW y \in Int,
         NEW p \in Int, p <= LastPulse(m), NEW l, NEW k, NEW v,
         Placed(m, x, p, l, k, v)
  PROVE  Placed(m, y, p, l, k, v)
<1>1. LastPulse(m) \in Int /\ Bits \in Nat
  BY PulseNumbers
<1>2. ~(p >= x)
  BY <1>1
<1>3. ASSUME l \in {"low", "high"}
      PROVE  /\ m.repeat = FALSE
             /\ \A j \in 0 .. Bits - 1 : v[j] = IF j < k THEN FrameBit(m, j) ELSE 0
  <2>1. m.repeat = FALSE /\ LastPulse(m) = 2 * Bits + 3
    <3>1. m.repeat # TRUE
      BY <1>2, <1>3 DEF Placed
    <3> QED BY <3>1, RepeatOrNot
  <2>2. \A j \in 0 .. Bits - 1 : x # 2 * j + 4
    BY <1>1, <2>1
  <2> QED BY <1>3, <2>1, <2>2 DEF Placed
<1> QED BY <1>2, <1>3 DEF Placed

\* A put appends an event of the frame, or of another one.
LEMMA FramePut ==
  ASSUME NEW m, NEW f, NEW x, NEW o \in PulseEvent, NEW q \in Seq(PulseEvent),
         FrameOK(m, f, x, o, q), NEW e \in PulseEvent, Exact(m, f, x, e),
         e.frame = f => ComesAfter(x, Reached(f, At(o, q, Len(q))), e.pulse)
  PROVE  FrameOK(m, f, x, o, Append(q, e))
<1> DEFINE r == Append(q, e)
<1>1. /\ r \in Seq(PulseEvent) /\ Len(r) = Len(q) + 1 /\ Len(q) \in Nat
      /\ \A n \in 1 .. Len(q) : r[n] = q[n]
      /\ r[Len(q) + 1] = e
  BY AppendProperties
<1> HIDE DEF r
<1>2. /\ \A n \in 0 .. Len(q) : At(o, r, n) = At(o, q, n)
      /\ At(o, r, Len(q) + 1) = e
  BY <1>1 DEF At
<1>3. ASSUME NEW n \in 0 .. Len(r) PROVE Exact(m, f, x, At(o, r, n))
  <2>1. CASE n \in 0 .. Len(q)
    BY <1>2, <2>1 DEF FrameOK
  <2>2. CASE n = Len(q) + 1
    BY <1>2, <2>2
  <2> QED BY <1>1, <2>1, <2>2
<1>4. ASSUME NEW n \in 0 .. Len(r) - 1, At(o, r, n + 1).frame = f
      PROVE  ComesAfter(x, Reached(f, At(o, r, n)), At(o, r, n + 1).pulse)
  <2>1. CASE n \in 0 .. Len(q) - 1
    <3>1. n \in 0 .. Len(q) /\ n + 1 \in 0 .. Len(q)
      BY <1>1, <2>1
    <3> QED BY <1>2, <1>4, <2>1, <3>1 DEF FrameOK
  <2>2. CASE n = Len(q)
    BY <1>1, <1>2, <1>4, <2>2
  <2> QED BY <1>1, <2>1, <2>2
<1> QED BY <1>3, <1>4 DEF FrameOK, r

\* A get moves on to the next event.
LEMMA FrameGet ==
  ASSUME NEW m, NEW f, NEW x, NEW o \in PulseEvent, NEW q \in Seq(PulseEvent),
         FrameOK(m, f, x, o, q), q # <<>>
  PROVE  /\ FrameOK(m, f, x, Head(q), Tail(q))
         /\ Exact(m, f, x, Head(q))
         /\ Head(q).frame = f => ComesAfter(x, Reached(f, o), Head(q).pulse)
<1> DEFINE h == Head(q)
           r == Tail(q)
<1>1. /\ Len(q) \in Nat \ {0} /\ h = q[1]
      /\ r \in Seq(PulseEvent) /\ Len(r) = Len(q) - 1
      /\ \A n \in 1 .. Len(r) : r[n] = q[n + 1]
  BY HeadTailProperties, EmptySeq
<1> HIDE DEF h, r
<1>2. \A n \in 0 .. Len(r) : At(h, r, n) = At(o, q, n + 1)
  BY <1>1 DEF At
<1>3. ASSUME NEW n \in 0 .. Len(r) PROVE Exact(m, f, x, At(h, r, n))
  <2>1. n + 1 \in 0 .. Len(q)
    BY <1>1
  <2> QED BY <1>2, <2>1 DEF FrameOK
<1>4. ASSUME NEW n \in 0 .. Len(r) - 1, At(h, r, n + 1).frame = f
      PROVE  ComesAfter(x, Reached(f, At(h, r, n)), At(h, r, n + 1).pulse)
  <2> DEFINE k == n + 1
  <2>1. /\ k \in 0 .. Len(q) - 1 /\ n \in 0 .. Len(r) /\ k \in 0 .. Len(r)
    BY <1>1
  <2>2. At(h, r, n) = At(o, q, k) /\ At(h, r, k) = At(o, q, k + 1)
    BY <1>2, <2>1
  <2> QED BY <1>4, <2>1, <2>2 DEF FrameOK
<1>5. 0 \in 0 .. Len(q) - 1 /\ At(o, q, 0) = o /\ At(o, q, 0 + 1) = h
      /\ 1 \in 0 .. Len(q) /\ At(o, q, 1) = h
  BY <1>1 DEF At
<1>6. Exact(m, f, x, h)
  BY <1>5 DEF FrameOK
<1>7. h.frame = f => ComesAfter(x, Reached(f, o), h.pulse)
  <2>1. At(o, q, 0 + 1).frame = f =>
          ComesAfter(x, Reached(f, At(o, q, 0)), At(o, q, 0 + 1).pulse)
    BY <1>5 DEF FrameOK
  <2> QED BY <1>5, <2>1
<1>8. FrameOK(m, f, x, h, r)
  BY <1>3, <1>4 DEF FrameOK
<1> QED BY <1>6, <1>7, <1>8 DEF h, r

\* A fault counted against the newest frame leaves the others alone.
LEMMA WorseByOne ==
  ASSUME NEW s \in Seq(Frames), s # <<>>, NEW b \in {0, 1}, NEW f \in 1 .. Len(s)
  PROVE  /\ Worse(s, b)[f].message = s[f].message
         /\ s[f].faults \in 0 .. 2
         /\ f # Len(s) => Worse(s, b)[f] = s[f]
         /\ f = Len(s) /\ Worse(s, b)[f].faults <= 1 =>
              Worse(s, b)[f].faults = s[f].faults + b
<1>1. /\ Len(s) \in Nat \ {0} /\ Len(s) \in 1 .. Len(s) /\ s[Len(s)] \in Frames
      /\ s[f] \in Frames
  BY EmptySeq, ElementOfSeq
<1> DEFINE r == s[Len(s)]
           c == IF r.faults + b > 2 THEN 2 ELSE r.faults + b
           y == [r EXCEPT !.faults = c]
<1>2. /\ y \in Frames /\ y.message = r.message
      /\ y.faults <= 1 => y.faults = r.faults + b
  <2>1. r.faults \in 0 .. 2 /\ c \in 0 .. 2 /\ (c <= 1 => c = r.faults + b)
    BY <1>1 DEF Frames
  <2> HIDE DEF c
  <2>2. y \in Frames /\ y.message = r.message /\ y.faults = c
    BY <1>1, <2>1 DEF Frames
  <2> QED BY <2>1, <2>2
<1>3. Worse(s, b) = [s EXCEPT ![Len(s)] = y]
  BY DEF Worse
<1> HIDE DEF y
<1>4. \A n \in 1 .. Len(s) : Worse(s, b)[n] = IF n = Len(s) THEN y ELSE s[n]
  BY <1>1, <1>2, <1>3, ExceptSeq
<1>5. s[f].faults \in 0 .. 2
  BY <1>1 DEF Frames
<1>6. CASE f = Len(s)
  BY <1>2, <1>4, <1>5, <1>6
<1>7. CASE f # Len(s)
  BY <1>4, <1>5, <1>7
<1> QED BY <1>6, <1>7

\* The newest event, whether it is still in the ring or at hand.
LEMMA NewestEvent ==
  ASSUME RingInv
  PROVE  LET z == At(taken, queue, Len(queue))
         IN /\ z \in PulseEvent /\ z.frame \in Nat /\ z.frame <= Len(sent)
            /\ z.pulse \in Nat
<1> DEFINE z == At(taken, queue, Len(queue))
<1>1. Len(queue) \in 0 .. Len(queue)
  BY DEF RingInv
<1>2. z \in PulseEvent
  BY <1>1 DEF At, RingInv
<1>3. z.frame <= Len(sent)
  BY <1>1 DEF EventsOK, RingInv
<1>4. z.frame \in Nat /\ z.pulse \in Nat
  <2>1. Bits \in Nat /\ MaxFrames \in Nat
    BY NecAssumption DEF Bits
  <2> HIDE DEF z
  <2> QED BY <1>2, <2>1 DEF PulseEvent
<1> QED BY <1>2, <1>3, <1>4

\* An edge of the frame under way: the event is exact, or its pulse is the one
\* that was hit.
LEMMA EdgeHit ==
  ASSUME RingInv, NEW frames \in Seq(Frames), frames # <<>>,
         Len(frames) <= MaxFrames, Len(sent) <= Len(frames),
         NEW k \in 0 .. LastPulse(frames[Len(frames)].message), Edge(frames, k),
         pos' = IF k = LastPulse(frames[Len(frames)].message) THEN 0 ELSE k + 1,
         NEW f \in 1 .. Len(frames), sent'[f].faults <= 1, NEW x \in Int,
         frames[f].faults = 0 => x > LastPulse(frames[f].message),
         FrameOK(frames[f].message, f, x, taken, queue),
         f = Len(frames) => ComesAfter(x, Reached(f, At(taken, queue, Len(queue))), k),
         f # Len(frames) =>
           NewestOK(frames[f].message, f, x, 0, At(taken, queue, Len(queue)))
  PROVE  \E y \in Int :
           /\ y = x \/ x > LastPulse(frames[f].message)
           /\ Hit(sent', PosIn(sent', pos', f), taken', queue', f, y)
<1> DEFINE L == Len(frames)
           m == frames[f].message
           z == At(taken, queue, Len(queue))
           LP == LastPulse(m)
<1>1. /\ L \in Nat \ {0} /\ L \in 1 .. L /\ frames[L] \in Frames
      /\ frames[f] \in Frames /\ m \in Messages
  <2>1. /\ L \in Nat \ {0} /\ L \in 1 .. L /\ frames[L] \in Frames
        /\ frames[f] \in Frames
    BY EmptySeq, ElementOfSeq
  <2> QED BY <2>1 DEF Frames
<1>2. /\ LastPulse(frames[L].message) \in 3 .. 2 * Bits + 3 /\ Bits \in Nat
      /\ k \in 0 .. 2 * Bits + 3 /\ k \in Nat
      /\ LP \in Nat /\ LP >= 3
  <2>1. LastPulse(frames[L].message) \in 3 .. 2 * Bits + 3 /\ Bits \in Nat
    BY LastPulseType
  <2>2. LP \in Nat /\ LP >= 3
    BY PulseNumbers
  <2> HIDE DEF LP
  <2> QED BY <2>1, <2>2
<1>3. PICK b \in {0, 1}, e \in PulseEvent :
           /\ e.frame = L /\ e.pulse = k /\ e.pol = (k + 1) % 2
           /\ b = 0 => e.duration = Width(frames[L].message, k)
                                      + frames[L].message.skew
           /\ UNCHANGED taken
           /\ \/ queue' = Append(queue, e) /\ sent' = Worse(frames, b)
              \/ UNCHANGED queue /\ sent' = Worse(frames, 1)
  BY <1>2, EdgePuts
<1>4. queue \in Seq(PulseEvent) /\ taken \in PulseEvent
  BY DEF RingInv
<1>5. z \in PulseEvent /\ z.frame \in Nat /\ z.pulse \in Nat
  BY NewestEvent
<1>6. ASSUME NEW c \in {0, 1}, sent' = Worse(frames, c)
      PROVE  /\ Len(sent') = L /\ sent'[f].message = m
             /\ frames[f].faults \in 0 .. 2
             /\ f # L => sent'[f].faults = frames[f].faults
             /\ f = L => sent'[f].faults = frames[f].faults + c
  BY <1>6, WorseFrames, WorseByOne
<1>7. /\ At(taken, Append(queue, e), Len(Append(queue, e))) = e
  <2>1. /\ Len(Append(queue, e)) = Len(queue) + 1 /\ Len(queue) \in Nat
        /\ Append(queue, e)[Len(queue) + 1] = e
    BY <1>4, AppendProperties
  <2> QED BY <2>1 DEF At
<1>8. /\ f = L => k <= LP /\ pos' = IF k = LP THEN 0 ELSE k + 1
      /\ FrameOK(m, f, x, taken, queue)
      /\ f = L => ComesAfter(x, Reached(f, z), k)
      /\ f # L => NewestOK(m, f, x, 0, z)
      /\ frames[f].faults = 0 => x > LP
  OBVIOUS
<1>9. Reached(f, z) \in Int /\ x \in Int
  BY <1>5 DEF Reached
<1> HIDE DEF m, z, LP
<1>10. CASE queue' = Append(queue, e) /\ sent' = Worse(frames, b)
  <2>1. At(taken', queue', Len(queue')) = e /\ taken' = taken
    BY <1>3, <1>7, <1>10
  <2>2. /\ Len(sent') = L /\ sent'[f].message = m
        /\ frames[f].faults \in 0 .. 2
        /\ f # L => sent'[f].faults = frames[f].faults
        /\ f = L => sent'[f].faults = frames[f].faults + b
    BY <1>6, <1>10
  <2>3. ASSUME f # L
        PROVE  Hit(sent', PosIn(sent', pos', f), taken', queue', f, x)
    <3>1. e.frame # f /\ PosIn(sent', pos', f) = 0
      BY <1>3, <2>2, <2>3 DEF PosIn
    <3>2. Exact(m, f, x, e)
      BY <3>1 DEF Exact
    <3>3. FrameOK(m, f, x, taken, queue')
      BY <1>4, <1>8, <1>10, <3>1, <3>2, FramePut
    <3>4. NewestOK(m, f, x, 0, e)
      BY <3>1 DEF NewestOK
    <3>5. sent'[f].faults = 0 => x > LP
      BY <1>8, <2>2, <2>3
    <3> QED BY <2>1, <2>2, <3>1, <3>3, <3>4, <3>5 DEF Hit, LP
  <2>4. ASSUME f = L, NEW y \in Int, FrameOK(m, f, y, taken, queue),
               ComesAfter(y, Reached(f, z), k), k # y => b = 0,
               sent'[f].faults = 0 => y > LP
        PROVE  Hit(sent', PosIn(sent', pos', f), taken', queue', f, y)
    <3>1. e.frame = f /\ PosIn(sent', pos', f) = pos' /\ e.pulse = k
      BY <1>3, <2>2, <2>4 DEF PosIn
    <3>2. Exact(m, f, y, e)
      BY <1>3, <1>8, <2>4, <3>1 DEF Exact, m
    <3>3. FrameOK(m, f, y, taken, queue')
      BY <1>4, <1>10, <2>4, <3>1, <3>2, FramePut DEF z
    <3>4. Reached(f, e) = k
      BY <3>1 DEF Reached
    <3>5. CASE k = LP
      <4>1. pos' = 0 /\ e.pulse >= LP - 1
        BY <1>2, <1>8, <2>4, <3>1, <3>5
      <4>2. NewestOK(m, f, y, pos', e)
        BY <4>1 DEF NewestOK, LP
      <4> QED BY <2>1, <2>2, <2>4, <3>1, <3>3, <4>2 DEF Hit, LP
    <3>6. CASE k # LP
      <4>1. pos' = k + 1 /\ pos' # 0
        BY <1>2, <1>8, <2>4, <3>6
      <4>2. NewestOK(m, f, y, pos', e)
        BY <3>4, <4>1 DEF NewestOK, ComesAfter
      <4> QED BY <2>1, <2>2, <2>4, <3>1, <3>3, <4>2 DEF Hit, LP
    <3> QED BY <3>5, <3>6
  <2>5. CASE f # L
    BY <2>3, <2>5
  <2>6. CASE f = L /\ b = 0
    <3>1. sent'[f].faults = 0 => x > LP
      BY <1>8, <2>2, <2>6
    <3>2. Hit(sent', PosIn(sent', pos', f), taken', queue', f, x)
      BY <1>8, <1>9, <2>4, <2>6, <3>1
    <3> QED BY <3>2
  <2>7. CASE f = L /\ b = 1
    <3>1. frames[f].faults = 0 /\ sent'[f].faults # 0 /\ x > LP
      BY <1>8, <2>2, <2>7
    <3>2. k \in Int /\ FrameOK(m, f, k, taken, queue)
      BY <1>1, <1>2, <1>4, <1>8, <3>1, NotHitYet DEF LP
    <3>3. ComesAfter(k, Reached(f, z), k)
      BY <1>2, <1>8, <1>9, <2>7, <3>1 DEF ComesAfter
    <3>4. Hit(sent', PosIn(sent', pos', f), taken', queue', f, k)
      BY <2>4, <2>7, <3>1, <3>2, <3>3
    <3> QED BY <3>1, <3>2, <3>4 DEF LP, m
  <2> QED BY <2>5, <2>6, <2>7
<1>11. CASE UNCHANGED queue /\ sent' = Worse(frames, 1)
  <2>1. At(taken', queue', Len(queue')) = z /\ taken' = taken /\ queue' = queue
    BY <1>3, <1>11 DEF z
  <2>2. /\ Len(sent') = L /\ sent'[f].message = m
        /\ frames[f].faults \in 0 .. 2
        /\ f # L => sent'[f].faults = frames[f].faults
        /\ f = L => sent'[f].faults = frames[f].faults + 1
    <3>1. 1 \in {0, 1}
      OBVIOUS
    <3> QED BY <1>6, <1>11, <3>1
  <2>3. CASE f # L
    <3>1. PosIn(sent', pos', f) = 0
      BY <2>2, <2>3 DEF PosIn
    <3>2. sent'[f].faults = 0 => x > LP
      BY <1>8, <2>2, <2>3
    <3>3. Hit(sent', PosIn(sent', pos', f), taken', queue', f, x)
      BY <1>8, <2>1, <2>2, <2>3, <3>1, <3>2 DEF Hit, LP
    <3> QED BY <3>3
  <2>4. CASE f = L
    <3>1. frames[f].faults = 0 /\ sent'[f].faults # 0 /\ x > LP
      BY <1>8, <2>2, <2>4
    <3>2. k \in Int /\ FrameOK(m, f, k, taken, queue)
      BY <1>1, <1>2, <1>4, <1>8, <3>1, NotHitYet DEF LP
    <3>3. k = Reached(f, z) + 1
      BY <1>2, <1>8, <1>9, <2>4, <3>1 DEF ComesAfter
    <3>4. PosIn(sent', pos', f) = pos'
      BY <2>2, <2>4 DEF PosIn
    <3>5. NewestOK(m, f, k, pos', z)
      <4>1. CASE k = LP
        <5>1. pos' = 0
          BY <1>8, <2>4, <4>1
        <5>2. z.frame = f => z.pulse >= LP - 1
          BY <1>2, <1>5, <3>3, <4>1 DEF Reached
        <5> QED BY <5>1, <5>2 DEF NewestOK, LP
      <4>2. CASE k # LP
        <5>1. pos' = k + 1 /\ pos' # 0
          BY <1>2, <1>8, <2>4, <4>2
        <5>2. ComesAfter(k, Reached(f, z), pos')
          BY <1>2, <1>9, <3>3, <5>1 DEF ComesAfter
        <5> QED BY <5>1, <5>2 DEF NewestOK
      <4> QED BY <4>1, <4>2
    <3>6. Hit(sent', PosIn(sent', pos', f), taken', queue', f, k)
      BY <2>1, <2>2, <3>1, <3>2, <3>4, <3>5 DEF Hit
    <3> QED BY <3>1, <3>2, <3>6 DEF LP, m
  <2> QED BY <2>3, <2>4
<1> QED BY <1>3, <1>10, <1>11

\* Faults are only ever added.
LEMMA OneFaultBefore ==
  ASSUME NEW s \in Seq(Frames), NEW t \in Seq(Frames), Len(s) <= Len(t),
         \A g \in 1 .. Len(s) : t[g].faults <= 1 => s[g].faults <= t[g].faults,
         NEW f \in 1 .. Len(s), OneFault(t, f)
  PROVE  OneFault(s, f)
<1>1. \A g \in 1 .. Len(s) : s[g].faults \in 0 .. 2 /\ t[g].faults \in 0 .. 2
  <2>1. \A g \in 1 .. Len(s) : s[g] \in Frames /\ t[g] \in Frames
    BY ElementOfSeq
  <2> QED BY <2>1 DEF Frames
<1>2. s[f].faults <= 1
  BY <1>1 DEF OneFault
<1>3. CASE f = 1
  BY <1>2, <1>3 DEF OneFault
<1>4. CASE f # 1
  <2> DEFINE g == f - 1
  <2>1. g \in 1 .. Len(s) /\ t[g].faults = 0
    BY <1>4 DEF OneFault, Good
  <2> HIDE DEF g
  <2>2. s[g].faults = 0
    BY <1>1, <2>1
  <2> QED BY <1>2, <2>1, <2>2 DEF OneFault, Good, g
<1> QED BY <1>3, <1>4

\* An edge counts its fault, and puts no event without a frame.
LEMMA EdgeFaults ==
  ASSUME RingInv, \A n \in 1 .. Len(queue) : queue[n].frame >= 1,
         NEW frames \in Seq(Frames), frames # <<>>, Len(frames) <= MaxFrames,
         NEW k \in 0 .. LastPulse(frames[Len(frames)].message), Edge(frames, k)
  PROVE  /\ \A n \in 1 .. Len(queue') : queue'[n].frame >= 1
         /\ \A g \in 1 .. Len(frames) :
              /\ sent'[g].message = frames[g].message
              /\ sent'[g].faults <= 1 => frames[g].faults <= sent'[g].faults
<1> DEFINE L == Len(frames)
<1>1. L \in Nat \ {0}
  BY EmptySeq
<1>2. k \in 0 .. 2 * Bits + 3
  <2>1. LastPulse(frames[L].message) \in 3 .. 2 * Bits + 3 /\ Bits \in Nat
    BY LastPulseType
  <2> QED BY <2>1
<1>3. PICK b \in {0, 1}, e \in PulseEvent :
           /\ e.frame = L
           /\ \/ queue' = Append(queue, e) /\ sent' = Worse(frames, b)
              \/ UNCHANGED queue /\ sent' = Worse(frames, 1)
  BY <1>2, EdgePuts
<1>4. \A n \in 1 .. Len(queue') : queue'[n].frame >= 1
  <2>1. CASE queue' = Append(queue, e)
    <3>1. queue \in Seq(PulseEvent)
      BY DEF RingInv
    <3>2. /\ Len(queue') = Len(queue) + 1 /\ Len(queue) \in Nat
          /\ \A n \in 1 .. Len(queue) : queue'[n] = queue[n]
          /\ queue'[Len(queue) + 1] = e
      BY <2>1, <3>1, AppendProperties
    <3>3. e.frame >= 1
      BY <1>1, <1>3
    <3>4. ASSUME NEW n \in 1 .. Len(queue') PROVE queue'[n].frame >= 1
      <4>1. CASE n = Len(queue) + 1
        BY <3>2, <3>3, <4>1
      <4>2. CASE n \in 1 .. Len(queue)
        BY <3>2, <4>2
      <4> QED BY <3>2, <4>1, <4>2
    <3> QED BY <3>4
  <2>2. CASE UNCHANGED queue
    BY <2>2
  <2> QED BY <1>3, <2>1, <2>2
<1>5. ASSUME NEW c \in {0, 1}, sent' = Worse(frames, c), NEW g \in 1 .. L
      PROVE  /\ sent'[g].message = frames[g].message
             /\ sent'[g].faults <= 1 => frames[g].faults <= sent'[g].faults
  <2>1. /\ sent'[g].message = frames[g].message
        /\ frames[g].faults \in 0 .. 2
        /\ g # L => sent'[g] = frames[g]
        /\ g = L /\ sent'[g].faults <= 1 => sent'[g].faults = frames[g].faults + c
    BY <1>5, WorseByOne
  <2> QED BY <2>1
<1>6. 1 \in {0, 1}
  OBVIOUS
<1>7. CASE sent' = Worse(frames, b)
  BY <1>4, <1>5, <1>7
<1>8. CASE sent' = Worse(frames, 1)
  BY <1>4, <1>5, <1>6, <1>8
<1> QED BY <1>3, <1>7, <1>8

\* What the remote does does not concern what was read of the frame so far.
LEMMA RemoteWithin ==
  ASSUME NecInv, NEW f \in 1 .. Len(sent), NEW x \in Int, Within(f, x), NEW y \in Int,
         y = x \/ x > LastPulse(sent[f].message),
         Hit(sent', PosIn(sent', pos', f), taken', queue', f, y),
         sent'[f].message = sent[f].message,
         UNCHANGED <<taken, at, i, val, got>>
  PROVE  Within(f, y)'
<1> DEFINE m == sent[f].message
           p == taken.pulse
<1>1. m \in Messages
  <2>1. sent[f] \in Frames
    BY ElementOfSeq DEF NecInv, RingInv
  <2> QED BY <2>1 DEF Frames
<1>2. ASSUME taken.frame = f
      PROVE  Placed(m, y, p, at, i, val)
  <2>1. Placed(m, x, p, at, i, val)
    BY <1>2 DEF Within
  <2>2. p \in Int /\ p <= LastPulse(m)
    <3>1. 0 \in 0 .. Len(queue) /\ At(taken, queue, 0) = taken
      BY DEF NecInv, RingInv, At
    <3>2. Exact(m, f, x, taken)
      BY <3>1 DEF Within, Hit, FrameOK
    <3>3. taken \in PulseEvent
      BY DEF NecInv, RingInv
    <3> QED BY <1>2, <3>2, <3>3 DEF Exact, PulseEvent
  <2>3. y = x \/ x > LastPulse(m)
    OBVIOUS
  <2> HIDE DEF m, p
  <2>4. CASE y = x
    BY <2>1, <2>4
  <2>5. CASE x > LastPulse(m)
    BY <1>1, <2>1, <2>2, <2>5, PlacedAnyhow
  <2> QED BY <2>3, <2>4, <2>5
<1>3. \A n \in 1 .. Len(got[f]) : RightData(m, got[f][n])
  BY DEF Within
<1> QED BY <1>2, <1>3 DEF Within

\* A frame begins.
LEMMA StartFault ==
  ASSUME NecInv, FaultInv, StartFrame
  PROVE  FaultInv'
<1>1. PICK m \in Messages : Edge(Append(sent, [message |-> m, faults |-> 0]), 0)
  BY DEF StartFrame
<1> DEFINE r == [message |-> m, faults |-> 0]
           frames == Append(sent, r)
           z == At(taken, queue, Len(queue))
<1>2. /\ sent \in Seq(Frames) /\ Len(sent) \in Nat /\ Len(sent) < MaxFrames
      /\ MaxFrames \in Nat /\ pos = 0 /\ pos' = 1 /\ RingInv
      /\ UNCHANGED <<at, i, val, got>>
  BY NecAssumption DEF NecInv, RingInv, StartFrame, Silent
<1>3. r \in Frames /\ r.faults = 0 /\ r.message = m
  BY DEF Frames
<1> HIDE DEF r
<1>4. /\ frames \in Seq(Frames) /\ Len(frames) = Len(sent) + 1
      /\ \A f \in 1 .. Len(sent) : frames[f] = sent[f]
      /\ frames[Len(sent) + 1] = r
  BY <1>2, <1>3, AppendProperties
<1>5. z \in PulseEvent /\ z.frame <= Len(sent) /\ z.frame \in Nat /\ z.pulse \in Nat
  BY <1>2, NewestEvent
<1>6. Edge(frames, 0)
  BY <1>1 DEF r
<1> HIDE DEF frames, z
<1>7. frames # <<>> /\ Len(frames) <= MaxFrames /\ Len(sent) <= Len(frames)
  BY <1>2, <1>4, EmptySeq
<1>8. /\ 0 \in 0 .. LastPulse(frames[Len(frames)].message)
      /\ pos' = IF 0 = LastPulse(frames[Len(frames)].message) THEN 0 ELSE 0 + 1
  <2>1. /\ LastPulse(frames[Len(frames)].message) \in Nat
        /\ LastPulse(frames[Len(frames)].message) >= 3
    BY PulseNumbers
  <2> QED BY <1>2, <2>1
<1>9. /\ \A n \in 1 .. Len(queue') : queue'[n].frame >= 1
      /\ \A g \in 1 .. Len(frames) :
           /\ sent'[g].message = frames[g].message
           /\ sent'[g].faults <= 1 => frames[g].faults <= sent'[g].faults
  BY <1>2, <1>4, <1>6, <1>7, <1>8, EdgeFaults DEF FaultInv
<1>10. taken' = taken /\ Len(sent') = Len(frames) /\ sent' \in Seq(Frames)
  BY <1>2, <1>4, StartRing DEF RingInv
<1>11. /\ taken \in PulseEvent /\ taken.frame \in Nat /\ taken.frame <= Len(sent)
  <2>1. 0 \in 0 .. Len(queue) /\ At(taken, queue, 0) = taken
    BY <1>2 DEF RingInv, At
  <2>2. taken \in PulseEvent /\ taken.frame <= Len(sent)
    BY <1>2, <2>1 DEF RingInv, EventsOK
  <2> QED BY <1>2, <2>2 DEF PulseEvent
<1>12. ASSUME NEW f \in 1 .. Len(sent'), OneFault(sent', f)
       PROVE  \E x \in Int : Within(f, x)'
  <2>0. f \in 1 .. Len(frames) /\ sent'[f].faults <= 1
    BY <1>10, <1>12 DEF OneFault
  <2>1. CASE f \in 1 .. Len(sent)
    <3>1. frames[f] = sent[f] /\ f # Len(frames)
      BY <1>2, <1>4, <2>1
    <3>2. OneFault(sent, f)
      <4>1. \A g \in 1 .. Len(sent) :
               sent'[g].faults <= 1 => sent[g].faults <= sent'[g].faults
        BY <1>2, <1>4, <1>9
      <4> QED BY <1>2, <1>7, <1>10, <1>12, <2>1, <4>1, OneFaultBefore
    <3>3. PICK x \in Int : Within(f, x)
      BY <2>1, <3>2 DEF FaultInv
    <3>4. /\ sent[f].faults = 0 => x > LastPulse(sent[f].message)
          /\ FrameOK(sent[f].message, f, x, taken, queue)
          /\ NewestOK(sent[f].message, f, x, 0, z)
      <4>1. PosIn(sent, pos, f) = 0
        BY <1>2 DEF PosIn
      <4> QED BY <3>3, <4>1 DEF Within, Hit, z
    <3>5. PICK y \in Int :
           /\ y = x \/ x > LastPulse(frames[f].message)
           /\ Hit(sent', PosIn(sent', pos', f), taken', queue', f, y)
      BY <1>2, <1>4, <1>6, <1>7, <1>8, <2>0, <3>1, <3>4, EdgeHit DEF z
    <3>6. sent'[f].message = sent[f].message
      BY <1>9, <2>0, <3>1
    <3>7. Within(f, y)'
      BY <1>2, <1>10, <2>1, <3>1, <3>3, <3>5, <3>6, RemoteWithin
    <3> QED BY <3>7
  <2>2. CASE f = Len(sent) + 1
    <3> DEFINE x == LastPulse(m) + 1
    <3>1. x \in Int /\ x > LastPulse(m)
      BY PulseNumbers
    <3> HIDE DEF x
    <3>2. frames[f].message = m /\ f = Len(frames) /\ z.frame # f /\ taken.frame # f
      BY <1>2, <1>3, <1>4, <1>5, <1>11, <2>2
    <3>3. ComesAfter(x, Reached(f, z), 0)
      BY <3>2 DEF ComesAfter, Reached
    <3>4. FrameOK(m, f, x, taken, queue)
      <4>1. \A n \in 0 .. Len(queue) : At(taken, queue, n).frame # f
        <5>1. \A n \in 0 .. Len(queue) : At(taken, queue, n).frame <= Len(sent)
          BY <1>2 DEF RingInv, EventsOK
        <5>2. \A n \in 0 .. Len(queue) : At(taken, queue, n) \in PulseEvent
          BY <1>2 DEF RingInv, At
        <5>3. \A e \in PulseEvent : e.frame \in Int
          BY DEF PulseEvent
        <5> QED BY <1>2, <2>2, <5>1, <5>2, <5>3
      <4>2. \A n \in 0 .. Len(queue) - 1 : n + 1 \in 0 .. Len(queue)
        BY <1>2 DEF RingInv
      <4> QED BY <4>1, <4>2 DEF FrameOK, Exact
    <3>5. PICK y \in Int :
            Hit(sent', PosIn(sent', pos', f), taken', queue', f, y)
      BY <1>2, <1>4, <1>6, <1>7, <1>8, <2>0, <3>1, <3>2, <3>3, <3>4, EdgeHit DEF z
    <3>6. got[f] = <<>>
      BY <1>2, <1>11, <2>2 DEF NecInv, GotInv
    <3>7. 1 .. Len(got[f]) = {}
      BY <3>6, EmptySeq
    <3>8. Within(f, y)'
      BY <1>2, <1>10, <3>2, <3>5, <3>7 DEF Within
    <3> QED BY <3>8
  <2> QED BY <1>2, <1>4, <1>10, <1>12, <2>1, <2>2
<1> QED BY <1>2, <1>9, <1>10, <1>12 DEF FaultInv

\* A pulse ends.
LEMMA PulseFault ==
  ASSUME NecInv, FaultInv, EndPulse
  PROVE  FaultInv'
<1> DEFINE m == sent[Len(sent)].message
           z == At(taken, queue, Len(queue))
<1>1. /\ sent \in Seq(Frames) /\ Len(sent) \in Nat /\ Len(sent) <= MaxFrames
      /\ pos \in Nat \ {0} /\ sent # <<>> /\ pos <= LastPulse(m)
      /\ pos' = IF pos = LastPulse(m) THEN 0 ELSE pos + 1
      /\ Edge(sent, pos) /\ RingInv /\ UNCHANGED <<at, i, val, got>>
  BY DEF NecInv, RingInv, EndPulse, Silent
<1>2. pos \in 0 .. LastPulse(m)
  <2>1. LastPulse(m) \in Nat
    BY PulseNumbers
  <2> HIDE DEF m
  <2> QED BY <1>1, <2>1
<1>3. /\ \A n \in 1 .. Len(queue') : queue'[n].frame >= 1
      /\ \A g \in 1 .. Len(sent) :
           /\ sent'[g].message = sent[g].message
           /\ sent'[g].faults <= 1 => sent[g].faults <= sent'[g].faults
  BY <1>1, <1>2, EdgeFaults DEF FaultInv
<1>4. taken' = taken /\ Len(sent') = Len(sent) /\ sent' \in Seq(Frames)
  BY <1>1, PulseRing DEF RingInv
<1>5. ASSUME NEW f \in 1 .. Len(sent'), OneFault(sent', f)
      PROVE  \E x \in Int : Within(f, x)'
  <2>1. f \in 1 .. Len(sent) /\ sent'[f].faults <= 1
    BY <1>4, <1>5 DEF OneFault
  <2>2. OneFault(sent, f)
    BY <1>1, <1>3, <1>4, <1>5, <2>1, OneFaultBefore
  <2>3. PICK x \in Int : Within(f, x)
    BY <2>1, <2>2 DEF FaultInv
  <2>4. /\ sent[f].faults = 0 => x > LastPulse(sent[f].message)
        /\ FrameOK(sent[f].message, f, x, taken, queue)
        /\ NewestOK(sent[f].message, f, x, PosIn(sent, pos, f), z)
    BY <2>3 DEF Within, Hit
  <2>5. f = Len(sent) => ComesAfter(x, Reached(f, z), pos)
    BY <1>1, <2>4 DEF NewestOK, PosIn
  <2>6. f # Len(sent) => NewestOK(sent[f].message, f, x, 0, z)
    BY <2>4 DEF PosIn
  <2>7. PICK y \in Int :
          /\ y = x \/ x > LastPulse(sent[f].message)
          /\ Hit(sent', PosIn(sent', pos', f), taken', queue', f, y)
    BY <1>1, <1>2, <2>1, <2>4, <2>5, <2>6, EdgeHit
  <2>8. sent'[f].message = sent[f].message
    BY <1>3, <2>1
  <2>9. Within(f, y)'
    BY <1>1, <1>4, <2>1, <2>3, <2>7, <2>8, RemoteWithin
  <2> QED BY <2>9
<1> QED BY <1>1, <1>3, <1>4, <1>5 DEF FaultInv

\* The remote is cut off: the pulses that were sent are exact.
LEMMA CutFault ==
  ASSUME NecInv, FaultInv, CutOff
  PROVE  FaultInv'
<1> DEFINE z == At(taken, queue, Len(queue))
           L == Len(sent)
<1>1. /\ sent \in Seq(Frames) /\ L \in Nat /\ sent # <<>>
      /\ pos \in Nat \ {0} /\ pos <= LastPulse(sent[L].message) /\ pos' = 0
      /\ sent' = Worse(sent, 1) /\ RingInv
      /\ UNCHANGED <<queue, taken, at, i, val, got>>
      /\ queue \in Seq(PulseEvent) /\ taken \in PulseEvent
  BY DEF NecInv, RingInv, CutOff, Silent, ring
<1>2. 1 \in {0, 1}
  OBVIOUS
<1>3. sent' \in Seq(Frames) /\ Len(sent') = L
  BY <1>1, <1>2, WorseFrames
<1>4. ASSUME NEW f \in 1 .. L
      PROVE  /\ sent'[f].message = sent[f].message
             /\ sent[f].faults \in 0 .. 2
             /\ f # L => sent'[f] = sent[f]
             /\ f = L /\ sent'[f].faults <= 1 => sent'[f].faults = sent[f].faults + 1
  BY <1>1, <1>2, WorseByOne
<1>5. \A g \in 1 .. L : sent'[g].faults <= 1 => sent[g].faults <= sent'[g].faults
  BY <1>4
<1>6. z \in PulseEvent /\ z.frame \in Nat /\ z.pulse \in Nat
  BY <1>1, NewestEvent
<1>7. ASSUME NEW f \in 1 .. Len(sent'), OneFault(sent', f)
      PROVE  \E x \in Int : Within(f, x)'
  <2> DEFINE m == sent[f].message
  <2>1. f \in 1 .. L /\ sent'[f].faults <= 1
    BY <1>3, <1>7 DEF OneFault
  <2>2. OneFault(sent, f)
    BY <1>1, <1>3, <1>5, <1>7, <2>1, OneFaultBefore
  <2>3. PICK x \in Int : Within(f, x)
    BY <2>1, <2>2 DEF FaultInv
  <2>4. /\ sent[f].faults = 0 => x > LastPulse(m)
        /\ FrameOK(m, f, x, taken, queue)
        /\ NewestOK(m, f, x, PosIn(sent, pos, f), z)
    BY <2>3 DEF Within, Hit
  <2>5. sent'[f].message = m
    BY <1>4, <2>1
  <2>6. m \in Messages
    <3>1. sent[f] \in Frames
      BY <1>1, <2>1, ElementOfSeq
    <3> QED BY <3>1 DEF Frames
  <2>7. LastPulse(m) \in Nat
    BY PulseNumbers
  <2> HIDE DEF m
  <2>8. CASE f # L
    <3>1. PosIn(sent', pos', f) = 0 /\ PosIn(sent, pos, f) = 0
      BY <1>3, <2>8 DEF PosIn
    <3>2. sent'[f].faults = sent[f].faults
      BY <1>4, <2>1, <2>8
    <3>3. At(taken', queue', Len(queue')) = z /\ taken' = taken /\ queue' = queue
      BY <1>1
    <3> HIDE DEF z
    <3>4. Hit(sent', PosIn(sent', pos', f), taken', queue', f, x)
      BY <2>4, <2>5, <3>1, <3>2, <3>3 DEF Hit
    <3>5. Within(f, x)'
      BY <1>1, <2>1, <2>3, <2>5, <3>4, RemoteWithin DEF m
    <3> QED BY <3>5
  <2>9. CASE f = L
    <3>0. PICK y \in Int : y = pos - 1
      BY <1>1
    <3>1. PosIn(sent', pos', f) = 0 /\ PosIn(sent, pos, f) = pos
      BY <1>1, <1>3, <2>9 DEF PosIn
    <3>2. sent[f].faults = 0 /\ sent'[f].faults # 0 /\ x > LastPulse(m)
      BY <1>4, <2>1, <2>4, <2>9
    <3>3. y \in Int /\ FrameOK(m, f, y, taken, queue)
      BY <1>1, <2>4, <2>6, <3>2, NotHitYet
    <3>4. ComesAfter(x, Reached(f, z), pos)
      BY <1>1, <2>4, <3>1 DEF NewestOK
    <3>5. z.frame = f => y <= z.pulse
      <4>1. pos <= LastPulse(m)
        BY <1>1, <2>9 DEF m
      <4> HIDE DEF z
      <4> QED BY <1>1, <1>6, <2>7, <3>0, <3>2, <3>4, <4>1 DEF ComesAfter, Reached
    <3>6. At(taken', queue', Len(queue')) = z /\ taken' = taken /\ queue' = queue
      BY <1>1
    <3> HIDE DEF z
    <3>7. NewestOK(m, f, y, 0, z)
      BY <3>5 DEF NewestOK
    <3>8. Hit(sent', PosIn(sent', pos', f), taken', queue', f, y)
      BY <2>5, <3>1, <3>2, <3>3, <3>6, <3>7 DEF Hit
    <3>9. Within(f, y)'
      BY <1>1, <2>1, <2>3, <2>5, <3>2, <3>3, <3>8, RemoteWithin DEF m
    <3> QED BY <3>9
  <2> QED BY <2>8, <2>9
<1> QED BY <1>1, <1>7 DEF FaultInv

\* The event a get brings of a frame with one fault, and where irda_nec_read
\* waits for it: at the head, if it is the frame's first.
LEMMA GetWithin ==
  ASSUME NecInv, FaultInv, Events!Get, UNCHANGED remote,
         OneFault(sent, taken'.frame), NEW x \in Int, Within(taken'.frame, x)
  PROVE  LET m == sent[taken'.frame].message
             k == taken'.pulse
         IN /\ taken' \in PulseEvent /\ m \in Messages
            /\ k \in Nat /\ k <= LastPulse(m) /\ taken'.pol = (k + 1) % 2
            /\ k # x => taken'.duration = Width(m, k) + m.skew
            /\ \E p \in Int : p >= -1 /\ ComesAfter(x, p, k) /\ Placed(m, x, p, at, i, val)
<1> DEFINE f == taken'.frame
           m == sent[f].message
           k == taken'.pulse
<1>1. /\ queue # <<>> /\ taken' = Head(queue) /\ queue' = Tail(queue)
      /\ queue \in Seq(PulseEvent) /\ taken \in PulseEvent /\ sent \in Seq(Frames)
      /\ taken' \in PulseEvent /\ Follows(sent, taken, taken')
  BY GetRing DEF NecInv, RingInv, Events!Get
<1>2. /\ f \in 1 .. Len(sent) /\ m \in Messages /\ Len(sent) \in Nat
  <2>1. f \in 1 .. Len(sent) /\ sent[f] \in Frames
    BY <1>1, ElementOfSeq DEF OneFault
  <2> QED BY <1>1, <2>1 DEF Frames
<1>3. k \in Nat /\ f \in Nat /\ taken.pulse \in Nat /\ taken.frame \in Nat
  <2>1. Bits \in Nat /\ MaxFrames \in Nat
    BY NecAssumption DEF Bits
  <2>2. \A e \in PulseEvent : e.pulse \in Nat /\ e.frame \in Nat
    BY <2>1 DEF PulseEvent
  <2> QED BY <1>1, <2>2
<1>4. Exact(m, f, x, taken') /\ ComesAfter(x, Reached(f, taken), k)
  BY <1>1, FrameGet DEF Within, Hit
<1>5. /\ k <= LastPulse(m) /\ taken'.pol = (k + 1) % 2
      /\ k # x => taken'.duration = Width(m, k) + m.skew
  BY <1>4 DEF Exact
<1>6. CASE taken.frame = f
  <2>1. Placed(m, x, taken.pulse, at, i, val)
    BY <1>6 DEF Within
  <2>2. Reached(f, taken) = taken.pulse
    BY <1>6 DEF Reached
  <2>3. taken.pulse \in Int /\ taken.pulse >= -1
    BY <1>3
  <2> HIDE DEF m, k, f
  <2>4. \E p \in Int : p >= -1 /\ ComesAfter(x, p, k) /\ Placed(m, x, p, at, i, val)
    BY <1>4, <2>1, <2>2, <2>3
  <2> QED BY <1>1, <1>2, <1>3, <1>5, <2>4 DEF m, k, f
<1>7. CASE taken.frame # f
  <2>1. taken.frame < f /\ Reached(f, taken) = -1
    BY <1>1, <1>3, <1>7 DEF Follows, Reached
  <2>2. at = "head"
    <3>1. CASE f = 1
      BY <1>3, <2>1, <3>1 DEF FaultInv
    <3>2. CASE f # 1
      <4> DEFINE g == f - 1
      <4>1. Good(sent, g) /\ g \in 1 .. Len(sent) /\ g \in Int
        BY <1>2, <3>2 DEF OneFault, Good
      <4>2. ~(taken.frame < g /\ g < f)
        BY <1>1, <4>1 DEF Follows
      <4>3. taken.frame = g
        BY <1>3, <2>1, <4>1, <4>2
      <4> HIDE DEF g
      <4>4. taken.pulse = LastPulse(sent[g].message)
        BY <1>1, <1>7, <4>1, <4>3 DEF Follows
      <4>5. at = WaitsAt(sent[g].message, LastPulse(sent[g].message))
        BY <4>1, <4>3, <4>4 DEF NecInv, ReadInv, InStep
      <4>6. sent[g].message \in Messages
        <5>1. sent[g] \in Frames
          BY <1>1, <4>1, ElementOfSeq
        <5> QED BY <5>1 DEF Frames
      <4> DEFINE n == sent[g].message
                 q == LastPulse(n)
      <4>7. q \in Nat /\ q >= 3 /\ Bits \in Nat \ {0}
        BY PulseNumbers
      <4>8. \/ n.repeat = TRUE /\ q = 3
            \/ n.repeat = FALSE /\ q = 2 * Bits + 3
        BY <4>6, RepeatOrNot
      <4>9. at = WaitsAt(n, q)
        BY <4>5
      <4> HIDE DEF n, q
      <4>10. q # 1 /\ ~(q \in 2 .. 2 * Bits + 1 /\ ~n.repeat)
        BY <4>7, <4>8
      <4> QED BY <4>9, <4>10 DEF WaitsAt
    <3> QED BY <3>1, <3>2
  <2>3. -1 \in Int /\ -1 >= -1 /\ -1 <= 0
    OBVIOUS
  <2>4. Placed(m, x, -1, at, i, val)
    BY <2>2, <2>3 DEF Placed
  <2> HIDE DEF m, k, f
  <2>5. \E p \in Int : p >= -1 /\ ComesAfter(x, p, k) /\ Placed(m, x, p, at, i, val)
    BY <1>4, <2>1, <2>3, <2>4
  <2> QED BY <1>1, <1>2, <1>3, <1>5, <2>5 DEF m, k, f
<1> QED BY <1>6, <1>7

\* A get that leaves irda_nec_read in its place, and returns nothing wrong.
LEMMA FaultGet ==
  ASSUME NecInv, FaultInv, Events!Get, UNCHANGED remote,
         NEW res \in Seq(Results),
         got' = [got EXCEPT ![taken'.frame] = got[taken'.frame] \o res],
         \A x \in Int :
           OneFault(sent, taken'.frame) /\ Within(taken'.frame, x) =>
             /\ Placed(sent[taken'.frame].message, x, taken'.pulse, at', i', val')
             /\ \A n \in 1 .. Len(res) :
                  RightData(sent[taken'.frame].message, res[n])
  PROVE  FaultInv'
<1> DEFINE b == taken'.frame
           z == At(taken, queue, Len(queue))
<1>1. /\ queue # <<>> /\ taken' = Head(queue) /\ queue' = Tail(queue)
      /\ queue \in Seq(PulseEvent) /\ taken \in PulseEvent /\ sent \in Seq(Frames)
      /\ UNCHANGED <<sent, pos>> /\ EventsOK(sent, taken, queue)
      /\ got \in [0 .. MaxFrames -> Seq(Results)] /\ MaxFrames \in Nat
      /\ Len(sent) <= MaxFrames /\ Len(sent) \in Nat
  BY NecAssumption DEF NecInv, RingInv, GotInv, Events!Get, remote
<1>2. At(taken', queue', Len(queue')) = z /\ taken' \in PulseEvent
  BY <1>1, EventsGet
<1>3. /\ Len(queue) \in Nat \ {0} /\ taken' = queue[1]
      /\ Len(queue') = Len(queue) - 1
      /\ \A n \in 1 .. Len(queue') : queue'[n] = queue[n + 1]
  BY <1>1, HeadTailProperties, EmptySeq
<1>4. b >= 1 /\ b \in 0 .. MaxFrames
  <2>1. 1 \in 1 .. Len(queue)
    BY <1>3
  <2>2. taken'.frame >= 1
    BY <1>3, <2>1 DEF FaultInv
  <2> QED BY <1>2, <2>2 DEF PulseEvent
<1>5. \A n \in 1 .. Len(queue') : queue'[n].frame >= 1
  <2>1. \A n \in 1 .. Len(queue') : n + 1 \in 1 .. Len(queue)
    BY <1>3
  <2> QED BY <1>3, <2>1 DEF FaultInv
<1>6. ASSUME NEW f \in 1 .. Len(sent), OneFault(sent, f)
      PROVE  \E x \in Int : Within(f, x)'
  <2> DEFINE m == sent[f].message
  <2>1. PICK x \in Int : Within(f, x)
    BY <1>6 DEF FaultInv
  <2>2. /\ sent[f].faults = 0 => x > LastPulse(m)
        /\ FrameOK(m, f, x, taken, queue)
        /\ NewestOK(m, f, x, PosIn(sent, pos, f), z)
        /\ \A n \in 1 .. Len(got[f]) : RightData(m, got[f][n])
    BY <2>1 DEF Within, Hit
  <2>3. FrameOK(m, f, x, taken', queue')
    BY <1>1, <2>2, FrameGet
  <2>4. Hit(sent, PosIn(sent, pos, f), taken', queue', f, x)
    BY <1>2, <2>2, <2>3 DEF Hit
  <2>5. b = f => Placed(m, x, taken'.pulse, at', i', val')
    BY <1>6, <2>1
  <2>6. f \in 0 .. MaxFrames /\ got[f] \in Seq(Results)
    BY <1>1
  <2>7. ASSUME NEW n \in 1 .. Len(got'[f])
        PROVE  RightData(m, got'[f][n])
    <3>1. CASE b # f
      <4>1. got'[f] = got[f]
        BY <1>1, <2>6, <3>1
      <4> QED BY <2>2, <2>7, <4>1
    <3>2. CASE b = f
      <4>1. got'[f] = got[f] \o res
        BY <1>1, <2>6, <3>2
      <4>2. \A j \in 1 .. Len(res) : RightData(m, res[j])
        BY <1>6, <2>1, <3>2
      <4> DEFINE g == got[f]
      <4>3. /\ Len(g \o res) = Len(g) + Len(res) /\ Len(g) \in Nat /\ Len(res) \in Nat
            /\ \A j \in 1 .. Len(g) + Len(res) :
                 (g \o res)[j] = IF j <= Len(g) THEN g[j] ELSE res[j - Len(g)]
        BY <2>6, ConcatProperties
      <4>4. n \in 1 .. Len(g) + Len(res) /\ got'[f][n] = (g \o res)[n]
        BY <2>7, <4>1, <4>3
      <4>5. \A j \in 1 .. Len(g) : RightData(m, g[j])
        BY <2>2
      <4> HIDE DEF g, m
      <4>6. CASE n <= Len(g)
        <5>1. n \in 1 .. Len(g) /\ got'[f][n] = g[n]
          BY <4>3, <4>4, <4>6
        <5> QED BY <4>5, <5>1
      <4>7. CASE ~(n <= Len(g))
        <5> DEFINE j == n - Len(g)
        <5>1. j \in 1 .. Len(res) /\ got'[f][n] = res[j]
          BY <4>3, <4>4, <4>7
        <5> HIDE DEF j
        <5> QED BY <4>2, <5>1
      <4> QED BY <4>6, <4>7
    <3> QED BY <3>1, <3>2
  <2>8. Within(f, x)'
    BY <1>1, <2>4, <2>5, <2>7 DEF Within
  <2> QED BY <2>8
<1> QED BY <1>1, <1>4, <1>5, <1>6 DEF FaultInv

\* One wrong bit among the four bytes gives no wrong data: a bit of the data byte
\* or of its inverse breaks their agreement, the others are not returned as data.
LEMMA OneWrongBit ==
  ASSUME NEW m \in Messages, m.repeat = FALSE, NEW v \in [0 .. Bits - 1 -> 0 .. 1],
         NEW x \in Int,
         \A j \in 0 .. Bits - 1 : v[j] = FrameBit(m, j) \/ x = 2 * j + 4
  PROVE  \A n \in 1 .. Len(Decoded(v)) : RightData(m, Decoded(v)[n])
<1> DEFINE B == ByteBits
           y == [ret |-> 0, address |-> ByteOf(v, 0), data |-> ByteOf(v, 2)]
<1>1. B \in Nat \ {0} /\ Bits = 4 * B
  BY NecAssumption DEF Bits
<1>2. m.data \in Byte
  BY NecAssumption DEF Message
<1>3. CASE ~DataValid(v)
  <2>1. Decoded(v) = <<>>
    BY <1>3 DEF Decoded, Failure
  <2>2. 1 .. Len(Decoded(v)) = {}
    BY <2>1
  <2> QED BY <2>2
<1>4. CASE DataValid(v)
  <2>1. ASSUME NEW j \in 0 .. B - 1
        PROVE  ByteOf(v, 2)[j] = m.data[j]
    <3> DEFINE a == 2 * B + j
               c == 3 * B + j
               d == m.data[j]
    <3>1. d \in 0 .. 1
      BY <1>2 DEF Byte
    <3>2. a \in 0 .. Bits - 1 /\ FrameBit(m, a) = d
      <4>1. 2 \in 0 .. 3
        OBVIOUS
      <4>2. /\ 2 * ByteBits + j \in 0 .. Bits - 1
            /\ FrameBit(m, 2 * ByteBits + j) =
                 <<m.address, m.check, m.data, Complement(m.data)>>[2 + 1][j]
        BY <4>1, FrameBits
      <4> QED BY <4>2
    <3>3. c \in 0 .. Bits - 1 /\ FrameBit(m, c) = 1 - d
      <4>1. 3 \in 0 .. 3
        OBVIOUS
      <4>2. /\ 3 * ByteBits + j \in 0 .. Bits - 1
            /\ FrameBit(m, 3 * ByteBits + j) =
                 <<m.address, m.check, m.data, Complement(m.data)>>[3 + 1][j]
        BY <4>1, FrameBits
      <4>3. Complement(m.data)[j] = 1 - d
        BY <1>2 DEF Complement, Byte
      <4> QED BY <4>2, <4>3
    <3>4. a # c /\ a \in Int /\ c \in Int
      BY <1>1
    <3>5. ByteOf(v, 2)[j] = v[a] /\ ByteOf(v, 3)[j] = v[c]
      BY DEF ByteOf
    <3>6. v[a] = 1 - v[c]
      <4>1. ByteOf(v, 2) = Complement(ByteOf(v, 3)) /\ j \in DOMAIN ByteOf(v, 3)
        BY <1>4 DEF DataValid, ByteOf
      <4>2. Complement(ByteOf(v, 3))[j] = 1 - ByteOf(v, 3)[j]
        BY <4>1 DEF Complement
      <4> QED BY <3>5, <4>1, <4>2
    <3> HIDE DEF a, c, d
    <3>7. v[a] = d \/ x = 2 * a + 4
      BY <3>2
    <3>8. v[c] = 1 - d \/ x = 2 * c + 4
      BY <3>3
    <3>9. v[a] = d
      BY <3>1, <3>4, <3>6, <3>7, <3>8
    <3> QED BY <3>5, <3>9 DEF d
  <2>2. ByteOf(v, 2) = m.data
    BY <1>2, <2>1 DEF ByteOf, Byte
  <2>3. Decoded(v) = << y >>
    BY <1>4 DEF Decoded
  <2>4. y.data = m.data
    BY <2>2
  <2> HIDE DEF y
  <2>5. Len(Decoded(v)) = 1 /\ Decoded(v)[1] = y
    BY <2>3
  <2>6. RightData(m, y)
    BY <2>4 DEF RightData
  <2> QED BY <2>5, <2>6
<1> QED BY <1>3, <1>4

\* Going on in a frame with one fault.
LEMMA FaultGoto ==
  ASSUME NecInv, FaultInv, Events!Get, UNCHANGED remote, NEW l, Goto(l),
         \A x \in Int :
           OneFault(sent, taken'.frame) /\ Within(taken'.frame, x) =>
             Placed(sent[taken'.frame].message, x, taken'.pulse, l, i, val)
  PROVE  FaultInv'
<1>1. at' = l /\ i' = i /\ val' = val /\ got' = got
  BY DEF Goto
<1>2. <<>> \in Seq(Results) /\ 1 .. Len(<<>>) = {}
  BY EmptySeq
<1>3. got' = [got EXCEPT ![taken'.frame] = got[taken'.frame] \o <<>>]
  <2>1. got \in [0 .. MaxFrames -> Seq(Results)]
    BY DEF NecInv, GotInv
  <2>2. taken'.frame \in 0 .. MaxFrames
    BY GetRing DEF NecInv, PulseEvent
  <2>3. got[taken'.frame] \o <<>> = got[taken'.frame]
    BY <2>1, <2>2, ConcatEmptySeq
  <2> QED BY <1>1, <2>1, <2>2, <2>3
<1> QED BY <1>1, <1>2, <1>3, FaultGet

\* Back to the head, with a result or without.
LEMMA FaultReturn ==
  ASSUME NecInv, FaultInv, Events!Get, UNCHANGED remote,
         NEW res \in Seq(Results), Return(res),
         \A x \in Int :
           OneFault(sent, taken'.frame) /\ Within(taken'.frame, x) =>
             /\ \/ taken'.pulse <= 0 \/ taken'.pulse >= x
                \/ taken'.pulse >= LastPulse(sent[taken'.frame].message) - 1
             /\ \A n \in 1 .. Len(res) :
                  RightData(sent[taken'.frame].message, res[n])
  PROVE  FaultInv'
<1>1. /\ at' = "head"
      /\ got' = [got EXCEPT ![taken'.frame] = got[taken'.frame] \o res]
  BY DEF Return
<1>2. ASSUME NEW x \in Int, OneFault(sent, taken'.frame), Within(taken'.frame, x)
      PROVE  /\ Placed(sent[taken'.frame].message, x, taken'.pulse, at', i', val')
             /\ \A n \in 1 .. Len(res) : RightData(sent[taken'.frame].message, res[n])
  BY <1>1, <1>2 DEF Placed
<1> QED BY <1>1, <1>2, FaultGet

\* A failure returns nothing.
LEMMA FaultFail ==
  ASSUME NecInv, FaultInv, Events!Get, UNCHANGED remote, Return(Failure),
         \A x \in Int :
           OneFault(sent, taken'.frame) /\ Within(taken'.frame, x) =>
             \/ taken'.pulse <= 0 \/ taken'.pulse >= x
             \/ taken'.pulse >= LastPulse(sent[taken'.frame].message) - 1
  PROVE  FaultInv'
<1>1. Failure \in Seq(Results) /\ 1 .. Len(Failure) = {}
  BY EmptySeq DEF Failure
<1> QED BY <1>1, FaultReturn

\* A low pulse has an odd number, a high one an even number.
LEMMA Levels ==
  ASSUME NEW us, taken'.pulse \in Nat, taken'.pol = (taken'.pulse + 1) % 2
  PROVE  /\ Is(0, us) => taken'.pulse % 2 = 1
         /\ Is(1, us) => taken'.pulse % 2 = 0
<1> DEFINE k == taken'.pulse
<1>1. \A n \in Nat : /\ (n + 1) % 2 = 0 => n % 2 = 1
                     /\ (n + 1) % 2 = 1 => n % 2 = 0
  OBVIOUS
<1>2. Is(0, us) => (k + 1) % 2 = 0
  BY DEF Is
<1>3. Is(1, us) => (k + 1) % 2 = 1
  BY DEF Is
<1> QED BY <1>1, <1>2, <1>3

\* Waiting for the head pulse.
LEMMA HeadFault ==
  ASSUME ClocksInMargin, NecInv, FaultInv, WaitHead
  PROVE  FaultInv'
<1> DEFINE f == taken'.frame
           m == sent[f].message
           k == taken'.pulse
<1>1. at = "head" /\ Events!Get /\ UNCHANGED remote
  BY DEF WaitHead
<1>2. ASSUME NEW x \in Int, OneFault(sent, f), Within(f, x)
      PROVE  /\ Is(0, DURATION_HEAD_LOW) => k = 1 \/ k = LastPulse(m)
             /\ ~Is(0, DURATION_HEAD_LOW) =>
                  k <= 0 \/ k >= x \/ k >= LastPulse(m) - 1
  <2>1. /\ taken' \in PulseEvent /\ m \in Messages
        /\ k \in Nat /\ k <= LastPulse(m) /\ taken'.pol = (k + 1) % 2
        /\ k # x => taken'.duration = Width(m, k) + m.skew
        /\ \E p \in Int : p >= -1 /\ ComesAfter(x, p, k) /\ Placed(m, x, p, at, i, val)
    BY <1>1, <1>2, GetWithin
  <2>2. PICK p \in Int : p >= -1 /\ ComesAfter(x, p, k) /\ Placed(m, x, p, at, i, val)
    BY <2>1
  <2>3. LastPulse(m) \in Nat
    BY PulseNumbers
  <2>4. p <= 0 \/ p >= x \/ p >= LastPulse(m) - 1
    BY <1>1, <2>2 DEF Placed
  <2>5. k # x => (Is(0, DURATION_HEAD_LOW) <=> k = 1)
    BY <2>1, Margins
  <2>6. Is(0, DURATION_HEAD_LOW) => k % 2 = 1
    BY <2>1, Levels
  <2>7. k = p + 1 \/ (k = p + 2 /\ x = p + 1)
    BY <2>2 DEF ComesAfter
  <2> DEFINE LP == LastPulse(m)
             H == Is(0, DURATION_HEAD_LOW)
  <2>8. LP \in Nat /\ k <= LP /\ (p <= 0 \/ p >= x \/ p >= LP - 1)
        /\ (k # x => (H <=> k = 1)) /\ (H => k % 2 = 1) /\ k \in Nat
    BY <2>1, <2>3, <2>4, <2>5, <2>6
  <2> HIDE DEF LP, H, k, m
  <2>9. H => k = 1 \/ k = LP
    BY <2>2, <2>7, <2>8
  <2>10. ~H => k <= 0 \/ k >= x \/ k >= LP - 1
    BY <2>2, <2>7, <2>8
  <2> QED BY <2>9, <2>10 DEF LP, H
<1>3. CASE Is(0, DURATION_HEAD_LOW) /\ Goto("second")
  <2>1. ASSUME NEW x \in Int, OneFault(sent, f), Within(f, x)
        PROVE  Placed(m, x, k, "second", i, val)
    BY <1>2, <1>3, <2>1 DEF Placed
  <2> QED BY <1>1, <1>3, <2>1, FaultGoto
<1>4. CASE ~Is(0, DURATION_HEAD_LOW) /\ Return(Failure)
  BY <1>1, <1>2, <1>4, FaultFail
<1> QED BY <1>3, <1>4 DEF WaitHead

\* The pulse that tells a message from a repeat code.
LEMMA SecondFault ==
  ASSUME ClocksInMargin, NecInv, FaultInv, SecondPulse
  PROVE  FaultInv'
<1> DEFINE f == taken'.frame
           m == sent[f].message
           k == taken'.pulse
           H == Is(1, DURATION_HEAD_HIGH)
           R == Is(1, DURATION_REPEAT_HIGH)
<1>1. at = "second" /\ Events!Get /\ UNCHANGED remote
  BY DEF SecondPulse
<1>2. i = 0 /\ val = NoBits
  BY <1>1 DEF NecInv, ReadInv
<1>3. ASSUME NEW x \in Int, OneFault(sent, f), Within(f, x)
      PROVE  /\ H => k = 2 /\ (m.repeat => k >= x)
             /\ R \/ ~H => k >= x \/ k >= LastPulse(m) - 1
  <2>1. /\ taken' \in PulseEvent /\ m \in Messages
        /\ k \in Nat /\ k <= LastPulse(m) /\ taken'.pol = (k + 1) % 2
        /\ k # x => taken'.duration = Width(m, k) + m.skew
        /\ \E p \in Int : p >= -1 /\ ComesAfter(x, p, k) /\ Placed(m, x, p, at, i, val)
    BY <1>1, <1>3, GetWithin
  <2>2. PICK p \in Int : p >= -1 /\ ComesAfter(x, p, k) /\ Placed(m, x, p, at, i, val)
    BY <2>1
  <2>3. LastPulse(m) \in Nat
    BY PulseNumbers
  <2>4. p = 1 \/ p = LastPulse(m)
    BY <1>1, <2>2 DEF Placed
  <2>5. k # x => (H <=> k = 2 /\ ~m.repeat) /\ (R <=> k = 2 /\ m.repeat)
    BY <2>1, Margins
  <2>6. H => k % 2 = 0
    BY <2>1, Levels
  <2>7. k = p + 1 \/ (k = p + 2 /\ x = p + 1)
    BY <2>2 DEF ComesAfter
  <2>8. \/ m.repeat = TRUE /\ LastPulse(m) = 3
        \/ m.repeat = FALSE /\ LastPulse(m) = 2 * Bits + 3
    BY <2>1, RepeatOrNot
  <2> DEFINE LP == LastPulse(m)
  <2>9. LP \in Nat /\ k <= LP /\ (p = 1 \/ p = LP) /\ k \in Nat
    BY <2>1, <2>3, <2>4
  <2>10. (m.repeat = TRUE /\ LP = 3) \/ m.repeat = FALSE
    BY <2>8
  <2> HIDE DEF LP, k, m, H, R
  <2>11. k = 2 \/ (k = 3 /\ x = 2)
    BY <2>2, <2>7, <2>9
  <2>12. H => k = 2
    BY <2>6, <2>11
  <2>13. CASE m.repeat = TRUE
    <3>1. k # x => (H <=> FALSE) \/ k # 2
      BY <2>5, <2>13
    <3>2. H => k >= x
      BY <2>9, <2>12, <3>1
    <3>3. k >= LP - 1
      BY <2>9, <2>10, <2>11, <2>13
    <3> QED BY <2>12, <3>2, <3>3 DEF LP
  <2>14. CASE m.repeat = FALSE
    <3>1. k # x => (H <=> k = 2) /\ ~R
      BY <2>5, <2>14
    <3>2. R \/ ~H => k >= x
      BY <2>9, <2>11, <3>1
    <3> QED BY <2>12, <2>14, <3>2
  <2> QED BY <2>10, <2>13, <2>14
<1>4. CASE H /\ Goto("low")
  <2>1. ASSUME NEW x \in Int, OneFault(sent, f), Within(f, x)
        PROVE  Placed(m, x, k, "low", i, val)
    <3>1. k = 2 /\ (m.repeat => k >= x)
      BY <1>3, <1>4, <2>1
    <3>2. \A j \in 0 .. Bits - 1 : ~(j < 0) /\ NoBits[j] = 0
      BY NecAssumption DEF Bits, NoBits
    <3>3. k = 2 * 0 + 2
      BY <3>1
    <3> QED BY <1>2, <3>1, <3>2, <3>3 DEF Placed
  <2> QED BY <1>1, <1>4, <2>1, FaultGoto
<1>5. CASE R /\ Return(Repeat)
  <2>1. Repeat \in Seq(Results)
    BY DEF Repeat, Results
  <2>2. Len(Repeat) = 1 /\ Repeat[1].ret = 1
    BY DEF Repeat
  <2>3. \A n \in 1 .. Len(Repeat) : RightData(m, Repeat[n])
    BY <2>2 DEF RightData
  <2>4. ASSUME NEW x \in Int, OneFault(sent, f), Within(f, x)
        PROVE  k >= x \/ k >= LastPulse(m) - 1
    BY <1>3, <1>5, <2>4
  <2> QED BY <1>1, <1>5, <2>1, <2>3, <2>4, FaultReturn
<1>6. CASE ~H /\ ~R /\ Return(Failure)
  <2>1. ASSUME NEW x \in Int, OneFault(sent, f), Within(f, x)
        PROVE  k >= x \/ k >= LastPulse(m) - 1
    BY <1>3, <1>6, <2>1
  <2> QED BY <1>1, <1>6, <2>1, FaultFail
<1> QED BY <1>4, <1>5, <1>6 DEF SecondPulse

\* The low pulse of a bit.
LEMMA LowFault ==
  ASSUME ClocksInMargin, NecInv, FaultInv, DataLow
  PROVE  FaultInv'
<1> DEFINE f == taken'.frame
           m == sent[f].message
           k == taken'.pulse
           W == Is(0, DURATION_DATA_LOW)
<1>1. at = "low" /\ Events!Get /\ UNCHANGED remote
  BY DEF DataLow
<1>2. i \in Nat
  <2>1. Bits \in Nat
    BY NecAssumption DEF Bits
  <2> QED BY <2>1 DEF NecInv, ReadInv
<1>3. ASSUME NEW x \in Int, OneFault(sent, f), Within(f, x)
      PROVE  /\ W => Placed(m, x, k, "high", i, val)
             /\ ~W => k >= x
  <2>1. /\ taken' \in PulseEvent /\ m \in Messages
        /\ k \in Nat /\ k <= LastPulse(m) /\ taken'.pol = (k + 1) % 2
        /\ k # x => taken'.duration = Width(m, k) + m.skew
        /\ \E p \in Int : p >= -1 /\ ComesAfter(x, p, k) /\ Placed(m, x, p, at, i, val)
    BY <1>1, <1>3, GetWithin
  <2>2. PICK p \in Int : p >= -1 /\ ComesAfter(x, p, k) /\ Placed(m, x, p, at, i, val)
    BY <2>1
  <2>3. /\ p = 2 * i + 2 /\ (m.repeat => p >= x)
        /\ \A j \in 0 .. Bits - 1 :
             val[j] = (IF j < i THEN FrameBit(m, j) ELSE 0) \/ x = 2 * j + 4
    BY <1>1, <2>2 DEF Placed
  <2>4. k # x => (W <=> k > 2 /\ k % 2 = 1)
    BY <2>1, Margins
  <2>5. W => k % 2 = 1
    BY <2>1, Levels
  <2>6. k = p + 1 \/ (k = p + 2 /\ x = p + 1)
    BY <2>2 DEF ComesAfter
  <2> HIDE DEF k, m, W
  <2>7. k \in Nat
    BY <2>1
  <2>8. W => k = 2 * i + 3 /\ k = p + 1
    BY <1>2, <2>3, <2>5, <2>6, <2>7
  <2>9. ~W => k >= x
    <3>1. k = p + 1 => k = 2 * i + 3
      BY <1>2, <2>3
    <3>2. k = p + 1 => k > 2 /\ k % 2 = 1
      BY <1>2, <2>7, <3>1
    <3> QED BY <2>2, <2>4, <2>6, <2>7, <3>2
  <2>10. ASSUME W PROVE Placed(m, x, k, "high", i, val)
    <3>1. k = 2 * i + 3
      BY <2>8, <2>10
    <3>2. m.repeat => k >= x
      BY <2>2, <2>3, <2>8, <2>10
    <3> QED BY <2>3, <3>1, <3>2 DEF Placed
  <2> QED BY <2>9, <2>10
<1>4. CASE W /\ Goto("high")
  <2>1. ASSUME NEW x \in Int, OneFault(sent, f), Within(f, x)
        PROVE  Placed(m, x, k, "high", i, val)
    BY <1>3, <1>4, <2>1
  <2> QED BY <1>1, <1>4, <2>1, FaultGoto
<1>5. CASE ~W /\ Return(Failure)
  <2>1. ASSUME NEW x \in Int, OneFault(sent, f), Within(f, x)
        PROVE  k >= x
    BY <1>3, <1>5, <2>1
  <2> QED BY <1>1, <1>5, <2>1, FaultFail
<1> QED BY <1>4, <1>5 DEF DataLow

\* The bits stored so far, one more of them, and at most the one hit wrong.
LEMMA BitStoredAnyhow ==
  ASSUME NEW m, NEW x \in Int, NEW v \in [0 .. Bits - 1 -> 0 .. 1],
         NEW n \in 0 .. Bits - 1,
         \A j \in 0 .. Bits - 1 :
           v[j] = (IF j < n THEN FrameBit(m, j) ELSE 0) \/ x = 2 * j + 4,
         NEW b \in {0, 1}, x # 2 * n + 4 => FrameBit(m, n) = b
  PROVE  LET w == IF b = 1 THEN [v EXCEPT ![n] = 1] ELSE v
         IN /\ w \in [0 .. Bits - 1 -> 0 .. 1]
            /\ \A j \in 0 .. Bits - 1 :
                 w[j] = (IF j < n + 1 THEN FrameBit(m, j) ELSE 0) \/ x = 2 * j + 4
<1> DEFINE w == IF b = 1 THEN [v EXCEPT ![n] = 1] ELSE v
<1>1. Bits \in Nat
  BY NecAssumption DEF Bits
<1> HIDE DEF Bits
<1>2. /\ w \in [0 .. Bits - 1 -> 0 .. 1]
      /\ \A j \in 0 .. Bits - 1 : w[j] = IF j = n /\ b = 1 THEN 1 ELSE v[j]
  <2>1. CASE b = 1
    BY <2>1
  <2>2. CASE b = 0
    BY <2>2
  <2> QED BY <2>1, <2>2
<1> HIDE DEF w
<1>3. ASSUME NEW j \in 0 .. Bits - 1, x # 2 * j + 4
      PROVE  w[j] = IF j < n + 1 THEN FrameBit(m, j) ELSE 0
  <2>1. v[j] = IF j < n THEN FrameBit(m, j) ELSE 0
    BY <1>3
  <2>2. CASE j = n
    <3>1. v[j] = 0 /\ FrameBit(m, j) = b /\ j < n + 1
      BY <1>1, <1>3, <2>1, <2>2
    <3> QED BY <1>2, <2>2, <3>1
  <2>3. CASE j # n
    <3>1. w[j] = v[j]
      BY <1>2, <2>3
    <3>2. j < n + 1 <=> j < n
      BY <1>1, <2>3
    <3> QED BY <2>1, <3>1, <3>2
  <2> QED BY <2>2, <2>3
<1> QED BY <1>2, <1>3 DEF w

\* The high pulse of a bit.
LEMMA HighFault ==
  ASSUME ClocksInMargin, NecInv, FaultInv, DataHigh
  PROVE  FaultInv'
<1> DEFINE f == taken'.frame
           m == sent[f].message
           k == taken'.pulse
           One == Is(1, DURATION_DATA1_HIGH)
           Zero == Is(1, DURATION_DATA0_HIGH)
<1>1. at = "high" /\ Events!Get /\ UNCHANGED remote
  BY DEF DataHigh
<1>2. /\ i \in 0 .. Bits - 1 /\ i \in Nat /\ val \in [0 .. Bits - 1 -> 0 .. 1]
      /\ Bits \in Nat \ {0}
  <2>1. Bits \in Nat \ {0}
    BY NecAssumption DEF Bits
  <2>2. i \in 0 .. Bits - 1 /\ val \in [0 .. Bits - 1 -> 0 .. 1]
    BY DEF NecInv, ReadInv
  <2> QED BY <2>1, <2>2
<1>3. ASSUME NEW x \in Int, OneFault(sent, f), Within(f, x)
      PROVE  /\ One \/ Zero => /\ k = 2 * i + 4 /\ m.repeat = FALSE
                               /\ LastPulse(m) = 2 * Bits + 3
             /\ x # 2 * i + 4 => /\ One => FrameBit(m, i) = 1
                                 /\ Zero => FrameBit(m, i) = 0
             /\ ~One /\ ~Zero => k >= x
             /\ m \in Messages
             /\ \A j \in 0 .. Bits - 1 :
                  val[j] = (IF j < i THEN FrameBit(m, j) ELSE 0) \/ x = 2 * j + 4
  <2>1. /\ taken' \in PulseEvent /\ m \in Messages
        /\ k \in Nat /\ k <= LastPulse(m) /\ taken'.pol = (k + 1) % 2
        /\ k # x => taken'.duration = Width(m, k) + m.skew
        /\ \E p \in Int : p >= -1 /\ ComesAfter(x, p, k) /\ Placed(m, x, p, at, i, val)
    BY <1>1, <1>3, GetWithin
  <2>2. PICK p \in Int : p >= -1 /\ ComesAfter(x, p, k) /\ Placed(m, x, p, at, i, val)
    BY <2>1
  <2>3. /\ p = 2 * i + 3
        /\ \A j \in 0 .. Bits - 1 :
             val[j] = (IF j < i THEN FrameBit(m, j) ELSE 0) \/ x = 2 * j + 4
    BY <1>1, <2>2 DEF Placed
  <2>4. k # x =>
          /\ One <=> k > 2 /\ k % 2 = 0 /\ FrameBit(m, (k - 4) \div 2) = 1
          /\ Zero <=> k > 2 /\ k % 2 = 0 /\ FrameBit(m, (k - 4) \div 2) # 1
    BY <2>1, Margins
  <2>5. One \/ Zero => k % 2 = 0
    BY <2>1, Levels
  <2>6. k = p + 1 \/ (k = p + 2 /\ x = p + 1)
    BY <2>2 DEF ComesAfter
  <2>7. \/ m.repeat = TRUE /\ LastPulse(m) = 3
        \/ m.repeat = FALSE /\ LastPulse(m) = 2 * Bits + 3
    BY <2>1, RepeatOrNot
  <2>8. FrameBit(m, i) \in 0 .. 1
    BY <1>2, <2>1, FrameBits
  <2>9. k \in Nat /\ k <= LastPulse(m)
    BY <2>1
  <2> HIDE DEF k, m, One, Zero
  <2>10. One \/ Zero => k = 2 * i + 4
    BY <1>2, <2>3, <2>5, <2>6, <2>9
  <2>11. k > 3
    BY <1>2, <2>3, <2>6
  <2>12. m.repeat = FALSE /\ LastPulse(m) = 2 * Bits + 3
    BY <2>7, <2>9, <2>11
  <2>13. ASSUME k = 2 * i + 4
         PROVE  k > 2 /\ k % 2 = 0 /\ (k - 4) \div 2 = i
    BY <1>2, <2>13
  <2>14. ASSUME x # 2 * i + 4
         PROVE  /\ One => FrameBit(m, i) = 1
                /\ Zero => FrameBit(m, i) = 0
    <3>1. ASSUME One \/ Zero
          PROVE  k # x /\ (k - 4) \div 2 = i
      BY <2>10, <2>13, <2>14, <3>1
    <3>2. One => FrameBit(m, i) = 1
      BY <2>4, <3>1
    <3>3. Zero => FrameBit(m, i) # 1
      BY <2>4, <3>1
    <3> QED BY <2>8, <3>2, <3>3
  <2>15. ~One /\ ~Zero => k >= x
    <3>1. k = p + 1 => k = 2 * i + 4
      BY <1>2, <2>3
    <3>2. k = p + 1 => k > 2 /\ k % 2 = 0
      BY <2>13, <3>1
    <3>3. ~One /\ ~Zero => k = x \/ k # p + 1
      BY <2>4, <3>2
    <3> QED BY <2>2, <2>6, <2>9, <3>3
  <2> QED BY <2>1, <2>3, <2>10, <2>12, <2>14, <2>15 DEF m
<1> HIDE DEF f, m, k, One, Zero
<1>4. ASSUME NEW b \in {0, 1}, StoreBit(b), b = 1 => One, b = 0 => Zero
      PROVE  FaultInv'
  <2> DEFINE v == IF b = 1 THEN [val EXCEPT ![i] = 1] ELSE val
  <2>1. \/ LastBit /\ Return(Decoded(v))
        \/ ~LastBit /\ at' = "low" /\ i' = i + 1 /\ val' = v /\ UNCHANGED got
    BY <1>4 DEF StoreBit
  <2>2. v \in [0 .. Bits - 1 -> 0 .. 1]
    <3>1. CASE b = 1
      BY <1>2, <3>1
    <3>2. CASE b = 0
      BY <1>2, <3>2
    <3> QED BY <3>1, <3>2
  <2>3. ASSUME NEW x \in Int, OneFault(sent, f), Within(f, x)
        PROVE  /\ k = 2 * i + 4 /\ m.repeat = FALSE /\ LastPulse(m) = 2 * Bits + 3
               /\ m \in Messages
               /\ \A j \in 0 .. Bits - 1 :
                    v[j] = (IF j < i + 1 THEN FrameBit(m, j) ELSE 0) \/ x = 2 * j + 4
    <3>1. /\ k = 2 * i + 4 /\ m.repeat = FALSE /\ LastPulse(m) = 2 * Bits + 3
          /\ m \in Messages
      BY <1>3, <1>4, <2>3
    <3>2. x # 2 * i + 4 => FrameBit(m, i) = b
      BY <1>3, <1>4, <2>3
    <3>3. \A j \in 0 .. Bits - 1 :
            val[j] = (IF j < i THEN FrameBit(m, j) ELSE 0) \/ x = 2 * j + 4
      BY <1>3, <2>3
    <3>4. \A j \in 0 .. Bits - 1 :
            v[j] = (IF j < i + 1 THEN FrameBit(m, j) ELSE 0) \/ x = 2 * j + 4
      BY <1>2, <3>2, <3>3, BitStoredAnyhow
    <3> QED BY <3>1, <3>4
  <2> HIDE DEF v
  <2>4. CASE LastBit /\ Return(Decoded(v))
    <3>1. Decoded(v) \in Seq(Results)
      BY <2>2, DecodedType
    <3>2. ASSUME NEW x \in Int, OneFault(sent, f), Within(f, x)
          PROVE  /\ k >= LastPulse(m) - 1
                 /\ \A n \in 1 .. Len(Decoded(v)) : RightData(m, Decoded(v)[n])
      <4>1. i + 1 = Bits
        BY <1>2, <2>4 DEF LastBit
      <4>2. /\ k = 2 * i + 4 /\ m.repeat = FALSE /\ LastPulse(m) = 2 * Bits + 3
            /\ m \in Messages
            /\ \A j \in 0 .. Bits - 1 :
                 v[j] = (IF j < i + 1 THEN FrameBit(m, j) ELSE 0) \/ x = 2 * j + 4
        BY <2>3, <3>2
      <4>3. k >= LastPulse(m) - 1
        BY <1>2, <4>1, <4>2
      <4>4. \A j \in 0 .. Bits - 1 : j < i + 1
        BY <1>2, <4>1
      <4>5. \A j \in 0 .. Bits - 1 : v[j] = FrameBit(m, j) \/ x = 2 * j + 4
        BY <4>2, <4>4
      <4> QED BY <2>2, <4>2, <4>3, <4>5, OneWrongBit
    <3> QED BY <1>1, <2>4, <3>1, <3>2, FaultReturn DEF f, k, m
  <2>5. CASE ~LastBit /\ at' = "low" /\ i' = i + 1 /\ val' = v /\ UNCHANGED got
    <3>1. <<>> \in Seq(Results) /\ 1 .. Len(<<>>) = {}
      BY EmptySeq
    <3>2. got' = [got EXCEPT ![taken'.frame] = got[taken'.frame] \o <<>>]
      <4>1. got \in [0 .. MaxFrames -> Seq(Results)]
        BY DEF NecInv, GotInv
      <4>2. taken'.frame \in 0 .. MaxFrames
        BY <1>1, GetRing DEF NecInv, PulseEvent
      <4>3. got[taken'.frame] \o <<>> = got[taken'.frame]
        BY <4>1, <4>2, ConcatEmptySeq
      <4> QED BY <2>5, <4>1, <4>2, <4>3
    <3>3. ASSUME NEW x \in Int, OneFault(sent, f), Within(f, x)
          PROVE  Placed(m, x, k, at', i', val')
      <4>1. /\ k = 2 * i + 4 /\ m.repeat = FALSE
            /\ \A j \in 0 .. Bits - 1 :
                 v[j] = (IF j < i + 1 THEN FrameBit(m, j) ELSE 0) \/ x = 2 * j + 4
        BY <2>3, <3>3
      <4>2. k = 2 * (i + 1) + 2
        BY <1>2, <4>1
      <4> QED BY <2>5, <4>1, <4>2 DEF Placed
    <3> QED BY <1>1, <3>1, <3>2, <3>3, FaultGet DEF f, k, m
  <2> QED BY <2>1, <2>4, <2>5
<1>5. CASE One /\ StoreBit(1)
  <2>1. 1 \in {0, 1} /\ 1 # 0
    OBVIOUS
  <2> QED BY <1>4, <1>5, <2>1
<1>6. CASE Zero /\ StoreBit(0)
  <2>1. 0 \in {0, 1} /\ 1 # 0
    OBVIOUS
  <2> QED BY <1>4, <1>6, <2>1
<1>7. CASE ~One /\ ~Zero /\ Return(Failure)
  <2>1. ASSUME NEW x \in Int, OneFault(sent, f), Within(f, x)
        PROVE  k >= x
    BY <1>3, <1>7, <2>1
  <2> QED BY <1>1, <1>7, <2>1, FaultFail DEF f, k, m
<1> QED BY <1>5, <1>6, <1>7 DEF DataHigh, One, Zero

\* A timeout comes when the frame is over: what was hit of it lies behind.
LEMMA TimeoutFault ==
  ASSUME NecInv, FaultInv, SecondTimeout \/ DataTimeout
  PROVE  FaultInv'
<1>1. /\ queue = <<>> /\ pos = 0 /\ at \in {"second", "low", "high"}
      /\ UNCHANGED <<sent, pos, queue, taken>>
  BY DEF SecondTimeout, DataTimeout, TimesOut, Silent,
         remote, ring
<1>2. /\ taken \in PulseEvent /\ taken.frame \in 0 .. MaxFrames
      /\ got \in [0 .. MaxFrames -> Seq(Results)]
      /\ At(taken, queue, Len(queue)) = taken
  <2>1. Len(queue) = 0
    BY <1>1, EmptySeq
  <2> QED BY <2>1 DEF NecInv, RingInv, GotInv, PulseEvent, At
<1>3. at' = "head" /\ got' = got
  <2>1. CASE SecondTimeout
    BY <2>1 DEF SecondTimeout, Goto
  <2>2. CASE DataTimeout
    <3>1. got[taken.frame] \o <<>> = got[taken.frame]
      BY <1>2, ConcatEmptySeq
    <3> QED BY <1>1, <1>2, <2>2, <3>1 DEF DataTimeout, Return, Failure
  <2> QED BY <2>1, <2>2
<1>4. ASSUME NEW f \in 1 .. Len(sent), OneFault(sent, f)
      PROVE  \E x \in Int : Within(f, x)'
  <2> DEFINE m == sent[f].message
  <2>1. PICK x \in Int : Within(f, x)
    BY <1>4 DEF FaultInv
  <2>2. PosIn(sent, pos, f) = 0
    BY <1>1 DEF PosIn
  <2>3. taken.frame = f => taken.pulse >= LastPulse(m) - 1 \/ x <= taken.pulse
    BY <1>2, <2>1, <2>2 DEF Within, Hit, NewestOK
  <2>4. taken.pulse \in Int
    BY <1>2 DEF PulseEvent
  <2>5. taken.frame = f => Placed(m, x, taken.pulse, "head", i', val')
    BY <2>3, <2>4 DEF Placed
  <2>6. Within(f, x)'
    BY <1>1, <1>3, <2>1, <2>5 DEF Within
  <2> QED BY <2>6
<1> QED BY <1>1, <1>3, <1>4 DEF FaultInv

\* Every step keeps it.
LEMMA StepFaultInv ==
  ASSUME ClocksInMargin, NecInv, FaultInv, [NecNext]_necVars
  PROVE  FaultInv'
<1>1. CASE StartFrame
  BY <1>1, StartFault
<1>2. CASE InFrame
  BY <1>2, PulseFault, CutFault DEF InFrame
<1>3. CASE irda_nec_read
  BY <1>3, HeadFault, SecondFault, LowFault, HighFault, TimeoutFault
     DEF irda_nec_read
<1>4. CASE UNCHANGED necVars
  <2>1. UNCHANGED <<sent, pos, queue, taken, at, i, val, got>>
    BY <1>4 DEF necVars, remote, ring
  <2>2. \A f : \A x : Within(f, x) => Within(f, x)'
    BY <2>1 DEF Within
  <2> QED BY <2>1, <2>2 DEF FaultInv
<1> QED BY <1>1, <1>2, <1>3, <1>4 DEF NecNext

\* With one fault in two frames, either it is the older one's, and the frame is
\* whole, or the frame is the one the invariant follows.
LEMMA FaultInvImplies ==
  ASSUME NecInv, FaultInv
  PROVE  DataIntact
<1>1. /\ sent \in Seq(Frames) /\ Len(sent) \in Nat /\ DOMAIN sent = 1 .. Len(sent)
      /\ got \in [0 .. MaxFrames -> Seq(Results)] /\ Len(sent) <= MaxFrames
      /\ MaxFrames \in Nat
  BY NecAssumption DEF NecInv, RingInv, GotInv
<1>2. \A g \in 1 .. Len(sent) : sent[g].faults \in 0 .. 2 /\ sent[g].message \in Messages
  <2>1. \A g \in 1 .. Len(sent) : sent[g] \in Frames
    BY <1>1, ElementOfSeq
  <2> QED BY <2>1 DEF Frames
<1>3. ASSUME NEW f \in 1 .. Len(sent), NEW n \in DOMAIN got[f],
             FaultsUpTo(f) <= 1, got[f][n].ret = 0
      PROVE  ~sent[f].message.repeat /\ got[f][n].data = sent[f].message.data
  <2> DEFINE m == sent[f].message
  <2>1. got[f] \in Seq(Results) /\ DOMAIN got[f] = 1 .. Len(got[f])
    <3>1. f \in 0 .. MaxFrames
      BY <1>1
    <3> QED BY <1>1, <3>1
  <2>2. OneFault(sent, f) \/ sent[f].faults = 0
    <3>1. CASE f = 1
      <4>1. sent[f].faults <= 1
        BY <1>2, <1>3, <3>1 DEF FaultsUpTo
      <4> QED BY <3>1, <4>1 DEF OneFault
    <3>2. CASE f # 1
      <4> DEFINE g == f - 1
      <4>1. g \in 1 .. Len(sent) /\ sent[f].faults + sent[g].faults <= 1
        BY <1>1, <1>3, <3>2 DEF FaultsUpTo
      <4> HIDE DEF g
      <4>2. sent[f].faults \in 0 .. 2 /\ sent[g].faults \in 0 .. 2
        BY <1>2, <4>1
      <4>3. sent[f].faults = 0 \/ (sent[g].faults = 0 /\ sent[f].faults <= 1)
        BY <4>1, <4>2
      <4> QED BY <4>1, <4>3 DEF OneFault, Good, g
    <3> QED BY <3>1, <3>2
  <2>3. CASE OneFault(sent, f)
    <3>1. PICK x \in Int : Within(f, x)
      BY <2>3 DEF FaultInv
    <3>2. RightData(m, got[f][n])
      BY <1>3, <2>1, <3>1 DEF Within
    <3> QED BY <1>3, <3>2 DEF RightData
  <2>4. CASE sent[f].faults = 0
    <3>1. got[f] = IF Taken(f) THEN Result(m) ELSE <<>>
      BY <1>1, <2>4 DEF NecInv, GotInv, FrameOnce
    <3>2. got[f] = Result(m)
      <4>1. got[f] # <<>>
        BY <1>3, <2>1, EmptySeq
      <4> QED BY <3>1, <4>1
    <3>3. m \in Messages /\ m.repeat \in BOOLEAN
      BY <1>2, DecidingType
    <3> HIDE DEF m
    <3>4. CASE m.repeat = TRUE
      <4>1. got[f] = << [ret |-> 1] >>
        BY <3>2, <3>4 DEF Result, Repeat
      <4>2. n = 1 /\ got[f][n].ret = 1
        BY <1>3, <4>1
      <4> QED BY <1>3, <4>2
    <3>5. CASE m.repeat = FALSE
      <4>1. got[f] = << [ret |-> 0, address |-> m.address, data |-> m.data] >>
        BY <3>2, <3>5 DEF Result
      <4>2. n = 1 /\ got[f][n].data = m.data
        BY <1>3, <4>1
      <4> QED BY <3>5, <4>2 DEF m
    <3> QED BY <3>3, <3>4, <3>5
  <2> QED BY <2>2, <2>3, <2>4
<1> QED BY <1>1, <1>3 DEF DataIntact

\* Before the first frame.
LEMMA InitFaultInv ==
  ASSUME NecInit
  PROVE  FaultInv
<1>1. /\ sent = <<>> /\ queue = <<>> /\ at = "head"
  BY DEF NecInit
<1>2. 1 .. Len(sent) = {} /\ 1 .. Len(queue) = {}
  BY <1>1, EmptySeq
<1> QED BY <1>1, <1>2 DEF FaultInv

\* One disturbed, dropped or cut off pulse, wherever it falls, never makes
\* irda_nec_read return a data byte that was not sent: the comparison with the
\* inverted byte (irda_nec.c:113-126) catches the one bit that can be wrong, for
\* every width of a byte, every ring and every width the pulse is misread to have.
THEOREM NoWrongData == ClocksInMargin /\ NecSpec => []DataIntact
<1>1. SUFFICES ASSUME ClocksInMargin PROVE NecSpec => []DataIntact
  OBVIOUS
<1>2. NecInit => NecInv /\ FaultInv
  BY InitNecInv, InitFaultInv
<1>3. NecInv /\ FaultInv /\ [NecNext]_necVars => (NecInv /\ FaultInv)'
  BY <1>1, StepNecInv, StepFaultInv
<1>4. NecInv /\ FaultInv => DataIntact
  BY FaultInvImplies
<1> QED BY <1>2, <1>3, <1>4, PTL DEF NecSpec
=============================================================================
