---------------------------- MODULE CircleBuffer ----------------------------
(***************************************************************************)
(* The ring of pulse events between the infrared interrupt and the decoder *)
(* (sensors/irda/circle_buffer.c).  irda_irq puts, with IRQs masked, so a  *)
(* put is one step.  The decoder in main gets, and can be interrupted      *)
(* between the test for empty, the copy of each word of the event and the  *)
(* update of g_r: a get is four steps.  There is no lock; the ring is      *)
(* correct only because each index has a single writer and is written last.*)
(***************************************************************************)
EXTENDS Integers, Sequences

CONSTANTS
  N,            \* slots of g_events (1024)
  Durations,    \* pulse widths, in microseconds
  MaxTimeout    \* the largest timeout_us passed to ir_event_get_timeout

ASSUME NAssumption == N \in Nat \ {0, 1}
ASSUME TimeoutAssumption == MaxTimeout \in Nat

Event == [pol : {0, 1}, duration : Durations]

VARIABLES
  g_events,    \* the slots
  g_r,         \* next slot to read, written by main only
  g_w,         \* next slot to write, written by the interrupt only
  pc,          \* where main is in a get
  timeout_us,  \* turns left; 0 for ir_event_get, which tests once
  pd,          \* the caller's event, filled word by word
  out          \* history: *pd of the last get that returned 0

ringVars == <<g_events, g_r, g_w>>
vars == <<ringVars, pc, timeout_us, pd, out>>

\* mutant of NEXT_PLACE: the mask is one bit short of the array
NextPlaceShort(k) == IF k + 1 >= N - 1 THEN 0 ELSE k + 1

\* (i+1) & 0x3FF: N is a power of two in the code.
NEXT_PLACE(k) == (k + 1) % N

is_ir_event_buf_empty == g_r = g_w

\* mutant of is_ir_event_buf_full: the writer never looks at g_r
NeverFull == FALSE

is_ir_event_buf_full == NEXT_PLACE(g_w) = g_r

(***************************************************************************)
(* irda_irq: put, or drop the event when the ring is full.                 *)
(***************************************************************************)
ir_event_put(e) ==
  /\ IF is_ir_event_buf_full
     THEN UNCHANGED <<g_events, g_w>>
     ELSE /\ g_events' = [g_events EXCEPT ![g_w] = e]
          /\ g_w' = NEXT_PLACE(g_w)
  /\ UNCHANGED <<g_r, pc, timeout_us, pd, out>>

(***************************************************************************)
(* main.                                                                   *)
(***************************************************************************)
\* ir_event_get: one test, no turn of a loop.
ir_event_get ==
  /\ pc = "idle"
  /\ timeout_us' = 0
  /\ pc' = IF is_ir_event_buf_empty THEN "idle" ELSE "pol"
  /\ UNCHANGED <<ringVars, pd, out>>

ir_event_get_timeout(t) ==
  /\ pc = "idle"
  /\ pc' = "while"
  /\ timeout_us' = t
  /\ UNCHANGED <<ringVars, pd, out>>

\* mutant of while_timeout: 0 is not taken for the end
WhileForever ==
  /\ pc = "while"
  /\ timeout_us' = IF timeout_us = 0 THEN MaxTimeout ELSE timeout_us - 1
  /\ pc' = IF is_ir_event_buf_empty THEN "while" ELSE "pol"
  /\ UNCHANGED <<ringVars, pd, out>>

\* One turn of while (timeout_us--): the test for empty, then udelay(1).
while_timeout ==
  /\ pc = "while"
  /\ IF timeout_us = 0
     THEN pc' = "idle" /\ UNCHANGED timeout_us
     ELSE /\ timeout_us' = timeout_us - 1
          /\ pc' = IF is_ir_event_buf_empty THEN "while" ELSE "pol"
  /\ UNCHANGED <<ringVars, pd, out>>

\* *pd = g_events[g_r], one word after the other.
CopyPol ==
  /\ pc = "pol"
  /\ pd' = [pd EXCEPT !.pol = g_events[g_r].pol]
  /\ pc' = "duration"
  /\ UNCHANGED <<ringVars, timeout_us, out>>

CopyDuration ==
  /\ pc = "duration"
  /\ pd' = [pd EXCEPT !.duration = g_events[g_r].duration]
  /\ pc' = "advance"
  /\ UNCHANGED <<ringVars, timeout_us, out>>

\* g_r = NEXT_PLACE(g_r); return 0
Advance ==
  /\ pc = "advance"
  /\ g_r' = NEXT_PLACE(g_r)
  /\ out' = pd
  /\ pc' = "idle"
  /\ UNCHANGED <<g_events, g_w, timeout_us, pd>>

(***************************************************************************)
(* The specification.                                                      *)
(***************************************************************************)
\* Static storage is zero; the slots' first contents are never read.
Init ==
  /\ \E e \in Event :
       /\ g_events = [k \in 0 .. N - 1 |-> e]
       /\ pd = e /\ out = e
  /\ g_r = 0 /\ g_w = 0
  /\ pc = "idle"
  /\ timeout_us = 0

GetSteps == while_timeout \/ CopyPol \/ CopyDuration \/ Advance

Next ==
  \/ \E e \in Event : ir_event_put(e)
  \/ ir_event_get
  \/ \E t \in 0 .. MaxTimeout : ir_event_get_timeout(t)
  \/ GetSteps

\* main runs between interrupts.
Spec == Init /\ [][Next]_vars /\ WF_vars(GetSteps)

(***************************************************************************)
(* Properties.                                                             *)
(***************************************************************************)
\* Types of the ring; the indices stay inside the array.
TypeOK ==
  /\ g_events \in [0 .. N - 1 -> Event]
  /\ g_r \in 0 .. N - 1
  /\ g_w \in 0 .. N - 1
  /\ pc \in {"idle", "while", "pol", "duration", "advance"}
  /\ timeout_us \in 0 .. MaxTimeout
  /\ pd \in Event
  /\ out \in Event

\* While main is between the test for empty and g_r = NEXT_PLACE(g_r), the
\* ring stays non-empty and what it has already copied of the slot is still
\* what the slot holds: no interrupt, however many events it puts and
\* drops, overwrites the event under the reader.
CopyStable ==
  /\ pc \in {"pol", "duration", "advance"} => g_r # g_w
  /\ pc \in {"duration", "advance"} => pd.pol = g_events[g_r].pol
  /\ pc = "advance" => pd.duration = g_events[g_r].duration

\* How many slots lie between the indices, and the events in them, oldest
\* first: the events put and not yet taken.
CountOf(r, w) == (w - r + N) % N

Contents(events, r, w) ==
  [k \in 1 .. CountOf(r, w) |-> events[(r + k - 1) % N]]

Queue == Contents(g_events, g_r, g_w)

Fifo == INSTANCE EventFifo WITH Capacity <- N - 1, queue <- Queue, out <- out

\* The ring implements the bounded FIFO: events come out whole, in order and
\* each once, and never more than N - 1 of them wait.  (A refused put is a
\* stuttering step here: when puts are refused is not part of this property.)
FifoSpec == Fifo!Spec

\* ir_event_get_timeout returns whatever the interrupts do meanwhile.
GetReturns == pc # "idle" ~> pc = "idle"
=============================================================================
