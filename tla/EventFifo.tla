----------------------------- MODULE EventFifo ------------------------------
(***************************************************************************)
(* What the ring of circle_buffer.c promises its two users: a bounded FIFO *)
(* that never waits.  A put into a full queue is refused and changes       *)
(* nothing; a get takes the oldest event.                                  *)
(***************************************************************************)
EXTENDS Naturals, Sequences

CONSTANTS Event, Capacity

VARIABLES
  queue,  \* events put and not yet taken, oldest first
  out     \* the event the last successful get handed to its caller

vars == <<queue, out>>

Put(e) ==
  /\ Len(queue) < Capacity
  /\ queue' = Append(queue, e)
  /\ UNCHANGED out

PutRefused(e) ==
  /\ Len(queue) = Capacity
  /\ UNCHANGED vars

Get ==
  /\ queue # <<>>
  /\ out' = Head(queue)
  /\ queue' = Tail(queue)

Init == queue = <<>> /\ out \in Event

Next == Get \/ \E e \in Event : Put(e) \/ PutRefused(e)

Spec == Init /\ [][Next]_vars
=============================================================================
