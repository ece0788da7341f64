----------------------------- MODULE MemdevPoll ------------------------------
(***************************************************************************)
(* The blocking memory device (friendlyArm/chapter4_wait/memdev_poll):     *)
(* readers wait until the device has data, writers until it has none.      *)
(* Each device has a semaphore and two wait queues; the flag have_data is  *)
(* one for all devices.                                                    *)
(*                                                                         *)
(* The driver uses a semaphore and so assumes nothing about preemption:    *)
(* processes interleave between any two steps, and a copy moves one cell   *)
(* at a time.  The test of the condition and the sleep in                  *)
(* wait_event_interruptible are one step, as the kernel guarantees.  Every *)
(* process has one file open, which it shares with nobody.                 *)
(***************************************************************************)
EXTENDS Integers, FiniteSets

CONSTANTS
  Proc,     \* processes
  Dev,      \* devices (MEMDEV_NR_DEVS)
  Opens,    \* Opens[p]: the devices that p opens
  Signalled,\* the processes that signals are sent to
  Size,     \* MEMDEV_SIZE, in cells
  Lens,     \* lengths that are asked for
  Val,      \* what is written into a cell
  Empty,    \* the zeroed memory of a new device
  MaxFaults \* bound: MaxFaults[d] copies fail on d

ASSUME OpensAssumption == Opens \in [Proc -> (SUBSET Dev) \ {{}}]
ASSUME SizeAssumption == Size \in Nat \ {0}
ASSUME LensAssumption == Lens \subseteq Nat
ASSUME MaxFaultsAssumption == MaxFaults \in [Dev -> Nat]

VARIABLES
  sem,        \* sem[d]: the semaphore's count
  have_data,
  data,       \* data[d]: its cells
  pc,         \* where each process is
  op,         \* op[p]: the call, or for poll what it waits for
  dev,        \* dev[p]: filp->private_data
  pos,        \* pos[p]: filp->f_pos
  count,      \* count[p]: how many cells the call moves
  moved,      \* moved[p]: how many it has moved
  buf,        \* buf[p]: the user buffer
  sig,        \* sig[p]: a signal is pending
  faults,     \* history: faults[d] copies have failed
  setter      \* history: the device whose call was the last to set have_data

fileVars == <<dev, pos>>
callVars == <<op, count>>
copyVars == <<data, moved, buf>>
histVars == <<faults, setter>>
vars == <<sem, have_data, pc, fileVars, callVars, copyVars, sig, histVars>>

Goto(p, l) == pc' = [pc EXCEPT ![p] = l]

Cells == 0 .. Size - 1
Polls == {"pollin", "pollout"}
Ops == {"read", "write"} \cup Polls
Blank == [c \in Cells |-> Empty]

\* The condition each side waits for.
Ready(p) == IF op[p] \in {"read", "pollin"} THEN have_data ELSE ~have_data

(***************************************************************************)
(* The file: mem_open, and mem_llseek, which refuses a place outside.      *)
(***************************************************************************)
\* Closing the file that was open before does nothing.
mem_open(p, d) ==
  /\ pc[p] = "user"
  /\ dev' = [dev EXCEPT ![p] = d]
  /\ pos' = [pos EXCEPT ![p] = 0]
  /\ UNCHANGED <<sem, have_data, pc, callVars, copyVars, sig, histVars>>

Base(p, whence) ==
  CASE whence = "SEEK_SET" -> 0
    [] whence = "SEEK_CUR" -> pos[p]
    [] whence = "SEEK_END" -> Size - 1

mem_llseek(p, whence, offset) ==
  /\ pc[p] = "user"
  /\ Base(p, whence) + offset \in 0 .. Size
  /\ pos' = [pos EXCEPT ![p] = Base(p, whence) + offset]
  /\ UNCHANGED <<sem, have_data, pc, dev, callVars, copyVars, sig, histVars>>

(***************************************************************************)
(* mem_read and mem_write, which differ in the condition and the copy.     *)
(***************************************************************************)
\* At the end of the device both return 0; before it they clip the length.
Call(p, o, size, v) ==
  /\ pc[p] = "user"
  /\ pos[p] < Size
  /\ op' = [op EXCEPT ![p] = o]
  /\ count' = [count EXCEPT ![p] = IF size > Size - pos[p] THEN Size - pos[p] ELSE size]
  /\ buf' = [buf EXCEPT ![p] = IF o = "write" THEN [c \in Cells |-> v] ELSE Blank]
  /\ Goto(p, "down")
  /\ UNCHANGED <<sem, have_data, fileVars, data, moved, sig, histVars>>

\* The poll system call.
PollCall(p, o) ==
  /\ pc[p] = "user"
  /\ op' = [op EXCEPT ![p] = o]
  /\ Goto(p, "poll")
  /\ UNCHANGED <<sem, have_data, fileVars, count, copyVars, sig, histVars>>

\* Where a process goes on that is woken: poll calls mem_poll again.
Resume(q) == IF op[q] \in Polls THEN "poll" ELSE "wait"

\* A signal for a process in the kernel; a sleeper is woken to look at it.
Signal(p) ==
  /\ p \in Signalled /\ pc[p] # "user" /\ ~sig[p]
  /\ sig' = [sig EXCEPT ![p] = TRUE]
  /\ pc' = [pc EXCEPT ![p] = IF pc[p] = "asleep" THEN Resume(p) ELSE pc[p]]
  /\ UNCHANGED <<sem, have_data, fileVars, callVars, copyVars, histVars>>

\* The call's variables are gone, the buffer is the caller's.
Forget(p) ==
  /\ count' = [count EXCEPT ![p] = 0]
  /\ moved' = [moved EXCEPT ![p] = 0]
  /\ buf' = [buf EXCEPT ![p] = Blank]

\* The system call returns and the signal, if any, is delivered.
Return(p) ==
  /\ Goto(p, "user")
  /\ sig' = [sig EXCEPT ![p] = FALSE]
  /\ op' = [op EXCEPT ![p] = "none"]
  /\ Forget(p)

\* down_interruptible: a free semaphore is taken whether or not a signal is
\* pending.
Down(p) ==
  /\ pc[p] = "down"
  /\ sem[dev[p]] > 0
  /\ sem' = [sem EXCEPT ![dev[p]] = @ - 1]
  /\ Goto(p, "test")
  /\ UNCHANGED <<have_data, fileVars, callVars, copyVars, sig, histVars>>

\* -ERESTARTSYS
DownInterrupted(p) ==
  /\ pc[p] = "down"
  /\ sem[dev[p]] = 0 /\ sig[p]
  /\ Return(p)
  /\ UNCHANGED <<sem, have_data, fileVars, data, histVars>>

up(p) == sem' = [sem EXCEPT ![dev[p]] = @ + 1]

\* The head of the while loop.
Test(p) ==
  /\ pc[p] = "test"
  /\ Ready(p)
  /\ Goto(p, "copy")
  /\ UNCHANGED <<sem, have_data, fileVars, callVars, copyVars, sig, histVars>>

\* Its body: up, then -EAGAIN for O_NONBLOCK, else wait.
NotReady(p) ==
  /\ pc[p] = "test"
  /\ ~Ready(p)
  /\ up(p)
  /\ \/ Return(p)
     \/ Goto(p, "wait") /\ UNCHANGED <<callVars, moved, buf, sig>>
  /\ UNCHANGED <<have_data, fileVars, data, histVars>>

\* mutant of Wait: the semaphore is not taken again after the wait
WaitKeep(p) ==
  /\ pc[p] = "wait"
  /\ Goto(p, IF Ready(p) \/ sig[p] THEN "test" ELSE "asleep")
  /\ UNCHANGED <<sem, have_data, fileVars, callVars, copyVars, sig, histVars>>

\* wait_event_interruptible; both results lead to down_interruptible.
Wait(p) ==
  /\ pc[p] = "wait"
  /\ Goto(p, IF Ready(p) \/ sig[p] THEN "down" ELSE "asleep")
  /\ UNCHANGED <<sem, have_data, fileVars, callVars, copyVars, sig, histVars>>

\* copy_to_user and copy_from_user, cell by cell from the file's position.
CopyCell(p) ==
  /\ pc[p] = "copy"
  /\ moved[p] < count[p]
  /\ IF op[p] = "read"
     THEN /\ buf' = [buf EXCEPT ![p][moved[p]] = data[dev[p]][pos[p] + moved[p]]]
          /\ UNCHANGED data
     ELSE /\ data' = [data EXCEPT ![dev[p]][pos[p] + moved[p]] = buf[p][moved[p]]]
          /\ UNCHANGED buf
  /\ moved' = [moved EXCEPT ![p] = @ + 1]
  /\ UNCHANGED <<sem, have_data, pc, fileVars, callVars, sig, histVars>>

\* The copy fails on the way: -EFAULT and a first up; the code goes on.
\* copy_from_user zeroes what it did not get.
CopyFault(p) ==
  /\ pc[p] = "copy"
  /\ moved[p] < count[p]
  /\ faults[dev[p]] < MaxFaults[dev[p]]
  /\ faults' = [faults EXCEPT ![dev[p]] = @ + 1]
  /\ LET lost == pos[p] + moved[p] .. pos[p] + count[p] - 1
     IN  data' = [data EXCEPT ![dev[p]] =
                    [c \in Cells |-> IF op[p] = "write" /\ c \in lost THEN Empty ELSE @[c]]]
  /\ up(p)
  /\ Goto(p, "fault")
  /\ UNCHANGED <<have_data, fileVars, callVars, moved, buf, sig, setter>>

\* mutant of Finish: up is called twice on every path
FinishTwice(p) ==
  /\ \/ pc[p] = "copy" /\ moved[p] = count[p] /\ pos' = [pos EXCEPT ![p] = @ + count[p]]
     \/ pc[p] = "fault" /\ UNCHANGED pos
  /\ have_data' = (op[p] = "write")
  /\ setter' = dev[p]
  /\ sem' = [sem EXCEPT ![dev[p]] = @ + 2]
  /\ Goto(p, "wake")
  /\ Forget(p)
  /\ UNCHANGED <<dev, op, data, sig, faults>>

\* A whole copy moves the file's position.  have_data = false or true; up.
Finish(p) ==
  /\ \/ pc[p] = "copy" /\ moved[p] = count[p] /\ pos' = [pos EXCEPT ![p] = @ + count[p]]
     \/ pc[p] = "fault" /\ UNCHANGED pos
  /\ have_data' = (op[p] = "write")
  /\ setter' = dev[p]
  /\ up(p)
  /\ Goto(p, "wake")
  /\ Forget(p)
  /\ UNCHANGED <<dev, op, data, sig, faults>>

\* mutant of Woken: a read wakes readers, a write writers
WokenOwn(p) == {q \in Proc : pc[q] = "asleep" /\ dev[q] = dev[p] /\ op[q] = op[p]}

\* wake_up of the other side's queue of this device; polls are on both.
Woken(p) == {q \in Proc : pc[q] = "asleep" /\ dev[q] = dev[p] /\ op[q] # op[p]}

\* wake_up; return.
WakeUp(p) ==
  /\ pc[p] = "wake"
  /\ pc' = [q \in Proc |-> IF q = p THEN "user"
                           ELSE IF q \in Woken(p) THEN Resume(q) ELSE pc[q]]
  /\ sig' = [sig EXCEPT ![p] = FALSE]
  /\ op' = [op EXCEPT ![p] = "none"]
  /\ UNCHANGED <<sem, have_data, fileVars, count, copyVars, histVars>>

(***************************************************************************)
(* mem_poll, and the poll system call around it.                           *)
(***************************************************************************)
\* down, which no signal interrupts, and the two poll_wait.
PollDown(p) ==
  /\ pc[p] = "poll"
  /\ sem[dev[p]] > 0
  /\ sem' = [sem EXCEPT ![dev[p]] = @ - 1]
  /\ Goto(p, "polling")
  /\ UNCHANGED <<have_data, fileVars, callVars, copyVars, sig, histVars>>

\* The mask; up.  The system call returns if the mask has what it asked for or
\* a signal is pending, and sleeps otherwise; it is on the queues already, so
\* a wake_up that comes first is not lost.
mem_poll(p) ==
  /\ pc[p] = "polling"
  /\ up(p)
  /\ \/ (Ready(p) \/ sig[p]) /\ Return(p)
     \/ ~Ready(p) /\ ~sig[p] /\ Goto(p, "asleep") /\ UNCHANGED <<callVars, moved, buf, sig>>
  /\ UNCHANGED <<have_data, fileVars, data, histVars>>

(***************************************************************************)
(* The specification.                                                      *)
(***************************************************************************)
\* After memdev_init, with the files open.
Init ==
  /\ sem = [d \in Dev |-> 1]
  /\ have_data = FALSE
  /\ data = [d \in Dev |-> Blank]
  /\ pc = [p \in Proc |-> "user"]
  /\ op = [p \in Proc |-> "none"]
  /\ dev \in {f \in [Proc -> Dev] : \A p \in Proc : f[p] \in Opens[p]}
  /\ pos = [p \in Proc |-> 0]
  /\ count = [p \in Proc |-> 0]
  /\ moved = [p \in Proc |-> 0]
  /\ buf = [p \in Proc |-> Blank]
  /\ sig = [p \in Proc |-> FALSE]
  /\ faults = [d \in Dev |-> 0]
  /\ setter \in Dev

\* Steps the processor takes for p once p is in the call.
InCall(p) ==
  \/ DownInterrupted(p) \/ Test(p) \/ NotReady(p) \/ Wait(p)
  \/ CopyCell(p) \/ CopyFault(p) \/ Finish(p) \/ WakeUp(p) \/ mem_poll(p)

\* What p does of its own accord.
User(p) ==
  \/ \E d \in Opens[p] : mem_open(p, d)
  \/ \E whence \in {"SEEK_SET", "SEEK_CUR", "SEEK_END"}, offset \in -Size .. Size :
       mem_llseek(p, whence, offset)
  \/ \E o \in {"read", "write"}, size \in Lens, v \in Val : Call(p, o, size, v)
  \/ \E o \in Polls : PollCall(p, o)

Next ==
  \E p \in Proc : User(p) \/ Signal(p) \/ Down(p) \/ PollDown(p) \/ InCall(p)

\* The scheduler runs every process that can run, and the semaphore's queue
\* is served in turn.  Nobody has to call or to send a signal.
Fairness == \A p \in Proc : WF_vars(InCall(p)) /\ SF_vars(Down(p) \/ PollDown(p))

Spec == Init /\ [][Next]_vars /\ Fairness

(***************************************************************************)
(* Properties.                                                             *)
(***************************************************************************)
\* Types; a semaphore is never taken below zero.
TypeOK ==
  /\ sem \in [Dev -> Nat]
  /\ have_data \in BOOLEAN
  /\ data \in [Dev -> [Cells -> Val \cup {Empty}]]
  /\ pc \in [Proc -> {"user", "down", "test", "wait", "asleep", "copy",
                      "fault", "wake", "poll", "polling"}]
  /\ op \in [Proc -> Ops \cup {"none"}]
  /\ dev \in [Proc -> Dev]
  /\ pos \in [Proc -> 0 .. Size]
  /\ count \in [Proc -> 0 .. Size]
  /\ moved \in [Proc -> 0 .. Size]
  /\ buf \in [Proc -> [Cells -> Val \cup {Empty}]]
  /\ sig \in [Proc -> BOOLEAN]
  /\ faults \in [Dev -> Nat]
  /\ setter \in Dev

Inside == {"test", "copy", "fault", "polling"}

\* Every path through mem_read, mem_write and mem_poll gives the semaphore back: what
\* is free and what is taken add up to one, plus one for each failing copy,
\* after which up is called twice.  No path keeps it.
SemAccount ==
  \A d \in Dev :
    sem[d] + Cardinality({p \in Proc : pc[p] \in Inside /\ dev[p] = d})
      = 1 + faults[d]

\* What the semaphore is for: while a call copies, what it has moved stays as
\* it was moved, so that a read returns cells that were in the device together
\* and a write is in the device as a whole when it reports success.  Each failing
\* copy leaves the semaphore with one more to give, and so this is said of a
\* device on which no copy has failed yet.
CopyWhole ==
  \A p \in Proc :
    pc[p] = "copy" /\ faults[dev[p]] = 0 =>
      \A c \in 0 .. moved[p] - 1 : buf[p][c] = data[dev[p]][pos[p] + c]

\* wake_up in mem_write and mem_read: a process that sleeps although what it
\* waits for is there is served, or another one gets it; also one in poll.
\* have_data is shared and wake_up goes to one device's queue, so this is said
\* of a flag that a call on the sleeper's own device has set.
SleeperServed ==
  \A p \in Proc :
    (pc[p] = "asleep" /\ Ready(p) /\ setter = dev[p]) ~> (~Ready(p) \/ pc[p] = "user")
=============================================================================
