----------------------------- MODULE ButtonsDrv ------------------------------
(***************************************************************************)
(* The character driver for the four keys (drivers_and_test,               *)
(* 7th_buttons_all/buttons.c): open takes a semaphore and the interrupts,  *)
(* every edge of a key restarts a 10 ms timer, the timer function turns    *)
(* the level of the key that moved last into key_val, sets ev_press and    *)
(* wakes the readers.                                                      *)
(*                                                                         *)
(* The kernel is a uniprocessor one without preemption: a process that is  *)
(* in the kernel gives way to another only where it sleeps, while edges    *)
(* and the timer softirq come between any two of its steps, and an edge    *)
(* also between the steps of the timer function.  The test of the          *)
(* condition and the sleep in wait_event_interruptible and in down are one *)
(* step, as the kernel guarantees.  The byte that is copied to is resident.*)
(***************************************************************************)
EXTENDS Integers

CONSTANTS
  Proc,      \* processes
  Key,       \* pins_desc: the keys
  None,      \* NULL
  MaxEdges   \* bound: edges of all keys together

ASSUME NoneAssumption == None \notin Proc /\ None \notin Key
ASSUME MaxEdgesAssumption == MaxEdges \in Nat

VARIABLES
  loaded,       \* the module is in the kernel
  button_lock,  \* the semaphore's count
  registered,   \* request_irq has succeeded for the four lines
  file,         \* file[p]: who opened the file that p holds, or None
  O_NONBLOCK,   \* O_NONBLOCK[f]: f_flags of the file that f opened
  pc,           \* where each process is
  ret,          \* ret[p]: what wait_event_interruptible returned
  ev_press,
  key_val,      \* the key and its level
  irq_pd,
  armed,        \* buttons_timer is pending
  pindesc,      \* the local of the timer function while it runs, or None
  pin,          \* external: pin[k] is TRUE when k is released
  edges,        \* external: number of edges so far
  unread,       \* history: no read has returned this key_val yet
  moved,        \* history: the key that moved last while the device was open
  missed        \* history: keys that moved last while nobody had them open

fileVars  == <<loaded, button_lock, registered, file, O_NONBLOCK>>
callVars  == <<pc, ret>>
eventVars == <<ev_press, key_val, unread>>
timerVars == <<irq_pd, armed, pindesc>>
pinVars   == <<pin, edges, moved, missed>>
vars == <<fileVars, callVars, eventVars, timerVars, pinVars>>

ERESTARTSYS == 512

\* 0x80 | pindesc->key_val when the key is released, pindesc->key_val else.
KeyVal(k, released) == [key |-> k, released |-> released]

(***************************************************************************)
(* Interrupts.                                                             *)
(***************************************************************************)
\* mutant of buttons_irq: an edge during the 10 ms is taken for a bounce of
\* the key that moved first
buttons_irqFirst(k) ==
  /\ irq_pd' = IF armed THEN irq_pd ELSE k
  /\ armed' = TRUE

\* Remember the key and restart the timer.
buttons_irq(k) ==
  /\ irq_pd' = k
  /\ armed' = TRUE

\* External: a key moves; the handler runs if it is registered.
Edge(k) ==
  /\ edges < MaxEdges
  /\ edges' = edges + 1
  /\ pin' = [pin EXCEPT ![k] = ~pin[k]]
  /\ \/ /\ registered
        /\ buttons_irq(k)
        /\ moved' = k
        /\ missed' = missed \ {k}
     \/ /\ ~registered
        /\ missed' = missed \cup {k}
        /\ UNCHANGED <<irq_pd, armed, moved>>
  /\ UNCHANGED <<fileVars, callVars, eventVars, pindesc>>

\* The timer expires; the early return leaves before an edge has come.
TimerExpires ==
  /\ loaded /\ armed /\ pindesc = None
  /\ armed' = FALSE
  /\ pindesc' = irq_pd
  /\ UNCHANGED <<fileVars, callVars, eventVars, irq_pd, pinVars>>

\* mutant of Woken: wake_up_interruptible is forgotten
WokenNone == pc

\* wake_up_interruptible: every sleeping reader is to test again.
Woken == [p \in Proc |-> IF pc[p] = "asleep" THEN "wait" ELSE pc[p]]

\* kill_fasync, which follows, is a signal: see Interrupted.
buttons_timer_function ==
  /\ pindesc # None
  /\ key_val' = KeyVal(pindesc, pin[pindesc])
  /\ unread' = TRUE
  /\ ev_press' = TRUE
  /\ pc' = Woken
  /\ pindesc' = None
  /\ UNCHANGED <<fileVars, ret, irq_pd, armed, pinVars>>

(***************************************************************************)
(* Processes.  p can take a step when no interrupt code and no other       *)
(* process is in the middle of something.                                  *)
(***************************************************************************)
Runs(p) ==
  /\ loaded
  /\ pindesc = None
  /\ \A q \in Proc \ {p} : pc[q] \notin {"copy", "clear"}

Holders(f) == {p \in Proc : file[p] = f}

\* sixth_drv_open enters; down sleeps when the semaphore is taken.
OpenCall(p) ==
  /\ Runs(p) /\ pc[p] = "user" /\ file[p] = None
  /\ pc' = [pc EXCEPT ![p] = "down"]
  /\ UNCHANGED <<fileVars, ret, eventVars, timerVars, pinVars>>

\* The rest of open, with the semaphore taken.  A line that has a handler
\* already refuses another one, and the code does not look.
Opened(p, nonblock) ==
  /\ button_lock' = 0
  /\ registered' = TRUE
  /\ file' = [file EXCEPT ![p] = p]
  /\ O_NONBLOCK' = [O_NONBLOCK EXCEPT ![p] = nonblock]
  /\ pc' = [pc EXCEPT ![p] = "user"]
  /\ UNCHANGED <<loaded, ret, eventVars, timerVars, pinVars>>

Down(p) ==
  /\ Runs(p) /\ pc[p] = "down"
  /\ button_lock > 0
  /\ Opened(p, FALSE)

\* mutant of TryDown: the result of down_trylock is not looked at
TryDownUnchecked(p) ==
  /\ Runs(p) /\ pc[p] = "user" /\ file[p] = None
  /\ Opened(p, TRUE)

\* open with O_NONBLOCK: -EBUSY, and no change, when the semaphore is taken.
TryDown(p) ==
  /\ Runs(p) /\ pc[p] = "user" /\ file[p] = None
  /\ button_lock > 0
  /\ Opened(p, TRUE)

\* External: fork gives q the parent's open file.
Fork(p, q) ==
  /\ Runs(p) /\ pc[p] = "user" /\ pc[q] = "user"
  /\ file[p] # None /\ file[q] = None
  /\ file' = [file EXCEPT ![q] = file[p]]
  /\ UNCHANGED <<loaded, button_lock, registered, O_NONBLOCK, callVars,
                 eventVars, timerVars, pinVars>>

\* free_irq of the four lines, up.
sixth_drv_close ==
  /\ registered' = FALSE
  /\ button_lock' = button_lock + 1

LastHolder(p) == Holders(file[p]) = {p}

\* .release is called when the last holder closes.
Close(p) ==
  /\ Runs(p) /\ pc[p] = "user" /\ file[p] # None
  /\ file' = [file EXCEPT ![p] = None]
  /\ IF LastHolder(p) THEN sixth_drv_close
                      ELSE UNCHANGED <<registered, button_lock>>
  /\ UNCHANGED <<loaded, O_NONBLOCK, callVars, eventVars, timerVars, pinVars>>

\* sixth_drv_read(size = 1) enters; another size returns -EINVAL at once.
ReadCall(p) ==
  /\ Runs(p) /\ pc[p] = "user" /\ file[p] # None
  /\ IF O_NONBLOCK[file[p]]
     THEN /\ ev_press             \* else -EAGAIN
          /\ pc' = [pc EXCEPT ![p] = "copy"]
     ELSE pc' = [pc EXCEPT ![p] = "wait"]
  /\ UNCHANGED <<fileVars, ret, eventVars, timerVars, pinVars>>

\* wait_event_interruptible: leave if ev_press, sleep otherwise.
Wait(p) ==
  /\ Runs(p) /\ pc[p] = "wait"
  /\ pc' = [pc EXCEPT ![p] = IF ev_press THEN "copy" ELSE "asleep"]
  /\ UNCHANGED <<fileVars, ret, eventVars, timerVars, pinVars>>

\* A signal ends the wait when the condition is still false.  The code does
\* not look at the result.
Interrupted(p) ==
  /\ Runs(p) /\ pc[p] \in {"wait", "asleep"}
  /\ ~ev_press
  /\ ret' = [ret EXCEPT ![p] = -ERESTARTSYS]
  /\ pc' = [pc EXCEPT ![p] = "copy"]
  /\ UNCHANGED <<fileVars, eventVars, timerVars, pinVars>>

\* copy_to_user(buf, &key_val, 1)
Copy(p) ==
  /\ Runs(p) /\ pc[p] = "copy"
  /\ unread' = FALSE
  /\ pc' = [pc EXCEPT ![p] = "clear"]
  /\ UNCHANGED <<fileVars, ret, ev_press, key_val, timerVars, pinVars>>

\* mutant of ReadReturns: ev_press is not cleared
ReadReturnsSet(p) ==
  /\ Runs(p) /\ pc[p] = "clear"
  /\ ret' = [ret EXCEPT ![p] = 0]
  /\ pc' = [pc EXCEPT ![p] = "user"]
  /\ UNCHANGED <<fileVars, eventVars, timerVars, pinVars>>

\* ev_press = 0; return 1
ReadReturns(p) ==
  /\ Runs(p) /\ pc[p] = "clear"
  /\ ev_press' = FALSE
  /\ ret' = [ret EXCEPT ![p] = 0]
  /\ pc' = [pc EXCEPT ![p] = "user"]
  /\ UNCHANGED <<fileVars, key_val, unread, timerVars, pinVars>>

\* rmmod: the kernel allows it when no file is open and no open is under
\* way.  The timer is left as it is.
sixth_drv_exit ==
  /\ loaded /\ pindesc = None
  /\ \A p \in Proc : file[p] = None /\ pc[p] = "user"
  /\ loaded' = FALSE
  /\ UNCHANGED <<button_lock, registered, file, O_NONBLOCK, callVars,
                 eventVars, timerVars, pinVars>>

(***************************************************************************)
(* The specification.                                                      *)
(***************************************************************************)
\* After sixth_drv_init: add_timer has started the timer once.
Init ==
  /\ loaded = TRUE
  /\ button_lock = 1 /\ registered = FALSE
  /\ file = [p \in Proc |-> None]
  /\ O_NONBLOCK = [p \in Proc |-> FALSE]
  /\ pc = [p \in Proc |-> "user"]
  /\ ret = [p \in Proc |-> 0]
  /\ ev_press = FALSE /\ key_val = None /\ unread = FALSE
  /\ irq_pd = None /\ armed = TRUE /\ pindesc = None
  /\ pin = [k \in Key |-> TRUE]
  /\ edges = 0 /\ moved = None /\ missed = {}

\* Steps a process takes by itself once it is in a call.
InCall(p) == Down(p) \/ Wait(p) \/ Copy(p) \/ ReadReturns(p)

ProcStep(p) ==
  \/ OpenCall(p) \/ TryDown(p) \/ Close(p) \/ ReadCall(p) \/ Interrupted(p)
  \/ (\E q \in Proc \ {p} : Fork(p, q))
  \/ InCall(p)

Next ==
  \/ \E k \in Key : Edge(k)
  \/ TimerExpires
  \/ buttons_timer_function
  \/ \E p \in Proc : ProcStep(p)
  \/ sixth_drv_exit

\* Timers expire and softirqs finish; the scheduler runs every runnable
\* process.  Nobody has to press a key, to read, or to send a signal.
Fairness ==
  /\ WF_vars(TimerExpires)
  /\ WF_vars(buttons_timer_function)
  /\ \A p \in Proc : WF_vars(InCall(p))

Spec == Init /\ [][Next]_vars /\ Fairness

(***************************************************************************)
(* Properties.                                                             *)
(***************************************************************************)
KeyVals == [key : Key, released : BOOLEAN]

\* Types; the semaphore stays binary.
TypeOK ==
  /\ loaded \in BOOLEAN
  /\ button_lock \in {0, 1}
  /\ registered \in BOOLEAN
  /\ file \in [Proc -> Proc \cup {None}]
  /\ O_NONBLOCK \in [Proc -> BOOLEAN]
  /\ pc \in [Proc -> {"user", "down", "wait", "asleep", "copy", "clear"}]
  /\ ret \in [Proc -> {0, -ERESTARTSYS}]
  /\ ev_press \in BOOLEAN
  /\ key_val \in KeyVals \cup {None}
  /\ unread \in BOOLEAN
  /\ irq_pd \in Key \cup {None}
  /\ armed \in BOOLEAN
  /\ pindesc \in Key \cup {None}
  /\ pin \in [Key -> BOOLEAN]
  /\ edges \in 0 .. MaxEdges
  /\ moved \in Key \cup {None}
  /\ missed \subseteq Key

\* sixth_drv_open: one file at a time, shared only by fork; while anyone
\* holds it the interrupts are on and the semaphore is taken, and both are
\* given back when the last holder closes.
OneOpenFile ==
  /\ \A p, q \in Proc : file[p] # None /\ file[q] # None => file[p] = file[q]
  /\ registered <=> \E p \in Proc : file[p] # None
  /\ button_lock = 0 <=> registered

\* sixth_drv_read: a read whose wait ended because of ev_press returns a key
\* action that no read has returned before, whatever other readers do.
NoRepeat == \A p \in Proc : pc[p] = "copy" /\ ret[p] = 0 => unread

\* buttons_timer_function: a reader sleeps only while ev_press is 0: every
\* wake-up reaches every sleeper.
SleepersTold == \A p \in Proc : pc[p] = "asleep" => ~ev_press

\* What the comment in sixth_drv_read says: it sleeps if there is no key
\* action (none that has not been read).
SleepsOnlyIdle == \A p \in Proc : pc[p] = "asleep" => ~unread

\* The debouncing of buttons_irq: once the timer has run out, key_val is
\* the settled level of the key that moved last, unless that key has moved
\* again while the device was closed.
Debounced ==
  (~armed /\ pindesc = None /\ moved # None /\ moved \notin missed)
    => key_val = KeyVal(moved, pin[moved])

\* An edge seen while a reader sleeps leads to a read that returns, provided
\* no reader is just between copy_to_user and ev_press = 0.
EdgeIsRead ==
  (/\ armed /\ irq_pd # None
   /\ \E p \in Proc : pc[p] = "asleep"
   /\ \A q \in Proc : pc[q] # "clear")
    ~> \E p \in Proc : pc[p] = "copy"
=============================================================================
