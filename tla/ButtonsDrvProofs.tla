-------------------------- MODULE ButtonsDrvProofs ---------------------------
(***************************************************************************)
(* The safety properties of ButtonsDrv for every set of processes and of   *)
(* keys and any number of edges.                                           *)
(***************************************************************************)
EXTENDS ButtonsDrv, TLAPS

USE NoneAssumption, MaxEdgesAssumption

\* The kernel does not preempt: one process at a time is past the wait.
OneInside ==
  \A p, q \in Proc :
    pc[p] \in {"copy", "clear"} /\ pc[q] \in {"copy", "clear"} => p = q

\* ev_press is set for a key action that has not been read, except while the
\* one that has just been copied is about to be taken back.
PressUnread == ev_press => unread \/ \E q \in Proc : pc[q] = "clear"

\* A wait that nothing has interrupted yet has no error to report.
RetClean == \A p \in Proc : pc[p] \notin {"copy", "clear"} => ret[p] = 0

\* buttons_irq leaves irq_pd at the last edge.
IrqPdLast == irq_pd = moved

\* The timer function works on the last edge unless another came since.
PindescLast == pindesc # None /\ ~armed => pindesc = irq_pd

IInv ==
  /\ TypeOK
  /\ OneOpenFile
  /\ OneInside /\ PressUnread /\ RetClean /\ NoRepeat
  /\ SleepersTold
  /\ IrqPdLast /\ PindescLast /\ Debounced

\* buttons.c starts in a good state.
LEMMA InitInv == Init => IInv
<1> SUFFICES ASSUME Init PROVE IInv
  OBVIOUS
<1> USE DEF Init
<1>1. TypeOK
  <2>1. /\ loaded \in BOOLEAN
        /\ button_lock \in {0, 1}
        /\ registered \in BOOLEAN
        /\ ev_press \in BOOLEAN
        /\ key_val \in KeyVals \cup {None}
        /\ unread \in BOOLEAN
        /\ irq_pd \in Key \cup {None}
        /\ armed \in BOOLEAN
        /\ pindesc \in Key \cup {None}
        /\ moved \in Key \cup {None}
        /\ missed \subseteq Key
    BY Zenon
  <2>2. /\ file \in [Proc -> Proc \cup {None}]
        /\ O_NONBLOCK \in [Proc -> BOOLEAN]
        /\ pc \in [Proc -> {"user", "down", "wait", "asleep", "copy",
                            "clear"}]
        /\ pin \in [Key -> BOOLEAN]
    OBVIOUS
  <2>3. /\ ret \in [Proc -> {0, -ERESTARTSYS}]
        /\ edges \in 0 .. MaxEdges
    BY DEF ERESTARTSYS
  <2> HIDE DEF Init
  <2> QED
    BY <2>1, <2>2, <2>3 DEF TypeOK
<1>2. OneOpenFile
  BY DEF OneOpenFile
<1>3. OneInside /\ PressUnread /\ RetClean /\ NoRepeat
  BY DEF OneInside, PressUnread, RetClean, NoRepeat
<1>4. SleepersTold /\ IrqPdLast /\ PindescLast /\ Debounced
  BY DEF SleepersTold, IrqPdLast, PindescLast, Debounced
<1> QED
  BY <1>1, <1>2, <1>3, <1>4 DEF IInv

\* Every step keeps the types; that the semaphore stays binary needs
\* OneOpenFile.
LEMMA TypeStep == IInv /\ [Next]_vars => TypeOK'
<1> SUFFICES ASSUME TypeOK, OneOpenFile, [Next]_vars PROVE TypeOK'
  BY DEF IInv
<1> USE DEF TypeOK, KeyVals, fileVars, callVars, eventVars, timerVars, pinVars,
            ERESTARTSYS
<1>1. CASE \E k \in Key : Edge(k)
  <2> PICK k \in Key : Edge(k)
    BY <1>1
  <2>1. pin' \in [Key -> BOOLEAN]
    <3>1. pin' = [pin EXCEPT ![k] = ~pin[k]]
      BY DEF Edge
    <3>2. (~pin[k]) \in BOOLEAN
      OBVIOUS
    <3> QED
      BY <3>1, <3>2
  <2>2. edges' \in 0 .. MaxEdges
    BY DEF Edge
  <2>3. missed' \subseteq Key
    <3>1. missed' \in {missed \ {k}, missed \cup {k}}
      BY Zenon DEF Edge
    <3> QED
      BY <3>1
  <2>4. /\ irq_pd' \in Key \cup {None} /\ moved' \in Key \cup {None}
        /\ armed' \in BOOLEAN
    <3>1. CASE registered
      <4>1. irq_pd' = k /\ moved' = k /\ armed' = TRUE
        BY <3>1, Zenon DEF Edge, buttons_irq
      <4> QED
        BY <4>1, Zenon
    <3>2. CASE ~registered
      <4>1. UNCHANGED <<irq_pd, armed, moved>>
        BY <3>2, Zenon DEF Edge
      <4>2. irq_pd' = irq_pd /\ moved' = moved /\ armed' = armed
        BY <4>1
      <4> QED
        BY <4>2
    <3> QED
      BY <3>1, <3>2
  <2>5. /\ loaded' = loaded /\ button_lock' = button_lock
        /\ registered' = registered /\ file' = file
        /\ O_NONBLOCK' = O_NONBLOCK /\ pc' = pc /\ ret' = ret
        /\ ev_press' = ev_press /\ key_val' = key_val /\ unread' = unread
        /\ pindesc' = pindesc
    BY DEF Edge
  <2> QED
    BY <2>1, <2>2, <2>3, <2>4, <2>5, Zenon
<1>2. CASE TimerExpires
  BY <1>2 DEF TimerExpires
<1>3. CASE buttons_timer_function
  BY <1>3 DEF buttons_timer_function, KeyVal, Woken
<1>4. ASSUME NEW p \in Proc, ProcStep(p) PROVE TypeOK'
  <2>1. CASE OpenCall(p)      BY <2>1 DEF OpenCall
  <2>2. CASE TryDown(p)       BY <2>2 DEF TryDown, Opened
  <2>3. CASE Close(p)
    <3>1. button_lock = 0
      BY <2>3 DEF Close, OneOpenFile
    <3>2. /\ button_lock' \in {0, 1}
          /\ registered' \in BOOLEAN
      <4>1. CASE LastHolder(p)
        <5>1. button_lock' = button_lock + 1 /\ registered' = FALSE
          BY <2>3, <4>1, Zenon DEF Close, sixth_drv_close
        <5>2. button_lock' = 1
          BY <3>1, <5>1
        <5> QED
          BY <5>1, <5>2, Zenon
      <4>2. CASE ~LastHolder(p)
        BY <2>3, <4>2 DEF Close
      <4> QED
        BY <4>1, <4>2
    <3>3. file' \in [Proc -> Proc \cup {None}]
      BY <2>3 DEF Close
    <3> QED
      BY <2>3, <3>2, <3>3 DEF Close
  <2>4. CASE ReadCall(p)      BY <2>4 DEF ReadCall
  <2>5. CASE Interrupted(p)   BY <2>5 DEF Interrupted
  <2>6. CASE \E q \in Proc \ {p} : Fork(p, q)
    BY <2>6 DEF Fork
  <2>7. CASE Down(p)          BY <2>7 DEF Down, Opened
  <2>8. CASE Wait(p)          BY <2>8 DEF Wait
  <2>9. CASE Copy(p)          BY <2>9 DEF Copy
  <2>10. CASE ReadReturns(p)
    <3>1. /\ loaded' = loaded /\ button_lock' = button_lock
          /\ registered' = registered /\ file' = file
          /\ O_NONBLOCK' = O_NONBLOCK /\ key_val' = key_val /\ unread' = unread
          /\ irq_pd' = irq_pd /\ armed' = armed /\ pindesc' = pindesc
          /\ pin' = pin /\ edges' = edges /\ moved' = moved /\ missed' = missed
      BY <2>10 DEF ReadReturns
    <3>2. ret' \in [Proc -> {0, -ERESTARTSYS}]
      BY <2>10 DEF ReadReturns
    <3>3. pc' \in [Proc -> {"user", "down", "wait", "asleep", "copy", "clear"}]
      BY <2>10 DEF ReadReturns
    <3>4. ev_press' \in BOOLEAN
      BY <2>10, Zenon DEF ReadReturns
    <3> QED
      BY <3>1, <3>2, <3>3, <3>4
  <2> QED
    BY <1>4, <2>1, <2>2, <2>3, <2>4, <2>5, <2>6, <2>7, <2>8, <2>9, <2>10
       DEF ProcStep, InCall
<1>5. CASE sixth_drv_exit
  BY <1>5 DEF sixth_drv_exit
<1>6. CASE UNCHANGED vars
  BY <1>6 DEF vars
<1> QED
  BY <1>1, <1>2, <1>3, <1>4, <1>5, <1>6 DEF Next

\* Opening, sharing and closing: the file is exclusive, and the interrupts
\* and the semaphore follow it.
LEMMA OpenStep == IInv /\ [Next]_vars => OneOpenFile'
<1> SUFFICES ASSUME TypeOK, OneOpenFile, [Next]_vars PROVE OneOpenFile'
  BY DEF IInv
<1> USE DEF OneOpenFile, TypeOK
<1>1. ASSUME NEW p \in Proc, TryDown(p) \/ Down(p) PROVE OneOpenFile'
  BY <1>1 DEF TryDown, Down, Opened
<1>2. ASSUME NEW p \in Proc, Close(p) PROVE OneOpenFile'
  <2>1. CASE LastHolder(p)
    <3>1. \A q \in Proc : file'[q] = None
      BY <1>2, <2>1 DEF Close, LastHolder, Holders
    <3> QED
      BY <1>2, <2>1, <3>1 DEF Close, sixth_drv_close
  <2>2. CASE ~LastHolder(p)
    <3>1. PICK q \in Proc \ {p} : file[q] = file[p]
      BY <2>2 DEF LastHolder, Holders
    <3>2. file'[q] # None
      BY <1>2, <3>1 DEF Close
    <3> QED
      BY <1>2, <2>2, <3>2 DEF Close
  <2> QED
    BY <2>1, <2>2
<1>3. ASSUME NEW p \in Proc, NEW q \in Proc \ {p}, Fork(p, q)
      PROVE  OneOpenFile'
  BY <1>3 DEF Fork
<1>4. CASE UNCHANGED <<button_lock, registered, file>>
  BY <1>4
<1> QED
  BY <1>1, <1>2, <1>3, <1>4
     DEF Next, ProcStep, InCall, Edge, TimerExpires, buttons_timer_function,
         OpenCall, ReadCall, Interrupted, Wait, Copy, ReadReturns,
         sixth_drv_exit, vars, fileVars

\* Reading: one process inside, and a read returns what nobody has read.
LEMMA ReadStep ==
  IInv /\ [Next]_vars => (OneInside /\ PressUnread /\ RetClean /\ NoRepeat)'
<1> DEFINE R == OneInside /\ PressUnread /\ RetClean /\ NoRepeat
<1> SUFFICES ASSUME TypeOK, R, [Next]_vars PROVE R'
  BY DEF IInv
<1> USE DEF OneInside, PressUnread, RetClean, NoRepeat, TypeOK
<1>1. CASE buttons_timer_function
  BY <1>1 DEF buttons_timer_function, Woken
<1>2. ASSUME NEW p \in Proc, ReadCall(p) PROVE R'
  BY <1>2 DEF ReadCall, Runs, eventVars
<1>3. ASSUME NEW p \in Proc, Wait(p) PROVE R'
  BY <1>3 DEF Wait, Runs, eventVars
<1>4. ASSUME NEW p \in Proc, Interrupted(p) PROVE R'
  BY <1>4 DEF Interrupted, Runs, eventVars, ERESTARTSYS
<1>5. ASSUME NEW p \in Proc, Copy(p) PROVE R'
  BY <1>5 DEF Copy, Runs
<1>6. ASSUME NEW p \in Proc, ReadReturns(p) PROVE R'
  BY <1>6 DEF ReadReturns, Runs
<1>7. ASSUME NEW p \in Proc, OpenCall(p) PROVE R'
  BY <1>7 DEF OpenCall, eventVars
<1>8. ASSUME NEW p \in Proc, TryDown(p) \/ Down(p) PROVE R'
  BY <1>8 DEF TryDown, Down, Opened, eventVars
<1>9. CASE UNCHANGED <<callVars, eventVars>>
  BY <1>9 DEF callVars, eventVars
<1> QED
  BY <1>1, <1>2, <1>3, <1>4, <1>5, <1>6, <1>7, <1>8, <1>9
     DEF Next, ProcStep, InCall, Edge, TimerExpires, Fork, Close,
         sixth_drv_exit, vars

\* Waking: nobody sleeps while ev_press is set.
LEMMA SleepStep == IInv /\ [Next]_vars => SleepersTold'
<1> SUFFICES ASSUME TypeOK, SleepersTold, [Next]_vars PROVE SleepersTold'
  BY DEF IInv
<1> USE DEF SleepersTold, TypeOK
<1>1. CASE buttons_timer_function
  BY <1>1 DEF buttons_timer_function, Woken
<1>2. ASSUME NEW p \in Proc,
             \/ OpenCall(p) \/ TryDown(p) \/ Down(p) \/ ReadCall(p)
             \/ Interrupted(p) \/ Wait(p) \/ Copy(p) \/ ReadReturns(p)
      PROVE  SleepersTold'
  BY <1>2 DEF OpenCall, TryDown, Down, Opened, ReadCall, Interrupted, Wait,
              Copy, ReadReturns, eventVars
<1>3. CASE UNCHANGED <<pc, ev_press>>
  BY <1>3
<1> QED
  BY <1>1, <1>2, <1>3
     DEF Next, ProcStep, InCall, Edge, TimerExpires, Fork, Close,
         sixth_drv_exit, vars, callVars, eventVars

\* Debouncing: the timer function reports the last edge.
LEMMA TimerStep == IInv /\ [Next]_vars => (IrqPdLast /\ PindescLast /\ Debounced)'
<1> SUFFICES ASSUME TypeOK, IrqPdLast, PindescLast, Debounced, [Next]_vars
             PROVE  (IrqPdLast /\ PindescLast /\ Debounced)'
  BY DEF IInv
<1> USE DEF IrqPdLast, PindescLast, Debounced, TypeOK
<1>1. ASSUME NEW k \in Key, Edge(k) PROVE (IrqPdLast /\ PindescLast /\ Debounced)'
  BY <1>1 DEF Edge, buttons_irq, eventVars
<1>2. CASE TimerExpires
  BY <1>2 DEF TimerExpires, pinVars, eventVars
<1>3. CASE buttons_timer_function
  BY <1>3 DEF buttons_timer_function, pinVars
<1>4. CASE UNCHANGED <<key_val, timerVars, pinVars>>
  BY <1>4 DEF timerVars, pinVars
<1> QED
  BY <1>1, <1>2, <1>3, <1>4
     DEF Next, ProcStep, InCall, OpenCall, TryDown, Down, Opened, Fork, Close,
         ReadCall, Interrupted, Wait, Copy, ReadReturns, sixth_drv_exit, vars,
         eventVars

\* The inductive invariant holds in every state of the driver.
LEMMA Inductive == Spec => []IInv
<1>1. IInv /\ [Next]_vars => IInv'
  BY TypeStep, OpenStep, ReadStep, SleepStep, TimerStep DEF IInv
<1> QED
  BY InitInv, <1>1, PTL DEF Spec

\* sixth_drv_open and sixth_drv_close, for any number of processes that
\* open, share and close in any order: one file at a time, the interrupts
\* are registered exactly while it is open.
THEOREM ExclusiveOpen == Spec => [](TypeOK /\ OneOpenFile)
<1>1. IInv => TypeOK /\ OneOpenFile
  BY DEF IInv
<1> QED
  BY Inductive, <1>1, PTL

\* sixth_drv_read, for any number of readers: no uninterrupted read returns
\* a key action twice.
THEOREM ReadOnce == Spec => []NoRepeat
<1>1. IInv => NoRepeat
  BY DEF IInv
<1> QED
  BY Inductive, <1>1, PTL

\* wake_up_interruptible reaches every sleeper.
THEOREM NoSleeperForgotten == Spec => []SleepersTold
<1>1. IInv => SleepersTold
  BY DEF IInv
<1> QED
  BY Inductive, <1>1, PTL

\* buttons_irq and buttons_timer_function, for any number of keys and
\* edges: key_val settles to the level of the key that moved last.
THEOREM Debouncing == Spec => []Debounced
<1>1. IInv => Debounced
  BY DEF IInv
<1> QED
  BY Inductive, <1>1, PTL
=============================================================================
