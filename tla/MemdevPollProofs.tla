-------------------------- MODULE MemdevPollProofs ---------------------------
(***************************************************************************)
(* MemdevPoll for any number of processes, devices, cells and failing      *)
(* copies: every path gives the semaphore back, a copy is whole as long as *)
(* none has failed on its device, and no wake_up is lost on the device     *)
(* whose call set the flag.                                                *)
(***************************************************************************)
EXTENDS MemdevPoll, FiniteSetTheorems, TLAPS

(***************************************************************************)
(* Types.  A copy stays inside the device because mem_read and mem_write   *)
(* clip the length, and the position does not move during the call.        *)
(***************************************************************************)
Places == {"user", "down", "test", "wait", "asleep", "copy", "fault", "wake",
           "poll", "polling"}

Fits ==
  \A p \in Proc :
    /\ pos[p] + count[p] <= Size
    /\ moved[p] <= count[p]
    /\ pc[p] \in {"user", "wake"} => count[p] = 0
    /\ pc[p] \notin {"copy", "fault"} => moved[p] = 0

TypeInv == TypeOK /\ Fits

LEMMA InitType == Init => TypeInv
<1> SUFFICES ASSUME Init PROVE TypeInv
  OBVIOUS
<1> USE SizeAssumption
<1>1. sem \in [Dev -> Nat] /\ faults \in [Dev -> Nat] /\ setter \in Dev
  BY DEF Init
<1>2. have_data \in BOOLEAN /\ sig \in [Proc -> BOOLEAN]
  BY Zenon DEF Init
<1>3. Blank \in [Cells -> Val \cup {Empty}]
  BY DEF Blank
<1>4. /\ data \in [Dev -> [Cells -> Val \cup {Empty}]]
      /\ buf \in [Proc -> [Cells -> Val \cup {Empty}]]
  BY <1>3, Zenon DEF Init
<1>5. /\ pc \in [Proc -> Places]
      /\ op \in [Proc -> Ops \cup {"none"}]
      /\ dev \in [Proc -> Dev]
  BY DEF Init, Places
<1>6. /\ pos \in [Proc -> 0 .. Size]
      /\ count \in [Proc -> 0 .. Size]
      /\ moved \in [Proc -> 0 .. Size]
      /\ Fits
  BY DEF Init, Fits
<1> QED
  BY <1>1, <1>2, <1>4, <1>5, <1>6 DEF TypeInv, TypeOK, Places

\* What becomes of the call's variables when it is over.
LEMMA ForgetType ==
  ASSUME TypeInv, NEW p \in Proc, Forget(p)
  PROVE  /\ count' \in [Proc -> 0 .. Size] /\ moved' \in [Proc -> 0 .. Size]
         /\ buf' \in [Proc -> [Cells -> Val \cup {Empty}]]
         /\ count'[p] = 0 /\ moved'[p] = 0
         /\ \A q \in Proc : q # p => count'[q] = count[q] /\ moved'[q] = moved[q]
<1>1. Blank \in [Cells -> Val \cup {Empty}]
  BY DEF Blank
<1>2. buf' \in [Proc -> [Cells -> Val \cup {Empty}]]
  BY <1>1 DEF Forget, TypeInv, TypeOK
<1> QED
  BY <1>2, SizeAssumption DEF Forget, TypeInv, TypeOK

\* One cell of one device or buffer is written.
LEMMA CellWritten ==
  ASSUME NEW S, NEW T, NEW V, NEW f \in [S -> [T -> V]],
         NEW s \in S, NEW t \in T, NEW v \in V,
         NEW g, g = [f EXCEPT ![s][t] = v]
  PROVE  /\ g \in [S -> [T -> V]]
         /\ g[s][t] = v
         /\ \A x \in S : x # s => g[x] = f[x]
         /\ \A y \in T : y # t => g[s][y] = f[s][y]
OBVIOUS

\* Every step keeps the types and stays inside the device.
LEMMA TypeStep == TypeInv /\ [Next]_vars => TypeInv'
<1> SUFFICES ASSUME TypeInv, [Next]_vars PROVE TypeInv'
  OBVIOUS
<1> USE SizeAssumption DEF TypeInv, TypeOK, Fits, fileVars, callVars, copyVars,
                           histVars, Goto
<1>1. ASSUME NEW p \in Proc, NEW d \in Opens[p], mem_open(p, d) PROVE TypeInv'
  <2>1. d \in Dev
    BY OpensAssumption
  <2>2. dev' \in [Proc -> Dev] /\ pos' \in [Proc -> 0 .. Size] /\ Fits'
    BY <1>1, <2>1 DEF mem_open
  <2> QED
    BY <1>1, <2>2 DEF mem_open
<1>2. ASSUME NEW p \in Proc, NEW whence, NEW offset, mem_llseek(p, whence, offset)
      PROVE  TypeInv'
  BY <1>2 DEF mem_llseek
<1>3. ASSUME NEW p \in Proc, NEW o \in {"read", "write"}, NEW size \in Lens,
             NEW v \in Val, Call(p, o, size, v)
      PROVE  TypeInv'
  <2>1. size \in Nat
    BY LensAssumption
  <2>2. count' \in [Proc -> 0 .. Size] /\ Fits'
    BY <1>3, <2>1 DEF Call
  <2>3. buf' \in [Proc -> [Cells -> Val \cup {Empty}]]
    BY <1>3 DEF Call, Blank
  <2> QED
    BY <1>3, <2>2, <2>3 DEF Call, Ops
<1>4. ASSUME NEW p \in Proc, NEW o \in Polls, PollCall(p, o) PROVE TypeInv'
  BY <1>4 DEF PollCall, Ops
<1>5. ASSUME NEW p \in Proc, Signal(p) PROVE TypeInv'
  BY <1>5 DEF Signal, Resume
<1>6. ASSUME NEW p \in Proc, Down(p) \/ PollDown(p) PROVE TypeInv'
  <2>1. sem' \in [Dev -> Nat]
    BY <1>6 DEF Down, PollDown
  <2> QED
    BY <1>6, <2>1 DEF Down, PollDown
<1>7. ASSUME NEW p \in Proc, DownInterrupted(p) PROVE TypeInv'
  BY <1>7, ForgetType DEF DownInterrupted, Return
<1>8. ASSUME NEW p \in Proc, Test(p) \/ Wait(p) PROVE TypeInv'
  BY <1>8 DEF Test, Wait
<1>9. ASSUME NEW p \in Proc, NotReady(p) PROVE TypeInv'
  <2>1. sem' \in [Dev -> Nat]
    BY <1>9 DEF NotReady, up
  <2>2. CASE Return(p)
    BY <1>9, <2>1, <2>2, ForgetType DEF NotReady, Return
  <2>3. CASE Goto(p, "wait") /\ UNCHANGED <<callVars, moved, buf, sig>>
    BY <1>9, <2>1, <2>3 DEF NotReady
  <2> QED
    BY <1>9, <2>2, <2>3 DEF NotReady
<1>10. ASSUME NEW p \in Proc, CopyCell(p) PROVE TypeInv'
  <2>1. moved' \in [Proc -> 0 .. Size] /\ Fits'
    BY <1>10 DEF CopyCell
  <2>2. pos[p] + moved[p] \in Cells /\ moved[p] \in Cells
    BY <1>10 DEF CopyCell, Cells
  <2>3. /\ data' \in [Dev -> [Cells -> Val \cup {Empty}]]
        /\ buf' \in [Proc -> [Cells -> Val \cup {Empty}]]
    <3>1. /\ data[dev[p]][pos[p] + moved[p]] \in Val \cup {Empty}
          /\ buf[p][moved[p]] \in Val \cup {Empty}
      BY <2>2
    <3>2. CASE op[p] = "read"
      <4>1. buf' = [buf EXCEPT ![p][moved[p]] = data[dev[p]][pos[p] + moved[p]]]
        BY <1>10, <3>2 DEF CopyCell
      <4>2. buf' \in [Proc -> [Cells -> Val \cup {Empty}]]
        BY <2>2, <3>1, <4>1, CellWritten
      <4> QED
        BY <1>10, <3>2, <4>2 DEF CopyCell
    <3>3. CASE op[p] # "read"
      <4>1. data' = [data EXCEPT ![dev[p]][pos[p] + moved[p]] = buf[p][moved[p]]]
        BY <1>10, <3>3 DEF CopyCell
      <4>2. data' \in [Dev -> [Cells -> Val \cup {Empty}]]
        BY <2>2, <3>1, <4>1, CellWritten
      <4> QED
        BY <1>10, <3>3, <4>2 DEF CopyCell
    <3> QED
      BY <3>2, <3>3
  <2> QED
    BY <1>10, <2>1, <2>3 DEF CopyCell
<1>11. ASSUME NEW p \in Proc, CopyFault(p) PROVE TypeInv'
  <2>1. data' \in [Dev -> [Cells -> Val \cup {Empty}]]
    BY <1>11 DEF CopyFault
  <2>2. sem' \in [Dev -> Nat] /\ faults' \in [Dev -> Nat]
    BY <1>11 DEF CopyFault, up
  <2> QED
    BY <1>11, <2>1, <2>2 DEF CopyFault
<1>12. ASSUME NEW p \in Proc, Finish(p) PROVE TypeInv'
  <2>1. sem' \in [Dev -> Nat] /\ setter' \in Dev /\ have_data' \in BOOLEAN
    BY <1>12 DEF Finish, up
  <2>2. /\ pos' \in [Proc -> 0 .. Size]
        /\ \A q \in Proc : q # p => pos'[q] = pos[q]
    BY <1>12 DEF Finish
  <2>3. Fits'
    <3>1. /\ pc'[p] = "wake" /\ count'[p] = 0 /\ moved'[p] = 0 /\ pos'[p] \in 0 .. Size
          /\ \A q \in Proc : q # p => pc'[q] = pc[q] /\ count'[q] = count[q] /\ moved'[q] = moved[q]
      BY <1>12, <2>2, ForgetType DEF Finish
    <3> QED
      BY <2>2, <3>1
  <2> QED
    BY <1>12, <2>1, <2>2, <2>3, ForgetType DEF Finish
<1>13. ASSUME NEW p \in Proc, WakeUp(p) PROVE TypeInv'
  BY <1>13 DEF WakeUp, Woken, Resume
<1>14. ASSUME NEW p \in Proc, mem_poll(p) PROVE TypeInv'
  <2>1. sem' \in [Dev -> Nat]
    BY <1>14 DEF mem_poll, up
  <2>2. CASE Return(p)
    BY <1>14, <2>1, <2>2, ForgetType DEF mem_poll, Return
  <2>3. CASE Goto(p, "asleep") /\ UNCHANGED <<callVars, moved, buf, sig>>
    BY <1>14, <2>1, <2>3 DEF mem_poll
  <2> QED
    BY <1>14, <2>2, <2>3 DEF mem_poll
<1>15. CASE UNCHANGED vars
  BY <1>15 DEF vars
<1> QED
  BY <1>1, <1>2, <1>3, <1>4, <1>5, <1>6, <1>7, <1>8, <1>9, <1>10, <1>11, <1>12,
     <1>13, <1>14, <1>15
     DEF Next, User, InCall

(***************************************************************************)
(* What is free and what is taken.                                         *)
(***************************************************************************)
Holders(d) == {p \in Proc : pc[p] \in Inside /\ dev[p] = d}

\* SemAccount needs to know that the holders can be counted, however many
\* processes there are.
Account(d) ==
  /\ IsFiniteSet(Holders(d))
  /\ sem[d] + Cardinality(Holders(d)) = 1 + faults[d]

AccountInv == TypeInv /\ \A d \in Dev : Account(d)

\* A step by which nobody comes in or goes out.
LEMMA StayInside ==
  ASSUME AccountInv, UNCHANGED <<sem, faults>>,
         \A q \in Proc :
           /\ pc'[q] \in Inside <=> pc[q] \in Inside
           /\ pc[q] \in Inside => dev'[q] = dev[q]
  PROVE  \A d \in Dev : Account(d)'
<1> TAKE d \in Dev
<1>1. Holders(d)' = Holders(d)
  BY DEF Holders
<1> QED
  BY <1>1 DEF AccountInv, Account

\* A down lets the process in.
LEMMA ComeIn ==
  ASSUME AccountInv, NEW p \in Proc, pc[p] \notin Inside, sem[dev[p]] > 0,
         sem' = [sem EXCEPT ![dev[p]] = @ - 1],
         NEW l \in Inside, pc' = [pc EXCEPT ![p] = l], UNCHANGED <<dev, faults>>
  PROVE  \A d \in Dev : Account(d)'
<1> TAKE d \in Dev
<1>0. sem[d] \in Nat /\ faults[d] \in Nat /\ dev[p] \in Dev /\ Account(d)
  BY DEF AccountInv, TypeInv, TypeOK
<1>1. \A q \in Proc : pc'[q] = IF q = p THEN l ELSE pc[q]
  BY DEF AccountInv, TypeInv, TypeOK
<1>2. CASE dev[p] = d
  <2>1. Holders(d)' = Holders(d) \cup {p} /\ p \notin Holders(d)
    BY <1>1, <1>2 DEF Holders
  <2>2. /\ IsFiniteSet(Holders(d)') /\ Cardinality(Holders(d)) \in Nat
        /\ Cardinality(Holders(d)') = Cardinality(Holders(d)) + 1
    BY <1>0, <2>1, FS_AddElement, FS_CardinalityType DEF Account
  <2>3. sem'[d] = sem[d] - 1
    BY <1>2 DEF AccountInv, TypeInv, TypeOK
  <2> QED
    BY <1>0, <2>2, <2>3 DEF Account
<1>3. CASE dev[p] # d
  <2>1. Holders(d)' = Holders(d)
    BY <1>1, <1>3 DEF Holders
  <2>2. sem'[d] = sem[d]
    BY <1>3 DEF AccountInv, TypeInv, TypeOK
  <2> QED
    BY <1>0, <2>1, <2>2 DEF Account
<1> QED
  BY <1>2, <1>3

\* An up by which the process goes out.
LEMMA GoOut ==
  ASSUME AccountInv, NEW p \in Proc, pc[p] \in Inside, up(p),
         NEW l, l \notin Inside, pc' = [pc EXCEPT ![p] = l],
         UNCHANGED <<dev, faults>>
  PROVE  \A d \in Dev : Account(d)'
<1> TAKE d \in Dev
<1>0. sem[d] \in Nat /\ faults[d] \in Nat /\ dev[p] \in Dev /\ Account(d)
  BY DEF AccountInv, TypeInv, TypeOK
<1>1. \A q \in Proc : pc'[q] = IF q = p THEN l ELSE pc[q]
  BY DEF AccountInv, TypeInv, TypeOK
<1>2. CASE dev[p] = d
  <2>1. Holders(d)' = Holders(d) \ {p} /\ p \in Holders(d)
    BY <1>1, <1>2 DEF Holders
  <2>2. /\ IsFiniteSet(Holders(d)') /\ Cardinality(Holders(d)) \in Nat
        /\ Cardinality(Holders(d)') = Cardinality(Holders(d)) - 1
    BY <1>0, <2>1, FS_RemoveElement, FS_CardinalityType DEF Account
  <2>3. sem'[d] = sem[d] + 1
    BY <1>2 DEF AccountInv, TypeInv, TypeOK, up
  <2> QED
    BY <1>0, <2>2, <2>3 DEF Account
<1>3. CASE dev[p] # d
  <2>1. Holders(d)' = Holders(d)
    BY <1>1, <1>3 DEF Holders
  <2>2. sem'[d] = sem[d]
    BY <1>3 DEF AccountInv, TypeInv, TypeOK, up
  <2> QED
    BY <1>0, <2>1, <2>2 DEF Account
<1> QED
  BY <1>2, <1>3

\* The first up after a failing copy: the process stays inside.
LEMMA FaultStep ==
  ASSUME AccountInv, NEW p \in Proc, CopyFault(p)
  PROVE  \A d \in Dev : Account(d)'
<1> TAKE d \in Dev
<1>0. sem[d] \in Nat /\ faults[d] \in Nat /\ dev[p] \in Dev /\ Account(d)
  BY DEF AccountInv, TypeInv, TypeOK
<1>1. Holders(d)' = Holders(d)
  BY DEF Holders, CopyFault, Goto, Inside, fileVars, AccountInv, TypeInv, TypeOK
<1>2. sem'[d] - sem[d] = faults'[d] - faults[d] /\ sem'[d] \in Nat /\ faults'[d] \in Nat
  BY <1>0 DEF CopyFault, up, AccountInv, TypeInv, TypeOK
<1>3. Cardinality(Holders(d)) \in Nat
  BY <1>0, FS_CardinalityType DEF Account
<1> QED
  BY <1>0, <1>1, <1>2, <1>3 DEF Account

\* Every step keeps the account.
LEMMA AccountStep == AccountInv /\ [Next]_vars => AccountInv'
<1> DEFINE A == \A d \in Dev : Account(d)
<1> SUFFICES ASSUME AccountInv, [Next]_vars PROVE A'
  BY TypeStep DEF AccountInv
<1>0. pc \in [Proc -> Places] /\ dev \in [Proc -> Dev]
  BY DEF AccountInv, TypeInv, TypeOK, Places
<1> USE DEF Goto, Resume, Inside, fileVars, histVars
<1>1. ASSUME NEW p \in Proc, User(p) PROVE A'
  <2>1. /\ UNCHANGED <<sem, faults>> /\ pc[p] \notin Inside /\ pc'[p] \notin Inside
        /\ \A q \in Proc : q # p => pc'[q] = pc[q] /\ dev'[q] = dev[q]
    BY <1>0, <1>1 DEF User, mem_open, mem_llseek, Call, PollCall
  <2> QED
    BY <2>1, StayInside
<1>2. ASSUME NEW p \in Proc, Signal(p) PROVE A'
  BY <1>0, <1>2, StayInside DEF Signal
<1>3. ASSUME NEW p \in Proc, Down(p) PROVE A'
  BY <1>3, ComeIn DEF Down
<1>4. ASSUME NEW p \in Proc, DownInterrupted(p) PROVE A'
  BY <1>0, <1>4, StayInside DEF DownInterrupted, Return
<1>5. ASSUME NEW p \in Proc, Test(p) PROVE A'
  BY <1>0, <1>5, StayInside DEF Test
<1>6. ASSUME NEW p \in Proc, NotReady(p) PROVE A'
  BY <1>6, GoOut DEF NotReady, Return
<1>7. ASSUME NEW p \in Proc, Wait(p) PROVE A'
  BY <1>0, <1>7, StayInside DEF Wait
<1>8. ASSUME NEW p \in Proc, CopyCell(p) PROVE A'
  BY <1>0, <1>8, StayInside DEF CopyCell
<1>9. ASSUME NEW p \in Proc, CopyFault(p) PROVE A'
  BY <1>9, FaultStep
<1>10. ASSUME NEW p \in Proc, Finish(p) PROVE A'
  BY <1>10, GoOut DEF Finish
<1>11. ASSUME NEW p \in Proc, WakeUp(p) PROVE A'
  BY <1>0, <1>11, StayInside DEF WakeUp, Woken
<1>12. ASSUME NEW p \in Proc, PollDown(p) PROVE A'
  BY <1>12, ComeIn DEF PollDown
<1>13. ASSUME NEW p \in Proc, mem_poll(p) PROVE A'
  BY <1>13, GoOut DEF mem_poll, Return
<1>14. CASE UNCHANGED vars
  BY <1>14, StayInside DEF vars
<1> QED
  BY <1>1, <1>2, <1>3, <1>4, <1>5, <1>6, <1>7, <1>8, <1>9, <1>10, <1>11, <1>12,
     <1>13, <1>14
     DEF Next, InCall

\* memdev_init leaves every semaphore free.
LEMMA InitAccount == Init => AccountInv
<1> SUFFICES ASSUME Init PROVE AccountInv
  OBVIOUS
<1>1. ASSUME NEW d \in Dev PROVE Account(d)
  <2>1. Holders(d) = {}
    BY DEF Init, Holders, Inside
  <2>2. sem[d] = 1 /\ faults[d] = 0
    BY DEF Init
  <2> QED
    BY <2>1, <2>2, FS_EmptySet DEF Account
<1> QED
  BY <1>1, InitType DEF AccountInv

\* Every path through mem_read, mem_write and mem_poll gives the semaphore back,
\* once more for each copy that fails, for any number of processes, devices and
\* failing copies.
THEOREM SemaphoreGivenBack == Spec => []SemAccount
<1>1. AccountInv => SemAccount
  BY DEF AccountInv, Account, Holders, SemAccount
<1> QED
  BY <1>1, InitAccount, AccountStep, PTL DEF Spec

(***************************************************************************)
(* Whole copies.                                                           *)
(***************************************************************************)
\* Until a copy has failed on a device, its semaphore is a mutex.
LEMMA OneInside ==
  ASSUME AccountInv, NEW p \in Proc, NEW q \in Proc, pc[p] \in Inside,
         pc[q] \in Inside, dev[p] = dev[q], faults[dev[p]] = 0
  PROVE  p = q
<1> DEFINE d == dev[p]
<1> SUFFICES ASSUME p # q PROVE FALSE
  OBVIOUS
<1>1. d \in Dev /\ sem[d] \in Nat /\ Account(d)
  BY DEF AccountInv, TypeInv, TypeOK
<1>2. {p, q} \subseteq Holders(d)
  BY DEF Holders
<1>3. Cardinality({p}) = 1 /\ IsFiniteSet({p})
  BY FS_Singleton
<1>4. Cardinality({p} \cup {q}) = 2
  <2>1. Cardinality({p} \cup {q}) = Cardinality({p}) + 1
    BY <1>3, q \notin {p}, FS_AddElement
  <2> QED
    BY <1>3, <2>1
<1>5. {p} \cup {q} = {p, q}
  OBVIOUS
<1>6. Cardinality({p, q}) <= Cardinality(Holders(d))
  BY <1>1, <1>2, FS_Subset DEF Account
<1>7. Cardinality(Holders(d)) \in Nat
  BY <1>1, FS_CardinalityType DEF Account
<1> QED
  BY <1>1, <1>4, <1>5, <1>6, <1>7 DEF Account

\* A step that leaves a copy of p under way, and its buffer, its position and
\* the cells of its device alone.
LEMMA CopyKept ==
  ASSUME CopyWhole, NEW p \in Proc, pc[p] = "copy", faults[dev[p]] = 0,
         dev'[p] = dev[p], pos'[p] = pos[p], moved'[p] = moved[p],
         buf'[p] = buf[p], data'[dev[p]] = data[dev[p]]
  PROVE  \A c \in 0 .. moved'[p] - 1 : buf'[p][c] = data'[dev'[p]][pos'[p] + c]
BY DEF CopyWhole

\* Where a copy from position s is when it has come to its cell m.
LEMMA CellBefore ==
  ASSUME NEW m \in Nat, NEW s \in Nat, m \in Cells, s + m \in Cells, NEW c \in 0 .. m - 1
  PROVE  c \in Cells /\ c # m /\ s + c \in Cells /\ s + c # s + m
BY SizeAssumption DEF Cells

LEMMA LastOrBefore ==
  ASSUME NEW m \in Nat, NEW c \in 0 .. (m + 1) - 1
  PROVE  c = m \/ c \in 0 .. m - 1
OBVIOUS

\* Every step leaves what a copy has moved as it is: the only one to write
\* into the device is the process itself.
LEMMA CopyStep ==
  ASSUME AccountInv, CopyWhole, [Next]_vars
  PROVE  CopyWhole'
<1> SUFFICES ASSUME NEW p \in Proc, pc'[p] = "copy", faults'[dev'[p]] = 0
             PROVE  \A c \in 0 .. moved'[p] - 1 :
                      buf'[p][c] = data'[dev'[p]][pos'[p] + c]
  BY DEF CopyWhole
<1> DEFINE W == \A c \in 0 .. moved'[p] - 1 :
                  buf'[p][c] = data'[dev'[p]][pos'[p] + c]
<1> USE DEF AccountInv, TypeInv, TypeOK, Goto, fileVars, callVars, copyVars, histVars
<1>1. ASSUME NEW r \in Proc, User(r) PROVE W
  <2>1. p # r /\ pc[p] = "copy" /\ UNCHANGED <<faults, data, moved>>
    BY <1>1 DEF User, mem_open, mem_llseek, Call, PollCall
  <2>2. dev'[p] = dev[p] /\ pos'[p] = pos[p] /\ buf'[p] = buf[p]
    BY <1>1, <2>1 DEF User, mem_open, mem_llseek, Call, PollCall
  <2> QED
    BY <2>1, <2>2, CopyKept
<1>2. ASSUME NEW r \in Proc, Signal(r) \/ Down(r) \/ PollDown(r) \/ Wait(r) PROVE W
  <2>1. pc[p] = "copy" /\ UNCHANGED <<dev, pos, faults, data, moved, buf>>
    BY <1>2 DEF Signal, Down, PollDown, Wait, Resume
  <2> QED
    BY <2>1, CopyKept
<1>3. ASSUME NEW r \in Proc, DownInterrupted(r) \/ NotReady(r) \/ mem_poll(r) PROVE W
  <2>1. p # r /\ pc[p] = "copy" /\ UNCHANGED <<dev, pos, faults, data>>
    BY <1>3 DEF DownInterrupted, NotReady, mem_poll, Return
  <2>2. moved'[p] = moved[p] /\ buf'[p] = buf[p]
    BY <1>3, <2>1 DEF DownInterrupted, NotReady, mem_poll, Return, Forget
  <2> QED
    BY <2>1, <2>2, CopyKept
<1>4. ASSUME NEW r \in Proc, Test(r) PROVE W
  <2>1. UNCHANGED <<dev, pos, faults, data, moved, buf>>
    BY <1>4 DEF Test
  <2>2. CASE p = r
    <3>1. moved'[p] = 0
      BY <1>4, <2>1, <2>2 DEF Test, Fits
    <3> QED
      BY <3>1
  <2>3. CASE p # r
    BY <1>4, <2>1, <2>3, CopyKept DEF Test
  <2> QED
    BY <2>2, <2>3
<1>5. ASSUME NEW r \in Proc, CopyCell(r) PROVE W
  <2>1. pc[p] = "copy" /\ UNCHANGED <<pc, dev, pos, faults>>
    BY <1>5 DEF CopyCell
  <2>2. \A c \in 0 .. moved[p] - 1 : buf[p][c] = data[dev[p]][pos[p] + c]
    BY <2>1 DEF CopyWhole
  <2>3. CASE p = r
    <3>1. moved'[p] = moved[p] + 1 /\ moved[p] \in Nat /\ pos[p] \in Nat
      BY <1>5, <2>3 DEF CopyCell
    <3>2. moved[p] \in Cells /\ pos[p] + moved[p] \in Cells
      BY <1>5, <2>3, SizeAssumption DEF CopyCell, Fits, Cells
    <3>3. buf'[p][moved[p]] = data'[dev[p]][pos[p] + moved[p]]
      BY <1>5, <2>3, <3>2 DEF CopyCell
    <3>4. ASSUME NEW c \in 0 .. moved[p] - 1
          PROVE  buf'[p][c] = buf[p][c] /\ data'[dev[p]][pos[p] + c] = data[dev[p]][pos[p] + c]
      <4>1. /\ c \in Cells /\ c # moved[p]
            /\ pos[p] + c \in Cells /\ pos[p] + c # pos[p] + moved[p]
        <5> HIDE DEF AccountInv, TypeInv, TypeOK
        <5> QED
          BY <3>1, <3>2, CellBefore
      <4>2. /\ data[dev[p]][pos[p] + moved[p]] \in Val \cup {Empty}
            /\ buf[p][moved[p]] \in Val \cup {Empty}
        BY <3>2
      <4>3. CASE op[p] = "read"
        <5>1. /\ buf' = [buf EXCEPT ![p][moved[p]] = data[dev[p]][pos[p] + moved[p]]]
              /\ UNCHANGED data
          BY <1>5, <2>3, <4>3 DEF CopyCell
        <5> QED
          BY <3>2, <4>1, <4>2, <5>1, CellWritten
      <4>4. CASE op[p] # "read"
        <5>1. /\ data' = [data EXCEPT ![dev[p]][pos[p] + moved[p]] = buf[p][moved[p]]]
              /\ UNCHANGED buf
          BY <1>5, <2>3, <4>4 DEF CopyCell
        <5> QED
          BY <3>2, <4>1, <4>2, <5>1, CellWritten
      <4> QED
        BY <4>3, <4>4
    <3>5. ASSUME NEW c \in 0 .. moved'[p] - 1
          PROVE  buf'[p][c] = data'[dev[p]][pos[p] + c]
      <4>1. c = moved[p] \/ c \in 0 .. moved[p] - 1
        BY <3>1, LastOrBefore
      <4> QED
        BY <2>2, <3>3, <3>4, <4>1
    <3> QED
      BY <2>1, <3>5
  <2>4. CASE p # r
    <3>1. dev[r] # dev[p]
      BY <1>5, <2>1, <2>4, OneInside DEF CopyCell, Inside
    <3>2. moved'[p] = moved[p] /\ buf'[p] = buf[p] /\ data'[dev[p]] = data[dev[p]]
      BY <1>5, <2>4, <3>1 DEF CopyCell
    <3> QED
      BY <2>1, <3>2, CopyKept
  <2> QED
    BY <2>3, <2>4
<1>6. ASSUME NEW r \in Proc, CopyFault(r) PROVE W
  <2>1. p # r /\ pc[p] = "copy" /\ UNCHANGED <<dev, pos, moved, buf>>
    BY <1>6 DEF CopyFault
  <2>2. dev[r] # dev[p]
    BY <1>6, <2>1 DEF CopyFault
  <2>3. faults[dev[p]] = 0 /\ data'[dev[p]] = data[dev[p]]
    BY <1>6, <2>1, <2>2 DEF CopyFault
  <2> QED
    BY <2>1, <2>3, CopyKept
<1>7. ASSUME NEW r \in Proc, Finish(r) PROVE W
  <2>1. p # r /\ pc[p] = "copy" /\ UNCHANGED <<dev, faults, data>>
    BY <1>7 DEF Finish
  <2>2. pos'[p] = pos[p] /\ moved'[p] = moved[p] /\ buf'[p] = buf[p]
    BY <1>7, <2>1 DEF Finish, Forget
  <2> QED
    BY <2>1, <2>2, CopyKept
<1>8. ASSUME NEW r \in Proc, WakeUp(r) PROVE W
  <2>1. pc[p] = "copy" /\ UNCHANGED <<dev, pos, faults, data, moved, buf>>
    BY <1>8 DEF WakeUp, Woken, Resume
  <2> QED
    BY <2>1, CopyKept
<1>9. CASE UNCHANGED vars
  BY <1>9, CopyKept DEF vars
<1> QED
  BY <1>1, <1>2, <1>3, <1>4, <1>5, <1>6, <1>7, <1>8, <1>9 DEF Next, InCall

\* As long as no copy has failed on a device, a read returns cells that were in
\* it together and a write is in it as a whole, at whatever positions the others
\* read and write, for any number of processes and devices; the other devices'
\* copies may fail.
THEOREM CopiesWhole == Spec => []CopyWhole
<1>1. Init => CopyWhole
  BY DEF Init, CopyWhole
<1>2. AccountInv /\ CopyWhole /\ [Next]_vars => (AccountInv /\ CopyWhole)'
  BY AccountStep, CopyStep
<1> QED
  BY <1>1, <1>2, InitAccount, PTL DEF Spec

(***************************************************************************)
(* The safety half of SleeperServed: no wake_up is lost.                   *)
(***************************************************************************)
\* mem_read and mem_write are not entered by a poll, also after a failing copy.
CallFits ==
  \A p \in Proc :
    /\ pc[p] \in {"down", "test", "wait", "copy", "fault", "wake"}
         => op[p] \in {"read", "write"}
    /\ pc[p] \in {"poll", "polling"} => op[p] \in Polls
    /\ pc[p] = "asleep" => op[p] \in Ops

\* A process that sleeps although a call on its device has set the flag to what
\* it waits for is about to be woken: that call has not reached its wake_up yet,
\* and its wake_up is for the queue the process is on (lines 105-108, 158-161).
SleeperHasWaker ==
  \A p \in Proc :
    pc[p] = "asleep" /\ Ready(p) /\ setter = dev[p]
      => \E q \in Proc : pc[q] = "wake" /\ p \in Woken(q)

\* Every step keeps calls and polls apart.
LEMMA CallFitsStep == TypeOK /\ CallFits /\ [Next]_vars => CallFits'
<1> SUFFICES ASSUME TypeOK, CallFits, [Next]_vars PROVE CallFits'
  OBVIOUS
<1> USE DEF TypeOK, CallFits, Ops, Polls, callVars, Goto, Resume
<1>1. ASSUME NEW p \in Proc, User(p) PROVE CallFits'
  BY <1>1 DEF User, mem_open, mem_llseek, Call, PollCall
<1>2. ASSUME NEW p \in Proc, Signal(p) PROVE CallFits'
  BY <1>2 DEF Signal
<1>3. ASSUME NEW p \in Proc, Down(p) PROVE CallFits'
  BY <1>3 DEF Down
<1>4. ASSUME NEW p \in Proc, DownInterrupted(p) PROVE CallFits'
  BY <1>4 DEF DownInterrupted, Return
<1>5. ASSUME NEW p \in Proc, Test(p) PROVE CallFits'
  BY <1>5 DEF Test
<1>6. ASSUME NEW p \in Proc, NotReady(p) PROVE CallFits'
  BY <1>6 DEF NotReady, Return
<1>7. ASSUME NEW p \in Proc, Wait(p) PROVE CallFits'
  BY <1>7 DEF Wait
<1>8. ASSUME NEW p \in Proc, CopyCell(p) PROVE CallFits'
  BY <1>8 DEF CopyCell
<1>9. ASSUME NEW p \in Proc, CopyFault(p) PROVE CallFits'
  BY <1>9 DEF CopyFault
<1>10. ASSUME NEW p \in Proc, Finish(p) PROVE CallFits'
  BY <1>10 DEF Finish
<1>11. ASSUME NEW p \in Proc, WakeUp(p) PROVE CallFits'
  BY <1>11 DEF WakeUp, Woken
<1>12. ASSUME NEW p \in Proc, PollDown(p) PROVE CallFits'
  BY <1>12 DEF PollDown
<1>13. ASSUME NEW p \in Proc, mem_poll(p) PROVE CallFits'
  BY <1>13 DEF mem_poll, Return
<1>14. CASE UNCHANGED vars
  BY <1>14 DEF vars
<1> QED
  BY <1>1, <1>2, <1>3, <1>4, <1>5, <1>6, <1>7, <1>8, <1>9, <1>10, <1>11, <1>12,
     <1>13, <1>14
     DEF Next, InCall

\* A step of r keeps the waker of every sleeper, unless r puts itself to sleep,
\* changes the flag or is the waker.
LEMMA WakerKept ==
  ASSUME TypeOK, SleeperHasWaker, NEW r \in Proc,
         pc[r] # "wake", pc'[r] # "asleep", pc' = [pc EXCEPT ![r] = pc'[r]],
         UNCHANGED <<have_data, setter>>,
         \A q \in Proc : q # r => op'[q] = op[q] /\ dev'[q] = dev[q]
  PROVE  SleeperHasWaker'
<1> SUFFICES ASSUME NEW p \in Proc, pc'[p] = "asleep", Ready(p)', setter' = dev'[p]
             PROVE  \E q \in Proc : pc'[q] = "wake" /\ (p \in Woken(q))'
  BY DEF SleeperHasWaker
<1>1. p # r /\ pc[p] = "asleep" /\ Ready(p) /\ op'[p] = op[p] /\ dev'[p] = dev[p]
  BY DEF TypeOK, Ready
<1>2. PICK q \in Proc : pc[q] = "wake" /\ p \in Woken(q)
  BY <1>1 DEF SleeperHasWaker
<1>3. q # r /\ pc'[q] = "wake" /\ op'[q] = op[q] /\ dev'[q] = dev[q]
  BY <1>2 DEF TypeOK
<1> QED
  BY <1>1, <1>2, <1>3 DEF Woken

\* Every step keeps a waker for every sleeper that has something to do.
LEMMA WakerStep ==
  ASSUME TypeOK, CallFits, SleeperHasWaker, [Next]_vars
  PROVE  SleeperHasWaker'
<1> USE DEF fileVars, callVars, histVars, Goto
<1>1. ASSUME NEW r \in Proc, User(r) PROVE SleeperHasWaker'
  <2>1. /\ pc[r] = "user" /\ pc'[r] \in {"user", "down", "poll"}
        /\ pc' = [pc EXCEPT ![r] = pc'[r]] /\ UNCHANGED <<have_data, setter>>
    BY <1>1 DEF User, mem_open, mem_llseek, Call, PollCall, TypeOK
  <2>2. \A q \in Proc : q # r => op'[q] = op[q] /\ dev'[q] = dev[q]
    BY <1>1 DEF User, mem_open, mem_llseek, Call, PollCall, TypeOK
  <2> QED
    BY <2>1, <2>2, WakerKept
<1>2. ASSUME NEW r \in Proc, Signal(r) PROVE SleeperHasWaker'
  <2>1. CASE pc[r] = "wake"
    <3>1. UNCHANGED <<pc, op, dev, have_data, setter>>
      BY <1>2, <2>1 DEF Signal, TypeOK
    <3> QED
      BY <3>1 DEF SleeperHasWaker, Woken, Ready
  <2>2. CASE pc[r] # "wake"
    BY <1>2, <2>2, WakerKept DEF Signal, Resume, TypeOK
  <2> QED
    BY <2>1, <2>2
<1>3. ASSUME NEW r \in Proc, Down(r) \/ Test(r) \/ CopyFault(r) \/ PollDown(r)
      PROVE  SleeperHasWaker'
  BY <1>3, WakerKept DEF Down, Test, CopyFault, PollDown, TypeOK
<1>4. ASSUME NEW r \in Proc, DownInterrupted(r) \/ NotReady(r) PROVE SleeperHasWaker'
  BY <1>4, WakerKept DEF DownInterrupted, NotReady, Return, TypeOK
<1>5. ASSUME NEW r \in Proc, CopyCell(r) PROVE SleeperHasWaker'
  <2>1. UNCHANGED <<pc, op, dev, have_data, setter>>
    BY <1>5 DEF CopyCell
  <2> QED
    BY <2>1 DEF SleeperHasWaker, Woken, Ready
<1>6. ASSUME NEW r \in Proc, Wait(r) \/ mem_poll(r) PROVE SleeperHasWaker'
  <2>1. /\ pc[r] # "wake" /\ pc' = [pc EXCEPT ![r] = pc'[r]]
        /\ UNCHANGED <<have_data, setter, dev>>
    BY <1>6 DEF Wait, mem_poll, Return, TypeOK
  <2>2. \A q \in Proc : q # r => op'[q] = op[q]
    BY <1>6 DEF Wait, mem_poll, Return, TypeOK
  <2>3. CASE pc'[r] # "asleep"
    BY <2>1, <2>2, <2>3, WakerKept
  <2>4. CASE pc'[r] = "asleep"
    <3>1. ~Ready(r) /\ UNCHANGED op
      BY <1>6, <2>4 DEF Wait, mem_poll, Return, TypeOK
    <3> SUFFICES ASSUME NEW p \in Proc, pc'[p] = "asleep", Ready(p)', setter' = dev'[p]
                 PROVE  \E q \in Proc : pc'[q] = "wake" /\ (p \in Woken(q))'
      BY DEF SleeperHasWaker
    <3>2. p # r /\ pc[p] = "asleep" /\ Ready(p) /\ setter = dev[p]
      BY <2>1, <3>1 DEF TypeOK, Ready
    <3>3. PICK q \in Proc : pc[q] = "wake" /\ p \in Woken(q)
      BY <3>2 DEF SleeperHasWaker
    <3>4. pc'[q] = "wake"
      BY <2>1, <3>3 DEF TypeOK
    <3> QED
      BY <2>1, <3>1, <3>3, <3>4 DEF Woken
  <2> QED
    BY <2>3, <2>4
<1>7. ASSUME NEW r \in Proc, Finish(r) PROVE SleeperHasWaker'
  <2> SUFFICES ASSUME NEW p \in Proc, pc'[p] = "asleep", Ready(p)', setter' = dev'[p]
               PROVE  \E q \in Proc : pc'[q] = "wake" /\ (p \in Woken(q))'
    BY DEF SleeperHasWaker
  <2>1. /\ pc'[r] = "wake" /\ p # r /\ UNCHANGED <<op, dev>> /\ dev[p] = dev[r]
        /\ have_data' = (op[r] = "write") /\ op[r] \in {"read", "write"}
    BY <1>7 DEF Finish, TypeOK, CallFits
  <2>2. op[p] # op[r]
    BY <2>1 DEF Ready
  <2> QED
    BY <2>1, <2>2 DEF Woken
<1>8. ASSUME NEW r \in Proc, WakeUp(r) PROVE SleeperHasWaker'
  <2> SUFFICES ASSUME NEW p \in Proc, pc'[p] = "asleep", Ready(p)', setter' = dev'[p]
               PROVE  \E q \in Proc : pc'[q] = "wake" /\ (p \in Woken(q))'
    BY DEF SleeperHasWaker
  <2>1. /\ pc[p] = "asleep" /\ p # r /\ p \notin Woken(r)
        /\ UNCHANGED <<have_data, setter, dev>>
        /\ \A q \in Proc : q # r => op'[q] = op[q]
    BY <1>8 DEF WakeUp, Resume, TypeOK
  <2>2. PICK q \in Proc : pc[q] = "wake" /\ p \in Woken(q)
    BY <2>1 DEF SleeperHasWaker, Ready
  <2>3. q # r /\ pc'[q] = "wake"
    BY <1>8, <2>1, <2>2 DEF WakeUp, Woken, TypeOK
  <2> QED
    BY <2>1, <2>2, <2>3 DEF Woken
<1>9. CASE UNCHANGED vars
  BY <1>9 DEF vars, SleeperHasWaker, Woken, Ready
<1> QED
  BY <1>1, <1>2, <1>3, <1>4, <1>5, <1>6, <1>7, <1>8, <1>9 DEF Next, InCall

\* Nobody sleeps past the wake_up of a call on its own device, whatever copies
\* fail and signals arrive, for any number of devices, readers, writers and polls.
THEOREM NoWakeupLost == Spec => []SleeperHasWaker
<1> DEFINE I == TypeInv /\ CallFits /\ SleeperHasWaker
<1>1. Init => I
  <2> SUFFICES ASSUME Init PROVE I
    OBVIOUS
  <2>1. CallFits /\ SleeperHasWaker
    BY DEF Init, CallFits, SleeperHasWaker
  <2> QED
    BY <2>1, InitType
<1>2. I /\ [Next]_vars => I'
  BY TypeStep, CallFitsStep, WakerStep DEF TypeInv
<1>3. I => SleeperHasWaker
  OBVIOUS
<1> QED
  BY <1>1, <1>2, <1>3, PTL DEF Spec
=============================================================================
