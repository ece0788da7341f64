------------------------- MODULE SystemTimerProofs --------------------------
(***************************************************************************)
(* The time base of timer.c for every reload value, every counter          *)
(* frequency, every width of a duration and any number of periods.         *)
(***************************************************************************)
EXTENDS SystemTimer, TLAPS

USE RAssumption, KAssumption, WAssumption, DelaysAssumption,
    MaxPeriodsAssumption

(***************************************************************************)
(* Arithmetic.                                                             *)
(***************************************************************************)
\* Quotient and remainder by a positive divisor.
LEMMA DivMod ==
  ASSUME NEW k \in Nat \ {0}, NEW x \in Int
  PROVE  /\ x \div k \in Int
         /\ x % k \in Int
         /\ x = k * (x \div k) + (x % k)
         /\ 0 <= x % k /\ x % k < k
OBVIOUS

\* The only multiple of k between -k and k is 0.
LEMMA SmallMultiple ==
  ASSUME NEW k \in Nat \ {0}, NEW n \in Int, k * n < k, -k < k * n
  PROVE  n = 0
<1>1. CASE n >= 1
  <2>1. k * (n - 1) >= 0
    BY <1>1
  <2> QED
    BY <2>1
<1>2. CASE n <= -1
  <2>1. k * (n + 1) <= 0
    BY <1>2
  <2> QED
    BY <2>1
<1> QED
  BY <1>1, <1>2

\* Adding a multiple of the divisor does not change the remainder.
LEMMA ModShift ==
  ASSUME NEW k \in Nat \ {0}, NEW x \in Int, NEW q \in Int
  PROVE  (x + k * q) % k = x % k
<1> DEFINE y == x + k * q
           d == x \div k
           e == y \div k
           a == x % k
           b == y % k
<1>1. d \in Int /\ a \in Int /\ x = k * d + a /\ 0 <= a /\ a < k
  BY DivMod
<1>2. e \in Int /\ b \in Int /\ y = k * e + b /\ 0 <= b /\ b < k
  <2>1. y \in Int
    OBVIOUS
  <2> QED
    BY <2>1, DivMod
<1> HIDE DEF d, e, a, b
<1>3. a - b = k * (e - d - q)
  BY <1>1, <1>2
<1>4. e - d - q = 0
  BY <1>1, <1>2, <1>3, SmallMultiple
<1>5. a = b
  BY <1>1, <1>2, <1>3, <1>4
<1> QED
  BY <1>5 DEF a, b

\* Narrowing a term of a difference first does not change the narrowed
\* difference.
LEMMA ModDifference ==
  ASSUME NEW k \in Nat \ {0}, NEW x \in Int, NEW y \in Int
  PROVE  ((x % k) - y) % k = (x - y) % k
<1> DEFINE d == x \div k
           a == x % k
<1>1. d \in Int /\ a \in Int /\ x = k * d + a
  BY DivMod
<1> HIDE DEF d, a
<1>2. k * d \in Int /\ a - y \in Int
  BY <1>1
<1>3. x - y = (a - y) + k * d
  BY <1>1, <1>2
<1>4. ((a - y) + k * d) % k = (a - y) % k
  BY ModShift, <1>1, <1>2
<1>5. (x - y) % k = (a - y) % k
  BY <1>3, <1>4
<1> QED
  BY <1>5 DEF a

\* The microseconds of a counter value are a whole part of a period.
LEMMA UsFacts ==
  ASSUME NEW c \in 0 .. R
  PROVE  /\ PeriodUs \in Nat
         /\ Us(c) \in Nat
         /\ Us(c) <= PeriodUs
         /\ Us(0) = PeriodUs
         /\ Us(R) = 0
         /\ c # 0 => Us(c) <= Us(c - 1)
<1>1. \A a, b \in Nat : a <= b => a \div K <= b \div K
  OBVIOUS
<1>2. \A a \in Nat : a \div K \in Nat
  OBVIOUS
<1>3. 0 \div K = 0
  OBVIOUS
<1>4. /\ R - c \in Nat /\ R - c <= R
      /\ R - 0 = R /\ R - R = 0
      /\ c # 0 => R - (c - 1) \in Nat /\ R - c <= R - (c - 1)
  OBVIOUS
<1> QED
  BY <1>1, <1>2, <1>3, <1>4 DEF Us, PeriodUs

\* One more period.
LEMMA Distrib ==
  ASSUME NEW p \in Int, NEW x \in Int
  PROVE  p * x \in Int /\ (p + 1) * x = p * x + x /\ (p - 1) * x = p * x - x
OBVIOUS

\* More periods, more time.
LEMMA ProductMonotone ==
  ASSUME NEW p \in Nat, NEW q \in Nat, NEW x \in Nat, p <= q
  PROVE  p * x <= q * x
<1>1. (q - p) * x >= 0
  OBVIOUS
<1> QED
  BY <1>1

(***************************************************************************)
(* The inductive invariant.                                                *)
(***************************************************************************)
\* A handler runs only for a source that is still pending, and only irda_irq
\* stops between its two reads.
HandlerInv ==
  /\ mode # "main" => mode \in SRCPND
  /\ mode = "main" => hpc = "enter"
  /\ hpc = "count" => mode = EINT1

\* Between the two reads of irda_irq the count of periods stands still: what
\* will be put together is right or one period behind.
IsrReading ==
  hpc = "count" =>
    g_system_time_10ms_cnt * PeriodUs + isr.us \in
      {isr.true, isr.true - PeriodUs}

\* The moments irda_irq has recorded lie in the past, in order.
IsrPast ==
  /\ isr.last <= TrueTime
  /\ hpc = "count" => isr.last <= isr.true /\ isr.true <= TrueTime

\* Between main's two reads the count of periods only grows.
MainReading ==
  pc = "us" =>
    /\ main.us <= PeriodUs
    /\ main.true <= g_system_time_10ms_cnt * PeriodUs + main.us

\* udelay has never subtracted more counts than have gone by, and would not if
\* it read the counter now.
DelayInv ==
  /\ pc = "udelay" =>
       /\ ud.due - (ud.seen - ud.start) <= ud.cnt
       /\ Delta(ud.pre, TCNTO0) <= Now - ud.seen
  /\ NeverEarly

ReadingInv == HandlerInv /\ IsrReading /\ IsrPast /\ MainReading

IInv == TimeInv /\ PeriodsCounted /\ ReadingInv /\ PulseWidth /\ DelayInv

(***************************************************************************)
(* Time.                                                                   *)
(***************************************************************************)
\* Both clocks are natural numbers.
LEMMA ClockTypes == TypeOK => Now \in Nat /\ TrueTime \in Nat
<1> SUFFICES ASSUME TypeOK PROVE Now \in Nat /\ TrueTime \in Nat
  OBVIOUS
<1>1. TCNTO0 \in 0 .. R /\ periods \in Nat
  BY DEF TypeOK
<1>2. PeriodUs \in Nat /\ Us(TCNTO0) \in Nat
  BY <1>1, UsFacts
<1> HIDE DEF PeriodUs, Us
<1>3. periods * PeriodUs \in Nat
  BY <1>1, <1>2
<1>4. periods * (R + 1) \in Nat
  BY <1>1
<1> QED
  BY <1>1, <1>2, <1>3, <1>4 DEF Now, TrueTime

\* A tick of the counter moves both clocks forward, over the wrap too.
LEMMA TickForward ==
  TypeOK /\ Tick => Now' = Now + 1 /\ TrueTime <= TrueTime'
<1> SUFFICES ASSUME TypeOK, Tick
             PROVE  Now' = Now + 1 /\ TrueTime <= TrueTime'
  OBVIOUS
<1>1. TCNTO0 \in 0 .. R /\ periods \in Nat
  BY DEF TypeOK
<1>2. /\ PeriodUs \in Nat /\ Us(TCNTO0) \in Nat
      /\ Us(0) = PeriodUs /\ Us(R) = 0
      /\ TCNTO0 # 0 => Us(TCNTO0) <= Us(TCNTO0 - 1)
  BY <1>1, UsFacts
<1>3. /\ periods * PeriodUs \in Int
      /\ (periods + 1) * PeriodUs = periods * PeriodUs + PeriodUs
  BY <1>1, <1>2, Distrib
<1>4. /\ periods * (R + 1) \in Int
      /\ (periods + 1) * (R + 1) = periods * (R + 1) + (R + 1)
  BY <1>1, Distrib
<1>5. TrueTime' = periods' * PeriodUs + Us(TCNTO0')
  BY DEF TrueTime, PeriodUs, Us
<1>6. CASE TCNTO0 = 0
  <2>1. TCNTO0' = R /\ periods' = periods + 1
    BY <1>6 DEF Tick
  <2>2. Now' = Now + 1
    BY <1>4, <1>6, <2>1 DEF Now
  <2>3. TrueTime <= TrueTime'
    BY <1>2, <1>3, <1>5, <1>6, <2>1 DEF TrueTime
  <2> QED
    BY <2>2, <2>3
<1>7. CASE TCNTO0 # 0
  <2>1. TCNTO0' = TCNTO0 - 1 /\ periods' = periods
    BY <1>7 DEF Tick
  <2>2. Now' = Now + 1
    BY <1>1, <1>4, <2>1 DEF Now
  <2>3. Us(TCNTO0') \in Nat
    BY <1>1, <1>7, <2>1, UsFacts
  <2>4. TrueTime <= TrueTime'
    BY <1>2, <1>3, <1>5, <1>7, <2>1, <2>3 DEF TrueTime
  <2> QED
    BY <2>2, <2>4
<1> QED
  BY <1>6, <1>7

\* Nothing but a tick moves the clocks.
LEMMA StepClocks ==
  ASSUME TypeOK, [Next]_vars
  PROVE  Tick \/ (Now' = Now /\ TrueTime' = TrueTime /\ TCNTO0' = TCNTO0
                  /\ periods' = periods)
<1>1. CASE UNCHANGED clockVars
  BY <1>1 DEF clockVars, Now, TrueTime, PeriodUs, Us
<1>2. Tick \/ UNCHANGED clockVars
  BY DEF Next, Edge, TakeIrq, Handlers, timer_irq, IrdaReadCounter, irda_irq,
         ClearIrq, MainSteps, MainReadCounter, get_system_time_us, TimeUsed,
         udelay, UdelayLoop, DelayUsed, vars
<1> QED
  BY <1>1, <1>2

(***************************************************************************)
(* Every action keeps the invariant, part by part.                         *)
(***************************************************************************)
\* Every step keeps the types; that the width of a pulse is no negative number
\* needs IsrPast.
LEMMA TypeStep == IInv /\ [Next]_vars => TypeOK'
<1> SUFFICES ASSUME TypeOK, IsrPast, HandlerInv, [Next]_vars PROVE TypeOK'
  BY DEF IInv, TimeInv, ReadingInv
<1> USE DEF TypeOK, clockVars, irqVars, irdaVars, mainVars, MainRuns, TIMER0,
            EINT1
<1>0. /\ Now \in Nat /\ TrueTime \in Nat
      /\ PeriodUs \in Nat /\ Us(TCNTO0) \in Nat
      /\ g_system_time_10ms_cnt * PeriodUs \in Nat
  <2>1. Now \in Nat /\ TrueTime \in Nat
    BY ClockTypes
  <2>2. PeriodUs \in Nat /\ Us(TCNTO0) \in Nat
    BY UsFacts
  <2>3. \A a, b \in Nat : a * b \in Nat
    OBVIOUS
  <2> QED
    BY <2>1, <2>2, <2>3
<1>1. CASE Tick
  <2>1. /\ TCNTO0' \in 0 .. R
        /\ periods' \in 0 .. MaxPeriods
    <3>1. CASE TCNTO0 = 0
      BY <1>1, <3>1 DEF Tick
    <3>2. CASE TCNTO0 # 0
      BY <1>1, <3>2 DEF Tick
    <3> QED
      BY <3>1, <3>2
  <2>3. SRCPND' \in {SRCPND, SRCPND \cup {TIMER0}}
    BY <1>1 DEF Tick
  <2>2. UNCHANGED <<mode, hpc, g_system_time_10ms_cnt, irdaVars, mainVars>>
    BY <1>1 DEF Tick
  <2> QED
    BY <2>1, <2>2, <2>3
<1>2. CASE Edge
  BY <1>2 DEF Edge
<1>3. ASSUME NEW bit \in {TIMER0, EINT1}, TakeIrq(bit) PROVE TypeOK'
  BY <1>3 DEF TakeIrq
<1>4. CASE timer_irq
  BY <1>4 DEF timer_irq
<1>5. CASE IrdaReadCounter
  BY <1>0, <1>5 DEF IrdaReadCounter
<1>6. CASE irda_irq
  <2>1. /\ g_last_time' \in Nat
        /\ isr' \in [us : Nat, true : Nat, last : Nat, width : Nat]
        /\ hpc' \in {"enter", "count", "clear"}
    BY <1>0, <1>6 DEF irda_irq, IsrPast
  <2>2. duration' \in Nat
    <3>1. \A x \in Int : x % W \in Nat
      OBVIOUS
    <3>2. g_system_time_10ms_cnt * PeriodUs + isr.us - g_last_time \in Int
      BY <1>0
    <3> QED
      BY <1>6, <3>1, <3>2 DEF irda_irq, delta_time_us
  <2> QED
    BY <1>6, <2>1, <2>2 DEF irda_irq
<1>7. CASE ClearIrq
  BY <1>7 DEF ClearIrq
<1>8. CASE MainReadCounter
  BY <1>0, <1>8 DEF MainReadCounter
<1>9. CASE get_system_time_us
  <2>1. g_system_time_10ms_cnt * PeriodUs + main.us \in Nat
    BY <1>0
  <2>2. main' \in [us : Nat, true : Nat, cur : Nat, end : Nat]
    BY <1>0, <1>9, <2>1 DEF get_system_time_us
  <2> QED
    BY <1>9, <2>2 DEF get_system_time_us
<1>10. CASE TimeUsed
  BY <1>10 DEF TimeUsed, NoReading
<1>11. ASSUME NEW n \in Delays, udelay(n) PROVE TypeOK'
  <2>1. n * K \in Nat
    OBVIOUS
  <2> QED
    BY <1>0, <1>11, <2>1 DEF udelay
<1>12. CASE UdelayLoop
  <2>1. ud.cnt - Delta(ud.pre, TCNTO0) \in Int
    BY DEF Delta
  <2>2. ud' \in [cnt : Int, pre : 0 .. R, seen : Nat, start : Nat, due : Nat]
    BY <1>0, <1>12, <2>1 DEF UdelayLoop
  <2> QED
    BY <1>12, <2>2 DEF UdelayLoop
<1>13. CASE DelayUsed
  BY <1>13 DEF DelayUsed, NoDelay
<1>14. CASE UNCHANGED vars
  BY <1>14 DEF vars
<1> QED
  BY <1>1, <1>2, <1>3, <1>4, <1>5, <1>6, <1>7, <1>8, <1>9, <1>10, <1>11,
     <1>12, <1>13, <1>14 DEF Next, Handlers, MainSteps

\* Every step keeps the control of handle_irq_c.
LEMMA HandlerStep == IInv /\ [Next]_vars => HandlerInv'
<1> SUFFICES ASSUME TypeOK, HandlerInv, [Next]_vars PROVE HandlerInv'
  BY DEF IInv, TimeInv, ReadingInv
<1> USE DEF TypeOK, HandlerInv, irqVars, TIMER0, EINT1
<1>1. CASE Tick
  <2>1. SRCPND \subseteq SRCPND' /\ UNCHANGED <<mode, hpc>>
    BY <1>1 DEF Tick
  <2> QED
    BY <2>1
<1>2. CASE Edge
  BY <1>2 DEF Edge
<1>3. ASSUME NEW bit \in {TIMER0, EINT1}, TakeIrq(bit) PROVE HandlerInv'
  BY <1>3 DEF TakeIrq
<1>4. CASE timer_irq
  BY <1>4 DEF timer_irq
<1>5. CASE IrdaReadCounter
  BY <1>5 DEF IrdaReadCounter
<1>6. CASE irda_irq
  BY <1>6 DEF irda_irq
<1>7. CASE ClearIrq
  BY <1>7 DEF ClearIrq
<1>8. CASE MainSteps
  <2>1. UNCHANGED irqVars
    BY <1>8 DEF MainSteps, MainReadCounter, get_system_time_us, TimeUsed,
                udelay, UdelayLoop, DelayUsed
  <2> QED
    BY <2>1
<1>9. CASE UNCHANGED vars
  BY <1>9 DEF vars
<1> QED
  BY <1>1, <1>2, <1>3, <1>4, <1>5, <1>6, <1>7, <1>8, <1>9 DEF Next, Handlers

\* No step loses a period or counts it twice: the latency bound for the wrap,
\* and for timer_irq that its bit stays pending until it is cleared.
LEMMA CountStep == IInv /\ [Next]_vars => PeriodsCounted'
<1> SUFFICES ASSUME TypeOK, HandlerInv, PeriodsCounted, [Next]_vars
             PROVE  PeriodsCounted'
  BY DEF IInv, TimeInv, ReadingInv
<1> USE DEF TypeOK, HandlerInv, PeriodsCounted, Uncounted, irqVars, clockVars,
            TIMER0, EINT1
<1>1. CASE Tick
  <2>1. CASE TCNTO0 = 0
    <3>1. TIMER0 \notin SRCPND
      BY <1>1, <2>1 DEF Tick, LatencyBound
    <3>2. /\ periods' = periods + 1
          /\ TIMER0 \in SRCPND'
          /\ UNCHANGED <<mode, hpc, g_system_time_10ms_cnt>>
      BY <1>1, <2>1 DEF Tick
    <3>3. mode # TIMER0 /\ g_system_time_10ms_cnt = periods
      BY <3>1
    <3>4. mode' # TIMER0 /\ g_system_time_10ms_cnt' = periods' - 1
      BY <3>2, <3>3
    <3> QED
      BY <3>2, <3>4
  <2>2. CASE TCNTO0 # 0
    BY <1>1, <2>2 DEF Tick
  <2> QED
    BY <2>1, <2>2
<1>2. CASE Edge
  BY <1>2 DEF Edge
<1>3. ASSUME NEW bit \in {TIMER0, EINT1}, TakeIrq(bit) PROVE PeriodsCounted'
  BY <1>3 DEF TakeIrq
<1>4. CASE timer_irq
  BY <1>4 DEF timer_irq
<1>5. CASE IrdaReadCounter
  BY <1>5 DEF IrdaReadCounter
<1>6. CASE irda_irq
  BY <1>6 DEF irda_irq
<1>7. CASE ClearIrq
  BY <1>7 DEF ClearIrq
<1>8. CASE MainSteps
  <2>1. UNCHANGED <<irqVars, clockVars, g_system_time_10ms_cnt>>
    BY <1>8 DEF MainSteps, MainReadCounter, get_system_time_us, TimeUsed,
                udelay, UdelayLoop, DelayUsed
  <2> QED
    BY <2>1
<1>9. CASE UNCHANGED vars
  BY <1>9 DEF vars
<1> QED
  BY <1>1, <1>2, <1>3, <1>4, <1>5, <1>6, <1>7, <1>8, <1>9 DEF Next, Handlers

\* Only the two reads of irda_irq write what the infrared driver keeps.
LEMMA IrdaFrame ==
  ASSUME [Next]_vars
  PROVE  \/ IrdaReadCounter
         \/ irda_irq
         \/ /\ UNCHANGED irdaVars
            /\ hpc' = "count" => hpc = "count"
<1> USE DEF irqVars, vars
<1>1. CASE Tick \/ Edge \/ timer_irq \/ ClearIrq \/ UNCHANGED vars
  BY <1>1 DEF Tick, Edge, timer_irq, ClearIrq
<1>2. ASSUME NEW bit \in {TIMER0, EINT1}, TakeIrq(bit)
      PROVE  UNCHANGED irdaVars /\ hpc' # "count"
  BY <1>2 DEF TakeIrq
<1>3. CASE MainSteps
  BY <1>3 DEF MainSteps, MainReadCounter, get_system_time_us, TimeUsed, udelay,
              UdelayLoop, DelayUsed
<1> QED
  BY <1>1, <1>2, <1>3 DEF Next, Handlers

\* Only timer_irq changes the count of periods, upwards and never inside
\* irda_irq.
LEMMA CountFrame ==
  ASSUME TypeOK, HandlerInv, [Next]_vars
  PROVE  \/ g_system_time_10ms_cnt' = g_system_time_10ms_cnt
         \/ /\ g_system_time_10ms_cnt' = g_system_time_10ms_cnt + 1
            /\ hpc' # "count"
            /\ UNCHANGED mainVars
<1>1. CASE timer_irq
  BY <1>1 DEF timer_irq
<1>2. timer_irq \/ UNCHANGED g_system_time_10ms_cnt
  BY DEF Next, Tick, Edge, TakeIrq, Handlers, IrdaReadCounter, irda_irq,
         ClearIrq, MainSteps, MainReadCounter, get_system_time_us, TimeUsed,
         udelay, UdelayLoop, DelayUsed, vars
<1> QED
  BY <1>1, <1>2

\* What the count of periods contributes to a time, by PeriodsCounted.
LEMMA CountedTime ==
  ASSUME TypeOK, PeriodsCounted
  PROVE  /\ g_system_time_10ms_cnt * PeriodUs \in Nat
         /\ periods * PeriodUs \in Nat
         /\ g_system_time_10ms_cnt * PeriodUs \in
              {periods * PeriodUs, periods * PeriodUs - PeriodUs}
         /\ SRCPND = {} =>
              g_system_time_10ms_cnt * PeriodUs = periods * PeriodUs
         /\ g_system_time_10ms_cnt * PeriodUs <= periods * PeriodUs
<1>1. /\ periods \in Nat /\ g_system_time_10ms_cnt \in Nat
      /\ TCNTO0 \in 0 .. R
  BY DEF TypeOK
<1>2. PeriodUs \in Nat
  BY <1>1, UsFacts
<1>3. \A a, b \in Nat : a * b \in Nat
  OBVIOUS
<1>4. (periods - 1) * PeriodUs = periods * PeriodUs - PeriodUs
  BY <1>1, <1>2, Distrib
<1>5. /\ g_system_time_10ms_cnt \in {periods, periods - 1}
      /\ SRCPND = {} => g_system_time_10ms_cnt = periods
  BY DEF PeriodsCounted, Uncounted
<1>6. periods * PeriodUs \in Nat /\ g_system_time_10ms_cnt * PeriodUs \in Nat
  BY <1>1, <1>2, <1>3
<1> QED
  BY <1>2, <1>4, <1>5, <1>6

\* Every step keeps what irda_irq has read and what it has put together.
LEMMA IrdaStep ==
  IInv /\ [Next]_vars => IsrReading' /\ IsrPast' /\ IrdaTime'
<1> SUFFICES ASSUME TypeOK, HandlerInv, PeriodsCounted, IsrReading, IsrPast,
                    IrdaTime, [Next]_vars
             PROVE  IsrReading' /\ IsrPast' /\ IrdaTime'
  BY DEF IInv, TimeInv, ReadingInv
<1>0. /\ PeriodUs \in Nat /\ Us(TCNTO0) \in Nat /\ PeriodUs' = PeriodUs
      /\ isr \in [us : Nat, true : Nat, last : Nat, width : Nat]
      /\ g_system_time_10ms_cnt * PeriodUs \in Nat
      /\ periods * PeriodUs \in Nat
  BY UsFacts, CountedTime DEF TypeOK, PeriodUs
<1>t. TrueTime \in Nat /\ TrueTime' \in Int /\ TrueTime <= TrueTime'
  <2>1. TrueTime \in Nat
    BY ClockTypes
  <2>2. Tick => TrueTime <= TrueTime' /\ TrueTime' \in Int
    <3>1. ASSUME Tick PROVE TrueTime' \in Int
      <4>1. TCNTO0 \in 0 .. R /\ periods \in Nat
        BY DEF TypeOK
      <4>2. TCNTO0' \in 0 .. R /\ periods' \in Nat
        <5>1. CASE TCNTO0 = 0
          BY <3>1, <4>1, <5>1 DEF Tick
        <5>2. CASE TCNTO0 # 0
          BY <3>1, <4>1, <5>2 DEF Tick
        <5> QED
          BY <5>1, <5>2
      <4>3. Us(TCNTO0') \in Nat /\ periods' * PeriodUs \in Int
        BY <1>0, <4>2, UsFacts
      <4> QED
        BY <4>3 DEF TrueTime, PeriodUs, Us
    <3> QED
      BY <3>1, TickForward
  <2> QED
    BY <2>1, <2>2, StepClocks
<1>1. CASE IrdaReadCounter
  <2>1. /\ isr'.us = Us(TCNTO0) /\ isr'.true = TrueTime
        /\ isr'.last = isr.last
        /\ UNCHANGED <<g_system_time_10ms_cnt, g_last_time>>
        /\ TrueTime' = TrueTime
    BY <1>0, <1>1 DEF IrdaReadCounter, clockVars, TrueTime, PeriodUs, Us
  <2>2. g_system_time_10ms_cnt * PeriodUs \in
          {periods * PeriodUs, periods * PeriodUs - PeriodUs}
    BY CountedTime
  <2>3. IsrReading'
    BY <1>0, <2>1, <2>2 DEF IsrReading, TrueTime
  <2>4. IsrPast'
    BY <1>t, <2>1 DEF IsrPast
  <2>5. IrdaTime'
    BY <1>0, <2>1 DEF IrdaTime
  <2> QED
    BY <2>3, <2>4, <2>5
<1>2. CASE irda_irq
  <2>1. /\ isr'.last = isr.true
        /\ g_last_time' = g_system_time_10ms_cnt * PeriodUs + isr.us
        /\ hpc = "count" /\ hpc' = "clear"
    BY <1>2 DEF irda_irq
  <2>2. IrdaTime'
    BY <1>0, <2>1 DEF IrdaTime, IsrReading
  <2>3. IsrPast'
    BY <1>0, <1>t, <2>1 DEF IsrPast
  <2> QED
    BY <2>1, <2>2, <2>3 DEF IsrReading
<1>3. CASE UNCHANGED irdaVars /\ (hpc' = "count" => hpc = "count")
  <2>1. IsrReading'
    BY <1>0, <1>3, CountFrame DEF IsrReading, irdaVars
  <2>2. IsrPast'
    BY <1>0, <1>t, <1>3 DEF IsrPast, irdaVars
  <2>3. IrdaTime'
    BY <1>0, <1>3 DEF IrdaTime, irdaVars
  <2> QED
    BY <2>1, <2>2, <2>3
<1> QED
  BY <1>1, <1>2, <1>3, IrdaFrame

\* Every step keeps the error of a duration: the width differs from the two
\* times by one period at most, and ModDifference takes the narrowing out.
LEMMA PulseStep == IInv /\ [Next]_vars => PulseWidth'
<1> SUFFICES ASSUME TypeOK, IsrReading, IrdaTime, PulseWidth, [Next]_vars
             PROVE  PulseWidth'
  BY DEF IInv, TimeInv, ReadingInv
<1>0. /\ PeriodUs \in Nat /\ PeriodUs' = PeriodUs
      /\ isr \in [us : Nat, true : Nat, last : Nat, width : Nat]
      /\ g_last_time \in Nat
      /\ g_system_time_10ms_cnt * PeriodUs \in Int
  <2>1. PeriodUs \in Nat
    BY UsFacts DEF TypeOK
  <2> QED
    BY <2>1, Distrib DEF TypeOK, PeriodUs
<1>1. CASE irda_irq
  <2> DEFINE cur == g_system_time_10ms_cnt * PeriodUs + isr.us
             x == cur - g_last_time
             w == isr.true - isr.last
  <2>1. cur \in Int /\ x \in Int /\ w \in Int
    BY <1>0
  <2>2. duration' = x % W /\ isr'.width = w
    BY <1>1 DEF irda_irq, delta_time_us
  <2>3. cur \in {isr.true, isr.true - PeriodUs}
    BY <1>1 DEF irda_irq, IsrReading
  <2>4. x - w \in {0, PeriodUs, 0 - PeriodUs}
    <3> HIDE DEF cur
    <3> QED
      BY <1>0, <2>1, <2>3 DEF IrdaTime
  <2> HIDE DEF x, w
  <2>5. (duration' - isr'.width) % W = (x - w) % W
    BY <2>1, <2>2, ModDifference
  <2>6. 0 % W = 0
    OBVIOUS
  <2>7. PulseWidth' =
          ((duration' - isr'.width) % W \in
             {0, PeriodUs % W, (0 - PeriodUs) % W})
    BY <1>0 DEF PulseWidth
  <2> QED
    BY <2>4, <2>5, <2>6, <2>7
<1>2. CASE UNCHANGED <<duration, isr.width>>
  BY <1>0, <1>2 DEF PulseWidth
<1>3. IrdaReadCounter => UNCHANGED <<duration, isr.width>>
  BY <1>0 DEF IrdaReadCounter
<1>4. UNCHANGED irdaVars => UNCHANGED <<duration, isr.width>>
  BY DEF irdaVars
<1> QED
  BY <1>1, <1>2, <1>3, <1>4, IrdaFrame

\* Only main's own steps write its locals.
LEMMA MainFrame == [Next]_vars => MainSteps \/ UNCHANGED mainVars
BY DEF Next, Tick, Edge, TakeIrq, Handlers, timer_irq, IrdaReadCounter,
       irda_irq, ClearIrq, vars

\* Every step keeps what main has read and what it has put together.  The first
\* read finds every wrap counted, since main runs only with nothing pending;
\* the second adds the wraps counted since.
LEMMA MainStep == IInv /\ [Next]_vars => MainReading' /\ MainTime'
<1> SUFFICES ASSUME TypeOK, HandlerInv, PeriodsCounted, MainReading, MainTime,
                    [Next]_vars
             PROVE  MainReading' /\ MainTime'
  BY DEF IInv, TimeInv, ReadingInv
<1>0. /\ PeriodUs \in Nat /\ PeriodUs' = PeriodUs
      /\ Us(TCNTO0) \in Nat /\ Us(TCNTO0) <= PeriodUs
      /\ main \in [us : Nat, true : Nat, cur : Nat, end : Nat]
      /\ g_system_time_10ms_cnt \in Nat
      /\ g_system_time_10ms_cnt * PeriodUs \in Nat
      /\ periods * PeriodUs \in Nat
      /\ SRCPND = {} =>
           g_system_time_10ms_cnt * PeriodUs = periods * PeriodUs
      /\ g_system_time_10ms_cnt * PeriodUs <= periods * PeriodUs
  BY UsFacts, CountedTime DEF TypeOK, PeriodUs
<1>1. CASE MainReadCounter
  <2>1. /\ main'.us = Us(TCNTO0) /\ main'.true = TrueTime
        /\ g_system_time_10ms_cnt' = g_system_time_10ms_cnt
        /\ SRCPND = {} /\ pc' = "us"
    BY <1>0, <1>1 DEF MainReadCounter, MainRuns
  <2>2. MainReading'
    BY <1>0, <2>1 DEF MainReading, TrueTime
  <2> QED
    BY <2>1, <2>2 DEF MainTime
<1>2. CASE get_system_time_us
  <2>1. /\ main'.cur = g_system_time_10ms_cnt * PeriodUs + main.us
        /\ main'.end = TrueTime /\ main'.true = main.true
        /\ pc = "us" /\ pc' = "time"
    BY <1>0, <1>2 DEF get_system_time_us
  <2>2. MainTime'
    BY <1>0, <2>1 DEF MainTime, MainReading, TrueTime
  <2> QED
    BY <2>1, <2>2 DEF MainReading
<1>3. CASE pc' \notin {"us", "time"}
  BY <1>3 DEF MainReading, MainTime
<1>4. CASE UNCHANGED mainVars
  <2>1. /\ pc' = pc /\ main' = main
        /\ g_system_time_10ms_cnt' \in
             {g_system_time_10ms_cnt, g_system_time_10ms_cnt + 1}
    BY <1>4, CountFrame DEF mainVars
  <2>2. /\ g_system_time_10ms_cnt' * PeriodUs \in Int
        /\ g_system_time_10ms_cnt * PeriodUs
             <= g_system_time_10ms_cnt' * PeriodUs
    <3>1. /\ g_system_time_10ms_cnt' \in Nat
          /\ g_system_time_10ms_cnt <= g_system_time_10ms_cnt'
      BY <1>0, <2>1
    <3>2. g_system_time_10ms_cnt' * PeriodUs \in Int
      BY <1>0, <3>1
    <3>3. g_system_time_10ms_cnt * PeriodUs
            <= g_system_time_10ms_cnt' * PeriodUs
      BY <1>0, <3>1, ProductMonotone
    <3> QED
      BY <3>2, <3>3
  <2>3. MainReading'
    BY <1>0, <2>1, <2>2 DEF MainReading
  <2> QED
    BY <1>0, <2>1, <2>3 DEF MainTime
<1>5. MainSteps =>
        MainReadCounter \/ get_system_time_us \/ pc' \notin {"us", "time"}
  BY DEF MainSteps, TimeUsed, udelay, UdelayLoop, DelayUsed
<1> QED
  BY <1>1, <1>2, <1>3, <1>4, <1>5, MainFrame

\* The counter moves by one, so that the distance udelay would compute grows by
\* at most one, over the wrap too, and whatever pre is.
LEMMA DeltaTick ==
  ASSUME TypeOK, Tick
  PROVE  Delta(ud.pre, TCNTO0') <= Delta(ud.pre, TCNTO0) + 1
<1>1. TCNTO0 \in 0 .. R /\ ud.pre \in 0 .. R
  BY DEF TypeOK
<1>2. CASE TCNTO0 = 0
  <2>1. TCNTO0' = R
    BY <1>2 DEF Tick
  <2> QED
    BY <1>1, <1>2, <2>1 DEF Delta
<1>3. CASE TCNTO0 # 0
  <2>1. TCNTO0' = TCNTO0 - 1
    BY <1>3 DEF Tick
  <2> QED
    BY <1>1, <1>3, <2>1 DEF Delta
<1> QED
  BY <1>2, <1>3

\* Every step keeps udelay's account.
LEMMA DelayStep == IInv /\ [Next]_vars => DelayInv'
<1> SUFFICES ASSUME TypeOK, DelayInv, [Next]_vars PROVE DelayInv'
  BY DEF IInv, TimeInv
<1>0. /\ Now \in Nat
      /\ TCNTO0 \in 0 .. R
      /\ ud \in [cnt : Int, pre : 0 .. R, seen : Nat, start : Nat, due : Nat]
      /\ Delta(ud.pre, TCNTO0) \in Int
  BY ClockTypes DEF TypeOK, Delta
<1>1. CASE Tick
  <2>1. Now' = Now + 1 /\ UNCHANGED <<pc, ud>>
    BY <1>1, TickForward DEF Tick, mainVars
  <2>2. Delta(ud.pre, TCNTO0') <= Delta(ud.pre, TCNTO0) + 1
    BY <1>1, DeltaTick
  <2>3. TCNTO0' \in Int
    BY <1>0, <1>1 DEF Tick
  <2>4. /\ Delta(ud.pre, TCNTO0') \in Int
        /\ Delta(ud.pre, TCNTO0)' = Delta(ud.pre, TCNTO0')
    BY <1>0, <2>1, <2>3 DEF Delta
  <2> QED
    BY <1>0, <2>1, <2>2, <2>4 DEF DelayInv, NeverEarly
<1>2. CASE \E n \in Delays : udelay(n)
  <2>1. PICK n \in Delays : udelay(n)
    BY <1>2
  <2>2. /\ ud'.cnt = ud'.due /\ ud'.seen = Now /\ ud'.start = Now
        /\ ud'.pre = TCNTO0 /\ pc' = "udelay"
        /\ ud'.due = n * K
    BY <2>1 DEF udelay
  <2>3. Now' = Now /\ TCNTO0' = TCNTO0
    BY <2>1 DEF udelay, clockVars, Now
  <2>4. n * K \in Int
    OBVIOUS
  <2>5. Delta(TCNTO0, TCNTO0) = 0
    BY <1>0 DEF Delta
  <2>6. Delta(ud.pre, TCNTO0)' = 0
    BY <1>0, <2>2, <2>3 DEF Delta
  <2> QED
    BY <1>0, <2>2, <2>3, <2>4, <2>6 DEF DelayInv, NeverEarly
<1>3. CASE UdelayLoop
  <2>1. Now' = Now /\ TCNTO0' = TCNTO0
    BY <1>3 DEF UdelayLoop, clockVars, Now
  <2>2. CASE ud.cnt > 0
    <3>1. /\ ud'.cnt = ud.cnt - Delta(ud.pre, TCNTO0)
          /\ ud'.pre = TCNTO0 /\ ud'.seen = Now
          /\ ud'.start = ud.start /\ ud'.due = ud.due
          /\ pc = "udelay" /\ pc' = "udelay"
      BY <1>0, <1>3, <2>2 DEF UdelayLoop
    <3>2. Delta(ud.pre, TCNTO0)' = 0
      BY <1>0, <2>1, <3>1 DEF Delta
    <3> QED
      BY <1>0, <2>1, <3>1, <3>2 DEF DelayInv, NeverEarly
  <2>3. CASE ~(ud.cnt > 0)
    <3>1. pc = "udelay" /\ pc' = "delayed" /\ ud' = ud
      BY <1>3, <2>3 DEF UdelayLoop
    <3>2. ud.seen <= Now
      BY <1>0, <3>1 DEF DelayInv, Delta
    <3> QED
      BY <1>0, <2>1, <2>3, <3>1, <3>2 DEF DelayInv, NeverEarly
  <2> QED
    BY <2>2, <2>3
<1>4. CASE pc' \notin {"udelay", "delayed"}
  BY <1>4 DEF DelayInv, NeverEarly
<1>5. CASE UNCHANGED mainVars /\ ~Tick
  <2>1. Now' = Now /\ TCNTO0' = TCNTO0 /\ UNCHANGED <<pc, ud>>
    BY <1>5, StepClocks DEF mainVars
  <2> QED
    BY <2>1 DEF DelayInv, NeverEarly, Delta
<1>6. MainSteps =>
        \/ \E n \in Delays : udelay(n)
        \/ UdelayLoop
        \/ pc' \notin {"udelay", "delayed"}
  BY DEF MainSteps, MainReadCounter, get_system_time_us, TimeUsed, DelayUsed
<1> QED
  BY <1>1, <1>2, <1>3, <1>4, <1>5, <1>6, MainFrame

(***************************************************************************)
(* The theorems.                                                           *)
(***************************************************************************)
\* timer_init and irda_init establish the invariant.
LEMMA InitInv == Init => IInv
<1> SUFFICES ASSUME Init PROVE IInv
  OBVIOUS
<1>0. /\ PeriodUs \in Nat /\ Us(R) = 0 /\ 0 * PeriodUs = 0
      /\ TCNTO0 = R /\ periods = 0 /\ hpc = "enter" /\ pc = "idle"
      /\ isr = [us |-> 0, true |-> 0, last |-> 0, width |-> 0]
      /\ g_last_time = 0 /\ duration = 0
  BY UsFacts DEF Init
<1>1. TypeOK
  BY DEF Init, TypeOK, NoReading, NoDelay
<1>2. MainTime /\ MainReading /\ DelayInv
  BY <1>0 DEF MainTime, MainReading, DelayInv, NeverEarly
<1>3. IrdaTime
  BY <1>0 DEF IrdaTime
<1>4. HandlerInv /\ PeriodsCounted
  BY DEF Init, HandlerInv, PeriodsCounted, Uncounted
<1>5. IsrReading /\ IsrPast
  BY <1>0 DEF IsrReading, IsrPast, TrueTime
<1>6. PulseWidth
  <2>1. (0 - 0) % W = 0
    OBVIOUS
  <2> QED
    BY <1>0, <2>1 DEF PulseWidth
<1> QED
  BY <1>1, <1>2, <1>3, <1>4, <1>5, <1>6 DEF IInv, TimeInv, ReadingInv

\* Every step of the counter, of an interrupt or of main keeps the invariant.
LEMMA StepInv == IInv /\ [Next]_vars => IInv'
<1> SUFFICES ASSUME IInv, [Next]_vars PROVE IInv'
  OBVIOUS
<1>1. TypeOK' /\ HandlerInv' /\ PeriodsCounted'
  BY TypeStep, HandlerStep, CountStep
<1>2. IsrReading' /\ IsrPast' /\ IrdaTime' /\ PulseWidth'
  BY IrdaStep, PulseStep
<1>3. MainReading' /\ MainTime' /\ DelayInv'
  BY MainStep, DelayStep
<1> QED
  BY <1>1, <1>2, <1>3 DEF IInv, TimeInv, ReadingInv

\* The invariant holds in every reachable state.
THEOREM InductiveInvariant == Spec => []IInv
<1> QED
  BY InitInv, StepInv, PTL DEF Spec

\* timer_irq counts every wrap of the counter once, however long the wrap waits
\* behind another handler.
THEOREM NoPeriodLost == Spec => []PeriodsCounted
<1>1. IInv => PeriodsCounted
  BY DEF IInv
<1> QED
  BY <1>1, InductiveInvariant, PTL

\* get_system_time_us is right in main but for the period that can pass between
\* its two reads, and right in irda_irq but for the wrap not yet counted.
THEOREM TimesRight == Spec => []TimeInv
<1>1. IInv => TimeInv
  BY DEF IInv
<1> QED
  BY <1>1, InductiveInvariant, PTL

\* The duration irda_irq reports is the width of the pulse but for one period,
\* modulo the width of an unsigned int.
THEOREM DurationRight == Spec => []PulseWidth
<1>1. IInv => PulseWidth
  BY DEF IInv
<1> QED
  BY <1>1, InductiveInvariant, PTL

\* udelay never returns early.
THEOREM DelayNeverEarly == Spec => []NeverEarly
<1>1. IInv => NeverEarly
  BY DEF IInv, DelayInv
<1> QED
  BY <1>1, InductiveInvariant, PTL
=============================================================================
