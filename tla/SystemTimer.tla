---------------------------- MODULE SystemTimer -----------------------------
(***************************************************************************)
(* The time base of the bare-metal program (timer.c) and its users: timer0 *)
(* counts down from 50000 to 0 every 10 ms and interrupts; timer_irq       *)
(* counts the periods; get_system_time_us puts the two together, from main *)
(* and from the infrared interrupt (irda_raw.c); udelay watches the        *)
(* counter alone.                                                          *)
(*                                                                         *)
(* handle_irq_c runs one handler at a time with IRQs masked and clears the *)
(* source's pending bit after the handler.  The counter runs on meanwhile: *)
(* it can wrap between any two steps.  Main runs only when nothing is      *)
(* pending, since a pending interrupt is taken at once when IRQs are on.   *)
(***************************************************************************)
EXTENDS Integers

CONSTANTS
  R,           \* TCNTB0, the reload value (50000)
  K,           \* counts per microsecond (5)
  W,           \* range of an unsigned int (2^32), the width of a duration
  Delays,      \* arguments of udelay
  MaxPeriods   \* bound: periods the model runs for

ASSUME RAssumption == R \in Nat \ {0}
ASSUME KAssumption == K \in Nat \ {0}
ASSUME WAssumption == W \in Nat \ {0}
ASSUME DelaysAssumption == Delays \subseteq Nat
ASSUME MaxPeriodsAssumption == MaxPeriods \in Nat

TIMER0 == "timer0"
EINT1  == "eint1"

VARIABLES
  TCNTO0,    \* the counter, R down to 0
  periods,   \* external: how often it has wrapped
  SRCPND,    \* pending interrupt sources
  mode,      \* "main", or the source whose handler runs
  hpc,       \* where that handler is
  g_system_time_10ms_cnt,
  isr,       \* irda_irq's locals, and the true time it should have seen
  g_last_time,
  duration,  \* event.duration of the last edge
  pc,        \* where main is
  main,      \* main's locals in get_system_time_us
  ud         \* udelay's locals: cnt, pre; history: start, seen, due

clockVars == <<TCNTO0, periods>>
irqVars   == <<SRCPND, mode, hpc>>
irdaVars  == <<isr, g_last_time, duration>>
mainVars  == <<pc, main, ud>>
vars == <<clockVars, irqVars, g_system_time_10ms_cnt, irdaVars, mainVars>>

NoReading == [us |-> 0, true |-> 0, cur |-> 0, end |-> 0]
NoDelay   == [cnt |-> 0, pre |-> 0, seen |-> 0, start |-> 0, due |-> 0]

(***************************************************************************)
(* External: time.  Now counts ticks since timer_init.                     *)
(***************************************************************************)
Now == periods * (R + 1) + (R - TCNTO0)

\* IRQs are never masked for a whole period: when the counter wraps, the
\* interrupt of the previous wrap has been handled and cleared.
LatencyBound == TCNTO0 = 0 => TIMER0 \notin SRCPND

Tick ==
  /\ periods < MaxPeriods
  /\ LatencyBound
  /\ IF TCNTO0 = 0
     THEN /\ TCNTO0' = R
          /\ periods' = periods + 1
          /\ SRCPND' = SRCPND \cup {TIMER0}
     ELSE /\ TCNTO0' = TCNTO0 - 1
          /\ UNCHANGED <<periods, SRCPND>>
  /\ UNCHANGED <<mode, hpc, g_system_time_10ms_cnt, irdaVars, mainVars>>

\* An edge of the infrared receiver; pulses are longer than the handler.
Edge ==
  /\ EINT1 \notin SRCPND
  /\ SRCPND' = SRCPND \cup {EINT1}
  /\ UNCHANGED <<clockVars, mode, hpc, g_system_time_10ms_cnt, irdaVars,
                 mainVars>>

(***************************************************************************)
(* handle_irq_c                                                            *)
(***************************************************************************)
\* INTOFFSET: the arbiter's choice among the pending sources.
TakeIrq(bit) ==
  /\ mode = "main"
  /\ bit \in SRCPND
  /\ mode' = bit
  /\ hpc' = "enter"
  /\ UNCHANGED <<clockVars, SRCPND, g_system_time_10ms_cnt, irdaVars, mainVars>>

\* mutant of ClearIrq: every pending source is cleared, not only the one
\* that was handled
ClearIrqAll ==
  /\ mode # "main" /\ hpc = "clear"
  /\ SRCPND' = {}
  /\ mode' = "main"
  /\ hpc' = "enter"
  /\ UNCHANGED <<clockVars, g_system_time_10ms_cnt, irdaVars, mainVars>>

\* SRCPND = (1<<bit); INTPND = (1<<bit), after the handler.
ClearIrq ==
  /\ mode # "main" /\ hpc = "clear"
  /\ SRCPND' = SRCPND \ {mode}
  /\ mode' = "main"
  /\ hpc' = "enter"
  /\ UNCHANGED <<clockVars, g_system_time_10ms_cnt, irdaVars, mainVars>>

\* The registered functions run here too; they do not touch the time.
timer_irq ==
  /\ mode = TIMER0 /\ hpc = "enter"
  /\ g_system_time_10ms_cnt' = g_system_time_10ms_cnt + 1
  /\ hpc' = "clear"
  /\ UNCHANGED <<clockVars, SRCPND, mode, irdaVars, mainVars>>

(***************************************************************************)
(* get_system_time_us: the counter first, then the count of periods.       *)
(***************************************************************************)
PeriodUs == R \div K      \* 10 * 1000

Us(cnt) == (R - cnt) \div K

\* What the two values of the same moment would give.
TrueTime == periods * PeriodUs + Us(TCNTO0)

\* mutant of delta_time_us: the operands are swapped
DeltaTimeSwapped(pre, now) == (pre - now) % W

\* The difference of two 64-bit times, narrowed to an unsigned int.
delta_time_us(pre, now) == (now - pre) % W

\* irda_irq with IRQs masked.
IrdaReadCounter ==
  /\ mode = EINT1 /\ hpc = "enter"
  /\ isr' = [isr EXCEPT !.us = Us(TCNTO0), !.true = TrueTime]
  /\ hpc' = "count"
  /\ UNCHANGED <<clockVars, SRCPND, mode, g_system_time_10ms_cnt, g_last_time,
                 duration, mainVars>>

\* cur is complete; the event goes to the ring and g_last_time is kept.
irda_irq ==
  /\ mode = EINT1 /\ hpc = "count"
  /\ LET cur == g_system_time_10ms_cnt * PeriodUs + isr.us
     IN  /\ duration' = delta_time_us(g_last_time, cur)
         /\ g_last_time' = cur
  /\ isr' = [us |-> 0, true |-> 0, last |-> isr.true,
             width |-> isr.true - isr.last]
  /\ hpc' = "clear"
  /\ UNCHANGED <<clockVars, SRCPND, mode, g_system_time_10ms_cnt, mainVars>>

MainRuns == mode = "main" /\ SRCPND = {}

\* The same two reads in main, where an interrupt may come in between.
MainReadCounter ==
  /\ MainRuns /\ pc = "idle"
  /\ main' = [main EXCEPT !.us = Us(TCNTO0), !.true = TrueTime]
  /\ pc' = "us"
  /\ UNCHANGED <<clockVars, irqVars, g_system_time_10ms_cnt, irdaVars, ud>>

get_system_time_us ==
  /\ MainRuns /\ pc = "us"
  /\ main' = [main EXCEPT !.cur = g_system_time_10ms_cnt * PeriodUs + main.us,
                          !.end = TrueTime]
  /\ pc' = "time"
  /\ UNCHANGED <<clockVars, irqVars, g_system_time_10ms_cnt, irdaVars, ud>>

\* The caller has used the value; the locals are gone.
TimeUsed ==
  /\ MainRuns /\ pc = "time"
  /\ pc' = "idle"
  /\ main' = NoReading
  /\ UNCHANGED <<clockVars, irqVars, g_system_time_10ms_cnt, irdaVars, ud>>

(***************************************************************************)
(* udelay                                                                  *)
(***************************************************************************)
\* Up to the loop: pre is sampled, cnt is the number of counts to wait.
udelay(n) ==
  /\ MainRuns /\ pc = "idle"
  /\ ud' = [cnt |-> n * K, pre |-> TCNTO0, seen |-> Now, start |-> Now,
            due |-> n * K]
  /\ pc' = "udelay"
  /\ UNCHANGED <<clockVars, irqVars, g_system_time_10ms_cnt, irdaVars, main>>

\* mutant of Delta: the two terms of the wrapped case are confused
DeltaSwapped(pre, cur) == IF cur <= pre THEN pre - cur ELSE cur + (R - pre)

Delta(pre, cur) == IF cur <= pre THEN pre - cur ELSE pre + (R - cur)

UdelayLoop ==
  /\ MainRuns /\ pc = "udelay"
  /\ IF ud.cnt > 0
     THEN /\ ud' = [ud EXCEPT !.cnt = ud.cnt - Delta(ud.pre, TCNTO0),
                              !.pre = TCNTO0, !.seen = Now]
          /\ UNCHANGED pc
     ELSE pc' = "delayed" /\ UNCHANGED ud
  /\ UNCHANGED <<clockVars, irqVars, g_system_time_10ms_cnt, irdaVars, main>>

\* udelay has returned; the locals are gone.
DelayUsed ==
  /\ MainRuns /\ pc = "delayed"
  /\ pc' = "idle"
  /\ ud' = NoDelay
  /\ UNCHANGED <<clockVars, irqVars, g_system_time_10ms_cnt, irdaVars, main>>

(***************************************************************************)
(* The specification.                                                      *)
(***************************************************************************)
\* After timer_init and irda_init.
Init ==
  /\ TCNTO0 = R /\ periods = 0
  /\ SRCPND = {} /\ mode = "main" /\ hpc = "enter"
  /\ g_system_time_10ms_cnt = 0
  /\ isr = [us |-> 0, true |-> 0, last |-> 0, width |-> 0]
  /\ g_last_time = 0 /\ duration = 0
  /\ pc = "idle"
  /\ main = NoReading
  /\ ud = NoDelay

Handlers == timer_irq \/ IrdaReadCounter \/ irda_irq \/ ClearIrq

MainSteps ==
  \/ MainReadCounter \/ get_system_time_us \/ TimeUsed
  \/ (\E n \in Delays : udelay(n)) \/ UdelayLoop \/ DelayUsed

Next ==
  \/ Tick \/ Edge
  \/ \E bit \in {TIMER0, EINT1} : TakeIrq(bit)
  \/ Handlers
  \/ MainSteps

Spec == Init /\ [][Next]_vars

(***************************************************************************)
(* Properties.                                                             *)
(***************************************************************************)
\* Types of the registers and of the locals.
TypeOK ==
  /\ TCNTO0 \in 0 .. R
  /\ periods \in 0 .. MaxPeriods
  /\ SRCPND \subseteq {TIMER0, EINT1}
  /\ mode \in {"main", TIMER0, EINT1}
  /\ hpc \in {"enter", "count", "clear"}
  /\ g_system_time_10ms_cnt \in Nat
  /\ isr \in [us : Nat, true : Nat, last : Nat, width : Nat]
  /\ g_last_time \in Nat
  /\ duration \in Nat
  /\ pc \in {"idle", "us", "time", "udelay", "delayed"}
  /\ main \in [us : Nat, true : Nat, cur : Nat, end : Nat]
  /\ ud \in [cnt : Int, pre : 0 .. R, seen : Nat, start : Nat, due : Nat]

\* The wrap is pending and timer_irq has not counted it yet.
Uncounted == TIMER0 \in SRCPND /\ ~(mode = TIMER0 /\ hpc = "clear")

\* No period is lost or counted twice, although the pending bit is cleared
\* only after timer_irq: the count lags by the wrap that is still pending.
PeriodsCounted ==
  g_system_time_10ms_cnt = IF Uncounted THEN periods - 1 ELSE periods

\* get_system_time_us called from main is never behind the moment it was
\* called, and ahead of the moment it returns by at most one period: the
\* counter may be old, the count of periods is not.
MainTime ==
  pc = "time" => main.true <= main.cur /\ main.cur <= main.end + PeriodUs

\* Called from irda_irq it is right, or one period behind when the counter
\* had wrapped and timer_irq was still waiting; never ahead.
IrdaTime == g_last_time \in {isr.last, isr.last - PeriodUs}

\* The time main and irda_irq read is right but for these errors.
TimeInv == TypeOK /\ MainTime /\ IrdaTime

\* What irda_irq puts into the event is the width of the pulse, or a period too
\* short when the wrap was not counted yet at its end, or a period too long when
\* that was so at its start: errors do not add up from pulse to pulse, and the
\* narrowing to an unsigned int, also of a time that seems to run backwards,
\* adds none.
PulseWidth ==
  (duration - isr.width) % W \in {0, PeriodUs % W, (0 - PeriodUs) % W}

\* udelay(n) never returns before n microseconds have passed, whatever
\* interrupts, and however many periods, stretch its loop.
NeverEarly == pc = "delayed" => Now - ud.start >= ud.due
=============================================================================
