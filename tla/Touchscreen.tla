----------------------------- MODULE Touchscreen ------------------------------
(***************************************************************************)
(* The bare-metal touchscreen driver (adc_touchscreen/touchscreen.c) and   *)
(* its user get_calibrate_point_data (tslib.c).  The controller waits for  *)
(* the pen to go down or up, or measures; its two interrupts share one     *)
(* handler, the 10 ms timer calls another one, and both change the mode,   *)
(* start conversions and put reports into a mailbox of one, which main     *)
(* empties.                                                                *)
(*                                                                         *)
(* A handler runs with IRQs masked and is one step: what it starts ends    *)
(* ADCDLY (5 ms) later at the earliest, after the handler has cleared the  *)
(* pending bits.  Main runs when no interrupt is pending.                  *)
(***************************************************************************)
EXTENDS Integers

CONSTANTS
  N,           \* conversions per report (16)
  M,           \* reports averaged for a calibration point (128)
  Positions,   \* pairs <<x, y>> the panel can return
  MaxMoves     \* bound: pen movements

ASSUME NAssumption == N \in Nat /\ N > 1
ASSUME MAssumption == M \in Nat \ {0}
ASSUME PositionsAssumption == Positions \subseteq (Nat \ {0}) \X (Nat \ {0})
ASSUME MaxMovesAssumption == MaxMoves \in Nat

TC  == "TC"      \* TC_INT_BIT
ADC == "ADC"     \* ADC_INT_BIT

VARIABLES
  pen,        \* external: TRUE while the pen is down
  moves,      \* external: pen movements so far
  SUBSRCPND,
  ts,         \* the driver's registers and globals
  pc,         \* where main is in ts_read_raw
  raw,        \* its locals x, y, pressure
  cal,        \* get_calibrate_point_data: phase, cnt, sum_x, sum_y
  point,      \* the last point it returned
  report,     \* history: the report that main is reading
  lifted,     \* history: the pen was up since a touch was last stored
  taken       \* history: the samples taken for a report since a handler last
              \* saw the pen up: how many, and their coordinates' sums

penVars  == <<pen, moves>>
mainVars == <<pc, raw, cal, point, report>>
histVars == <<lifted, taken>>
vars == <<penVars, SUBSRCPND, ts, mainVars, histVars>>

Report(x, y, pressure) == [x |-> x, y |-> y, pressure |-> pressure]
NoReport == Report(0, 0, 0)
NoPoint  == [phase |-> "press", cnt |-> 0, sum_x |-> 0, sum_y |-> 0]
NoSamples == [n |-> 0, x |-> 0, y |-> 0]

(***************************************************************************)
(* The driver's functions, as functions of its state t.                    *)
(***************************************************************************)
enter_wait_pen_down_mode(t) == [t EXCEPT !.ADCTSC = "down"]
enter_wait_pen_up_mode(t)   == [t EXCEPT !.ADCTSC = "up"]

\* mutant of Measure: the mode is set, the conversion is not started
MeasureNot(t) == [t EXCEPT !.ADCTSC = "auto"]

\* enter_auto_measure_mode(); ADCCON |= (1<<0)
Measure(t) == [t EXCEPT !.ADCTSC = "auto", !.converting = TRUE]

\* mutant of is_in_auto_mode: the timer does not see a measurement
is_in_auto_modeNever(t) == FALSE

is_in_auto_mode(t) == t.ADCTSC = "auto"

\* ADCDAT0 bit 15, TRUE for "pen up": valid in the waiting modes only.
Bit15(t) == IF t.ADCTSC = "auto" THEN BOOLEAN ELSE {~pen}

\* mutant of ts_timer: the timer is never enabled
ts_timerNever(t, on) == [t EXCEPT !.g_ts_timer_enable = FALSE]

\* ts_timer_enable and ts_timer_disable
ts_timer(t, on) == [t EXCEPT !.g_ts_timer_enable = on]

\* mutant of report_ts_xy: a report that main has not taken is overwritten
report_ts_xyOver(t, r) == [t EXCEPT !.g_ts = r, !.g_ts_data_valid = TRUE]

report_ts_xy(t, r) ==
  IF t.g_ts_data_valid THEN t
                       ELSE [t EXCEPT !.g_ts = r, !.g_ts_data_valid = TRUE]

Isr_Tc(t, up) ==
  IF up THEN report_ts_xy(enter_wait_pen_down_mode(t), NoReport)
        ELSE Measure(t)

\* mutant of ResetSamples: the sums are kept
ResetSamplesNot(t) == [t EXCEPT !.adc_cnt = 0]

ResetSamples(t) == [t EXCEPT !.adc_cnt = 0, !.adc_x = 0, !.adc_y = 0]

\* mutant of SamplesDropped: the samples are not forgotten
SamplesDroppedNot(t) ==
  report_ts_xy(enter_wait_pen_down_mode(ts_timer(t, FALSE)), NoReport)

\* The pen is up after the conversion: forget the samples.
SamplesDropped(t) ==
  report_ts_xy(enter_wait_pen_down_mode(ts_timer(ResetSamples(t), FALSE)),
               NoReport)

\* The pen is still down: the Nth sample completes a report, else measure on.
SampleAdded(t, pos) ==
  LET u == [t EXCEPT !.adc_cnt = t.adc_cnt + 1, !.adc_x = t.adc_x + pos[1],
                     !.adc_y = t.adc_y + pos[2]]
  IN  IF u.adc_cnt = N
      THEN ts_timer(ResetSamples(report_ts_xy(u,
             Report(u.adc_x \div N, u.adc_y \div N, 1))), TRUE)
      ELSE Measure(u)

\* Bit 15 is read after enter_wait_pen_up_mode: it is valid.
Isr_Adc(t, pos) ==
  LET u == enter_wait_pen_up_mode(t)
  IN  IF pen THEN SampleAdded(u, pos) ELSE SamplesDropped(u)

(***************************************************************************)
(* External: the pen and the controller.                                   *)
(***************************************************************************)
PenMoves ==
  /\ moves < MaxMoves
  /\ pen' = ~pen
  /\ moves' = moves + 1
  /\ lifted' = (lifted \/ pen)
  /\ UNCHANGED <<SUBSRCPND, ts, mainVars, taken>>

\* In a waiting mode the controller signals the state it waits for.
PenInterrupt ==
  /\ ts.ADCTSC = (IF pen THEN "down" ELSE "up")
  /\ TC \notin SUBSRCPND
  /\ SUBSRCPND' = SUBSRCPND \cup {TC}
  /\ UNCHANGED <<penVars, ts, mainVars, histVars>>

ConversionDone ==
  /\ ts.converting
  /\ ts' = [ts EXCEPT !.converting = FALSE]
  /\ SUBSRCPND' = SUBSRCPND \cup {ADC}
  /\ UNCHANGED <<penVars, mainVars, histVars>>

(***************************************************************************)
(* Handlers.                                                               *)
(***************************************************************************)
\* A touch was stored in this step: the pen has not been up since.
Stored == ts'.g_ts_data_valid /\ ~ts.g_ts_data_valid /\ ts'.g_ts.pressure = 1

\* One more sample; N of them make a report.
Taken(s, pos) ==
  LET f == IF s.n = N THEN NoSamples ELSE s
  IN  [n |-> f.n + 1, x |-> f.x + pos[1], y |-> f.y + pos[2]]

\* Isr_Tc, then Isr_Adc, as their bits say; then both bits are cleared.
AdcTsIntHandle ==
  /\ SUBSRCPND # {}
  /\ \E up \in Bit15(ts), pos \in Positions :
       LET t == IF TC \in SUBSRCPND THEN Isr_Tc(ts, up) ELSE ts
           s == IF TC \in SUBSRCPND /\ up THEN NoSamples ELSE taken
       IN  /\ ts' = IF ADC \in SUBSRCPND THEN Isr_Adc(t, pos) ELSE t
           /\ taken' = IF ADC \notin SUBSRCPND THEN s
                       ELSE IF pen THEN Taken(s, pos) ELSE NoSamples
  /\ SUBSRCPND' = {}
  /\ lifted' = (lifted /\ ~Stored)
  /\ UNCHANGED <<penVars, mainVars>>

\* Called from timer_irq every 10 ms, before or after AdcTsIntHandle when
\* both are pending.
touchscreen_timer_irq ==
  /\ ts.g_ts_timer_enable
  /\ ~is_in_auto_mode(ts)
  /\ \E up \in Bit15(ts) :
       /\ ts' = IF up
                THEN report_ts_xy(
                       enter_wait_pen_down_mode(ts_timer(ts, FALSE)), NoReport)
                ELSE Measure(ts)
       /\ taken' = IF up THEN NoSamples ELSE taken
  /\ UNCHANGED <<penVars, SUBSRCPND, mainVars, lifted>>

(***************************************************************************)
(* Main: ts_read_raw, one memory access per step.                          *)
(***************************************************************************)
MainRuns == SUBSRCPND = {}

WaitValid ==
  /\ MainRuns /\ pc = "wait"
  /\ ts.g_ts_data_valid
  /\ report' = ts.g_ts
  /\ pc' = "x"
  /\ UNCHANGED <<penVars, SUBSRCPND, ts, raw, cal, point, histVars>>

ReadX ==
  /\ MainRuns /\ pc = "x"
  /\ raw' = [raw EXCEPT !.x = ts.g_ts.x]
  /\ pc' = "y"
  /\ UNCHANGED <<penVars, SUBSRCPND, ts, cal, point, report, histVars>>

ReadY ==
  /\ MainRuns /\ pc = "y"
  /\ raw' = [raw EXCEPT !.y = ts.g_ts.y]
  /\ pc' = "pressure"
  /\ UNCHANGED <<penVars, SUBSRCPND, ts, cal, point, report, histVars>>

ReadPressure ==
  /\ MainRuns /\ pc = "pressure"
  /\ raw' = [raw EXCEPT !.pressure = ts.g_ts.pressure]
  /\ pc' = "clear"
  /\ UNCHANGED <<penVars, SUBSRCPND, ts, cal, point, report, histVars>>

\* get_calibrate_point_data after a read: add a touch, up to M of them;
\* return the average when the pen goes up.
PointLoop ==
  IF raw.pressure # 0
  THEN /\ cal' = [phase |-> "drag",
                  cnt   |-> IF cal.cnt < M THEN cal.cnt + 1 ELSE cal.cnt,
                  sum_x |-> IF cal.cnt < M THEN cal.sum_x + raw.x ELSE cal.sum_x,
                  sum_y |-> IF cal.cnt < M THEN cal.sum_y + raw.y ELSE cal.sum_y]
       /\ UNCHANGED point
  ELSE IF cal.phase = "drag"
       THEN /\ point' = <<cal.sum_x \div cal.cnt, cal.sum_y \div cal.cnt>>
            /\ cal' = NoPoint
       ELSE UNCHANGED <<cal, point>>

\* g_ts_data_valid = 0; ts_read_raw returns to the loop.
ts_read_raw ==
  /\ MainRuns /\ pc = "clear"
  /\ ts' = [ts EXCEPT !.g_ts_data_valid = FALSE]
  /\ PointLoop
  /\ pc' = "wait"
  /\ raw' = NoReport
  /\ report' = NoReport
  /\ UNCHANGED <<penVars, SUBSRCPND, histVars>>

(***************************************************************************)
(* The specification.                                                      *)
(***************************************************************************)
\* After touchscreen_init, the pen up.
Init ==
  /\ pen = FALSE /\ moves = 0
  /\ SUBSRCPND = {}
  /\ ts = [ADCTSC |-> "down", converting |-> FALSE, g_ts_timer_enable |-> FALSE,
           adc_cnt |-> 0, adc_x |-> 0, adc_y |-> 0,
           g_ts |-> NoReport, g_ts_data_valid |-> FALSE]
  /\ pc = "wait" /\ raw = NoReport /\ cal = NoPoint
  /\ point = <<0, 0>>
  /\ report = NoReport
  /\ lifted = TRUE
  /\ taken = NoSamples

Main == WaitValid \/ ReadX \/ ReadY \/ ReadPressure \/ ts_read_raw

Next ==
  \/ PenMoves \/ PenInterrupt \/ ConversionDone
  \/ AdcTsIntHandle \/ touchscreen_timer_irq
  \/ Main

\* The hardware and the timer go on and pending interrupts are taken.  Main
\* runs between them: a conversion takes 5 ms and a handler far less, so
\* interrupts that keep coming do not keep main out.  Nobody has to move
\* the pen.
Fairness ==
  /\ WF_vars(PenInterrupt) /\ WF_vars(ConversionDone)
  /\ WF_vars(AdcTsIntHandle) /\ WF_vars(touchscreen_timer_irq)
  /\ SF_vars(Main)

Spec == Init /\ [][Next]_vars /\ Fairness

(***************************************************************************)
(* Properties.                                                             *)
(***************************************************************************)
Reports == [x : Nat, y : Nat, pressure : {0, 1}]
Samples == [n : 0 .. N, x : Nat, y : Nat]

\* Types; adc_cnt is an index of test_x_array.
TypeOK ==
  /\ pen \in BOOLEAN
  /\ moves \in 0 .. MaxMoves
  /\ SUBSRCPND \subseteq {TC, ADC}
  /\ ts \in [ADCTSC : {"down", "up", "auto"}, converting : BOOLEAN,
             g_ts_timer_enable : BOOLEAN,
             adc_cnt : 0 .. N - 1, adc_x : Nat, adc_y : Nat,
             g_ts : Reports, g_ts_data_valid : BOOLEAN]
  /\ pc \in {"wait", "x", "y", "pressure", "clear"}
  /\ raw \in Reports
  /\ cal \in [phase : {"press", "drag"}, cnt : 0 .. M, sum_x : Nat, sum_y : Nat]
  /\ point \in Nat \X Nat
  /\ report \in Reports
  /\ lifted \in BOOLEAN
  /\ taken \in Samples

\* ts_read_raw: x, y and pressure belong to one report, although the
\* handlers may run between any two of the three reads.
NoTornRead == pc = "clear" => raw = report

\* Measuring always ends: in automatic mode a conversion is under way or its
\* interrupt is pending.  The timer does nothing in that mode, so nothing
\* else would ever leave it.
ConversionUnderWay ==
  ts.ADCTSC = "auto" => ts.converting \/ ADC \in SUBSRCPND

\* The three handlers switch mode, sample index and timer under each other and
\* leave them consistent: the index stays in the array, measuring ends.
ModeInv == TypeOK /\ ConversionUnderWay

Within(p) ==
  \A i \in {1, 2} :
    /\ \E q \in Positions : q[i] <= p[i]
    /\ \E q \in Positions : p[i] <= q[i]

\* Isr_Adc: a touch that is reported is the average of N samples of that touch,
\* all taken since a handler last saw the pen up.  Isr_Tc and the timer do not
\* reset the sums when they see it; only Isr_Adc does.
ReportOfOneTouch ==
  [][Stored => taken'.n = N /\ ts'.g_ts = Report(taken'.x \div N, taken'.y \div N, 1)]_vars

\* get_calibrate_point_data: the point lies between coordinates of the panel.  Its
\* sums and its count go together although it drops the reports after the Mth,
\* and the zeros of a pen-up report stay out of them.
PointInRange == point # <<0, 0>> => Within(point)

\* The comment in get_calibrate_point_data: it returns only when the pen has
\* been lifted; a pen-up report is never made up while the pen stays down.
ReleaseIsReal ==
  (cal.phase = "drag" /\ ts.g_ts_data_valid /\ ts.g_ts.pressure = 0) => lifted

\* A pen that stays down is noticed: main's read returns, or the pen moves.
TouchRead == (pc = "wait" /\ pen) ~> (pc # "wait" \/ ~pen)
=============================================================================
