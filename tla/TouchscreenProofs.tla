-------------------------- MODULE TouchscreenProofs --------------------------
(***************************************************************************)
(* The safety properties of the touchscreen driver for any number of       *)
(* conversions per report, of reports per point and any panel.             *)
(***************************************************************************)
EXTENDS Touchscreen, TLAPS

USE NAssumption, MAssumption, MaxMovesAssumption

(***************************************************************************)
(* The inductive invariant.                                                *)
(***************************************************************************)
\* The mailbox that main is reading is not written: its parts so far are those
\* of the report it found.
ReadInv ==
  /\ pc # "wait" => ts.g_ts_data_valid /\ report = ts.g_ts
  /\ pc \in {"y", "pressure", "clear"} => raw.x = report.x
  /\ pc \in {"pressure", "clear"} => raw.y = report.y
  /\ pc = "clear" => raw.pressure = report.pressure

\* Who may conclude that the pen was lifted since the last touch: the panel, the
\* mode that waits for the pen to come down, a pen interrupt not yet handled
\* (its handler may find the controller measuring and read an invalid bit 15),
\* and a pen-up report in the mailbox.
LiftInv ==
  /\ ~pen => lifted
  /\ ts.ADCTSC = "down" => lifted
  /\ TC \in SUBSRCPND => lifted
  /\ ts.g_ts_data_valid /\ ts.g_ts.pressure = 0 => lifted

\* s is a sum of c coordinates of the panel: no less than c times one of them and
\* no more than c times another.
SumOf(c, s, k) ==
  \/ c = 0 /\ s = 0
  \/ /\ \E q \in Positions : c * q[k] <= s
     /\ \E q \in Positions : s <= c * q[k]

\* The sums of the handlers and of main hold coordinates of the panel, and so does
\* every touch on its way between them.
SampleInv ==
  /\ SumOf(ts.adc_cnt, ts.adc_x, 1) /\ SumOf(ts.adc_cnt, ts.adc_y, 2)
  /\ ts.g_ts.pressure = 1 => Within(<<ts.g_ts.x, ts.g_ts.y>>)
  /\ SumOf(cal.cnt, cal.sum_x, 1) /\ SumOf(cal.cnt, cal.sum_y, 2)
  /\ cal.phase = "drag" => cal.cnt # 0

IInv == ModeInv /\ ReadInv /\ LiftInv /\ SampleInv /\ PointInRange

(***************************************************************************)
(* Sums and averages of coordinates.                                       *)
(***************************************************************************)
\* The panel returns numbers.
LEMMA Coordinate ==
  ASSUME NEW q \in Positions, NEW k \in {1, 2}
  PROVE  q[k] \in Nat
<1>1. q[1] \in Nat /\ q[2] \in Nat
  BY PositionsAssumption
<1> QED
  BY <1>1

\* A product grows with its second factor.
LEMMA ProductMonotone ==
  ASSUME NEW c \in Nat, NEW a \in Nat, NEW b \in Nat, a <= b
  PROVE  c * a <= c * b
<1>1. PICK d \in Nat : b = a + d
  <2>1. b - a \in Nat /\ b = a + (b - a)
    OBVIOUS
  <2> QED
    BY <2>1
<1>2. c * b = c * a + c * d
  BY <1>1
<1>3. c * d \in Nat /\ c * a \in Nat
  OBVIOUS
<1> QED
  BY <1>2, <1>3

\* One factor more.
LEMMA ProductStep ==
  ASSUME NEW c \in Nat, NEW a \in Nat
  PROVE  (c + 1) * a = c * a + a /\ c * a \in Nat
OBVIOUS

\* A sum stays above some coordinate when a value that is above one is added.
LEMMA SumAbove ==
  ASSUME NEW P, P \subseteq Nat, NEW c \in Nat, NEW s \in Nat,
         c = 0 \/ \E a \in P : c * a <= s,
         NEW x \in Nat, \E a \in P : a <= x
  PROVE  \E a \in P : (c + 1) * a <= s + x
<1>1. PICK b \in P : b <= x
  OBVIOUS
<1>2. CASE c = 0
  BY <1>1, <1>2
<1>3. CASE \E a \in P : c * a <= s
  <2>1. PICK a \in P : c * a <= s
    BY <1>3
  <2>2. a \in Nat /\ b \in Nat
    OBVIOUS
  <2>3. CASE a <= x
    BY <2>1, <2>2, <2>3, ProductStep
  <2>4. CASE ~(a <= x)
    <3>1. b <= a
      BY <1>1, <2>2, <2>4
    <3>2. c * b <= c * a
      BY <2>2, <3>1, ProductMonotone
    <3>3. (c + 1) * b = c * b + b /\ c * b \in Nat /\ c * a \in Nat
      BY <2>2, ProductStep
    <3>4. (c + 1) * b <= s + x
      BY <1>1, <2>1, <2>2, <3>2, <3>3
    <3> QED
      BY <3>4
  <2> QED
    BY <2>3, <2>4
<1> QED
  BY <1>2, <1>3

\* The same for below.
LEMMA SumBelow ==
  ASSUME NEW P, P \subseteq Nat, NEW c \in Nat, NEW s \in Nat,
         (c = 0 /\ s = 0) \/ \E a \in P : s <= c * a,
         NEW x \in Nat, \E a \in P : x <= a
  PROVE  \E a \in P : s + x <= (c + 1) * a
<1>1. PICK b \in P : x <= b
  OBVIOUS
<1>2. CASE c = 0 /\ s = 0
  BY <1>1, <1>2
<1>3. CASE \E a \in P : s <= c * a
  <2>1. PICK a \in P : s <= c * a
    BY <1>3
  <2>2. a \in Nat /\ b \in Nat
    OBVIOUS
  <2>3. CASE x <= a
    BY <2>1, <2>2, <2>3, ProductStep
  <2>4. CASE ~(x <= a)
    <3>1. a <= b
      BY <1>1, <2>2, <2>4
    <3>2. c * a <= c * b
      BY <2>2, <3>1, ProductMonotone
    <3>3. (c + 1) * b = c * b + b /\ c * b \in Nat /\ c * a \in Nat
      BY <2>2, ProductStep
    <3>4. s + x <= (c + 1) * b
      BY <1>1, <2>1, <2>2, <3>2, <3>3
    <3> QED
      BY <3>4
  <2> QED
    BY <2>3, <2>4
<1> QED
  BY <1>2, <1>3

\* Adding a value between two coordinates to a sum of coordinates.
LEMMA SumStep ==
  ASSUME NEW k \in {1, 2}, NEW c \in Nat, NEW s \in Nat, SumOf(c, s, k),
         NEW x \in Nat, \E q \in Positions : q[k] <= x,
         \E q \in Positions : x <= q[k]
  PROVE  SumOf(c + 1, s + x, k)
<1> DEFINE P == {q[k] : q \in Positions}
<1>1. P \subseteq Nat
  BY Coordinate
<1>2. (\E a \in P : a <= x) /\ (\E a \in P : x <= a)
  OBVIOUS
<1>3. /\ c = 0 \/ \E a \in P : c * a <= s
      /\ (c = 0 /\ s = 0) \/ \E a \in P : s <= c * a
  BY DEF SumOf
<1> HIDE DEF P
<1>4. \E a \in P : (c + 1) * a <= s + x
  BY <1>1, <1>2, <1>3, SumAbove
<1>5. \E a \in P : s + x <= (c + 1) * a
  BY <1>1, <1>2, <1>3, SumBelow
<1> QED
  BY <1>4, <1>5 DEF SumOf, P

\* A quotient against the factor it came from.
LEMMA Quotient ==
  ASSUME NEW c \in Nat \ {0}, NEW s \in Nat
  PROVE  /\ s \div c \in Nat
         /\ \A a \in Nat : c * a <= s => a <= s \div c
         /\ \A a \in Nat : s <= c * a => s \div c <= a
<1> DEFINE d == s \div c
           r == s % c
<1>1. d \in Nat /\ r \in 0 .. c - 1 /\ s = c * d + r
  OBVIOUS
<1> HIDE DEF d, r
<1>2. ASSUME NEW a \in Nat, c * a <= s PROVE a <= d
  <2>1. SUFFICES ASSUME d + 1 <= a PROVE FALSE
    BY <1>1
  <2>2. c * (d + 1) <= c * a
    BY <1>1, <2>1, ProductMonotone
  <2>3. c * (d + 1) = c * d + c /\ c * d \in Nat /\ c * a \in Nat
    BY <1>1
  <2> QED
    BY <1>1, <1>2, <2>2, <2>3
<1>3. ASSUME NEW a \in Nat, s <= c * a PROVE d <= a
  <2>1. SUFFICES ASSUME a + 1 <= d PROVE FALSE
    BY <1>1
  <2>2. c * (a + 1) <= c * d
    BY <1>1, <2>1, ProductMonotone
  <2>3. c * (a + 1) = c * a + c /\ c * d \in Nat /\ c * a \in Nat
    BY <1>1
  <2> QED
    BY <1>1, <1>3, <2>2, <2>3
<1> QED
  BY <1>1, <1>2, <1>3 DEF d

\* The average of coordinates lies between two of them.
LEMMA Average ==
  ASSUME NEW k \in {1, 2}, NEW c \in Nat \ {0}, NEW s \in Nat, SumOf(c, s, k)
  PROVE  /\ s \div c \in Nat
         /\ \E q \in Positions : q[k] <= s \div c
         /\ \E q \in Positions : s \div c <= q[k]
<1> DEFINE d == s \div c
<1>1. /\ d \in Nat
      /\ \A a \in Nat : c * a <= s => a <= d
      /\ \A a \in Nat : s <= c * a => d <= a
  BY Quotient
<1>2. /\ \E q \in Positions : c * q[k] <= s
      /\ \E q \in Positions : s <= c * q[k]
  BY DEF SumOf
<1> HIDE DEF d
<1>3. \E q \in Positions : q[k] <= d
  BY <1>1, <1>2, Coordinate
<1>4. \E q \in Positions : d <= q[k]
  BY <1>1, <1>2, Coordinate
<1> QED
  BY <1>1, <1>3, <1>4 DEF d

\* A report whose coordinates lie between coordinates of the panel.
LEMMA WithinPair ==
  ASSUME NEW x, NEW y
  PROVE  Within(<<x, y>>) <=>
           /\ \E q \in Positions : q[1] <= x
           /\ \E q \in Positions : x <= q[1]
           /\ \E q \in Positions : q[2] <= y
           /\ \E q \in Positions : y <= q[2]
<1> DEFINE p == <<x, y>>
<1>1. p[1] = x /\ p[2] = y
  OBVIOUS
<1> HIDE DEF p
<1>2. Within(p) <=>
        /\ \E q \in Positions : q[1] <= p[1]
        /\ \E q \in Positions : p[1] <= q[1]
        /\ \E q \in Positions : q[2] <= p[2]
        /\ \E q \in Positions : p[2] <= q[2]
  BY DEF Within
<1> QED
  BY <1>1, <1>2 DEF p

(***************************************************************************)
(* What the handlers do to the driver's state.                             *)
(***************************************************************************)
\* The state inside a handler, where the sample count may have reached N, and
\* between two.
Wide == [ADCTSC : {"down", "up", "auto"}, converting : BOOLEAN,
         g_ts_timer_enable : BOOLEAN,
         adc_cnt : Nat, adc_x : Nat, adc_y : Nat,
         g_ts : Reports, g_ts_data_valid : BOOLEAN]
Ts == [ADCTSC : {"down", "up", "auto"}, converting : BOOLEAN,
       g_ts_timer_enable : BOOLEAN,
       adc_cnt : 0 .. N - 1, adc_x : Nat, adc_y : Nat,
       g_ts : Reports, g_ts_data_valid : BOOLEAN]

\* The two differ in the count only.
LEMMA WideTs ==
  /\ \A t \in Ts : t \in Wide
  /\ \A t \in Wide : t.adc_cnt \in 0 .. N - 1 => t \in Ts
BY DEF Wide, Ts

\* A pen-up report is a report.
LEMMA NoReportType == NoReport \in Reports /\ NoReport.pressure = 0
BY DEF NoReport, Report, Reports

\* report_ts_xy changes the mailbox only, and only if it is empty.
LEMMA ReportStored ==
  ASSUME NEW t \in Wide, NEW r \in Reports
  PROVE  LET u == report_ts_xy(t, r)
         IN  /\ u \in Wide
             /\ t.g_ts_data_valid => u = t
             /\ ~t.g_ts_data_valid => u.g_ts = r
             /\ u.g_ts_data_valid
             /\ u.ADCTSC = t.ADCTSC /\ u.converting = t.converting
             /\ u.adc_cnt = t.adc_cnt /\ u.adc_x = t.adc_x /\ u.adc_y = t.adc_y
<1>1. CASE t.g_ts_data_valid
  BY <1>1 DEF report_ts_xy, Wide
<1>2. CASE ~t.g_ts_data_valid
  BY <1>2 DEF report_ts_xy, Wide
<1> QED
  BY <1>1, <1>2

\* A conversion is started.
LEMMA MeasureFacts ==
  ASSUME NEW t \in Wide
  PROVE  LET u == Measure(t)
         IN  /\ u \in Wide
             /\ u.ADCTSC = "auto" /\ u.converting
             /\ u.adc_cnt = t.adc_cnt /\ u.adc_x = t.adc_x /\ u.adc_y = t.adc_y
             /\ u.g_ts = t.g_ts
             /\ u.g_ts_data_valid = t.g_ts_data_valid
BY DEF Measure, Wide

\* Waiting for the pen to come down.
LEMMA DownModeFacts ==
  ASSUME NEW t \in Wide
  PROVE  LET u == enter_wait_pen_down_mode(t)
         IN  /\ u \in Wide
             /\ u.ADCTSC = "down" /\ u.converting = t.converting
             /\ u.adc_cnt = t.adc_cnt /\ u.adc_x = t.adc_x /\ u.adc_y = t.adc_y
             /\ u.g_ts = t.g_ts
             /\ u.g_ts_data_valid = t.g_ts_data_valid
BY DEF enter_wait_pen_down_mode, Wide

\* Waiting for the pen to go up.
LEMMA UpModeFacts ==
  ASSUME NEW t \in Wide
  PROVE  LET u == enter_wait_pen_up_mode(t)
         IN  /\ u \in Wide
             /\ u.ADCTSC = "up" /\ u.converting = t.converting
             /\ u.adc_cnt = t.adc_cnt /\ u.adc_x = t.adc_x /\ u.adc_y = t.adc_y
             /\ u.g_ts = t.g_ts
             /\ u.g_ts_data_valid = t.g_ts_data_valid
BY DEF enter_wait_pen_up_mode, Wide

\* Switching the timer touches nothing else.
LEMMA TimerFacts ==
  ASSUME NEW t \in Wide, NEW on \in BOOLEAN
  PROVE  LET u == ts_timer(t, on)
         IN  /\ u \in Wide
             /\ u.ADCTSC = t.ADCTSC /\ u.converting = t.converting
             /\ u.adc_cnt = t.adc_cnt /\ u.adc_x = t.adc_x /\ u.adc_y = t.adc_y
             /\ u.g_ts = t.g_ts
             /\ u.g_ts_data_valid = t.g_ts_data_valid
BY DEF ts_timer, Wide

\* Forgetting the samples.
LEMMA ResetFacts ==
  ASSUME NEW t \in Wide
  PROVE  LET u == ResetSamples(t)
         IN  /\ u \in Wide
             /\ u.ADCTSC = t.ADCTSC /\ u.converting = t.converting
             /\ u.adc_cnt = 0 /\ u.adc_x = 0 /\ u.adc_y = 0
             /\ u.g_ts = t.g_ts
             /\ u.g_ts_data_valid = t.g_ts_data_valid
BY DEF ResetSamples, Wide

\* A pen-up report, stored or not, and the mode that waits for the pen.
PenUp(t, u) ==
  /\ u.ADCTSC = "down" /\ u.g_ts_data_valid
  /\ t.g_ts_data_valid => u.g_ts = t.g_ts
  /\ ~t.g_ts_data_valid => u.g_ts = NoReport

\* Isr_Tc handles a pen-up or starts a conversion; it leaves the samples alone.
LEMMA TcFacts ==
  ASSUME NEW t \in Wide, NEW up \in BOOLEAN
  PROVE  LET u == Isr_Tc(t, up)
         IN  /\ u \in Wide
             /\ u.adc_cnt = t.adc_cnt /\ u.adc_x = t.adc_x /\ u.adc_y = t.adc_y
             /\ up => PenUp(t, u)
             /\ ~up => /\ u.ADCTSC = "auto" /\ u.converting
                       /\ u.g_ts = t.g_ts
                       /\ u.g_ts_data_valid = t.g_ts_data_valid
<1>1. CASE up
  <2> DEFINE v == enter_wait_pen_down_mode(t)
  <2>1. Isr_Tc(t, up) = report_ts_xy(v, NoReport)
    BY <1>1 DEF Isr_Tc
  <2>2. /\ v \in Wide /\ v.ADCTSC = "down"
        /\ v.adc_cnt = t.adc_cnt /\ v.adc_x = t.adc_x /\ v.adc_y = t.adc_y
        /\ v.g_ts = t.g_ts /\ v.g_ts_data_valid = t.g_ts_data_valid
    BY DownModeFacts
  <2> HIDE DEF v
  <2> DEFINE u == report_ts_xy(v, NoReport)
  <2>3. /\ u \in Wide
        /\ v.g_ts_data_valid => u = v
        /\ ~v.g_ts_data_valid => u.g_ts = NoReport
        /\ u.g_ts_data_valid
        /\ u.ADCTSC = v.ADCTSC
        /\ u.adc_cnt = v.adc_cnt /\ u.adc_x = v.adc_x /\ u.adc_y = v.adc_y
    BY <2>2, NoReportType, ReportStored
  <2> HIDE DEF u
  <2>4. PenUp(t, u)
    BY <2>2, <2>3 DEF PenUp
  <2>5. Isr_Tc(t, up) = u
    BY <2>1 DEF u
  <2> QED
    BY <1>1, <2>2, <2>3, <2>4, <2>5
<1>2. CASE ~up
  BY <1>2, MeasureFacts DEF Isr_Tc
<1> QED
  BY <1>1, <1>2

\* Isr_Adc with the pen up.
LEMMA DropFacts ==
  ASSUME NEW t \in Wide
  PROVE  LET u == SamplesDropped(enter_wait_pen_up_mode(t))
         IN  /\ u \in Wide
             /\ u.adc_cnt = 0 /\ u.adc_x = 0 /\ u.adc_y = 0
             /\ PenUp(t, u)
<1> DEFINE a == enter_wait_pen_up_mode(t)
           b == ResetSamples(a)
           c == ts_timer(b, FALSE)
           d == enter_wait_pen_down_mode(c)
<1>1. SamplesDropped(a) = report_ts_xy(d, NoReport)
  BY DEF SamplesDropped
<1>2. a \in Wide /\ a.g_ts = t.g_ts /\ a.g_ts_data_valid = t.g_ts_data_valid
  BY UpModeFacts
<1> HIDE DEF a
<1>3. /\ b \in Wide /\ b.g_ts = t.g_ts /\ b.g_ts_data_valid = t.g_ts_data_valid
      /\ b.adc_cnt = 0 /\ b.adc_x = 0 /\ b.adc_y = 0
  BY <1>2, ResetFacts
<1> HIDE DEF b
<1>4. /\ c \in Wide /\ c.g_ts = t.g_ts /\ c.g_ts_data_valid = t.g_ts_data_valid
      /\ c.adc_cnt = 0 /\ c.adc_x = 0 /\ c.adc_y = 0
  BY <1>3, TimerFacts
<1> HIDE DEF c
<1>5. /\ d \in Wide /\ d.g_ts = t.g_ts /\ d.g_ts_data_valid = t.g_ts_data_valid
      /\ d.adc_cnt = 0 /\ d.adc_x = 0 /\ d.adc_y = 0 /\ d.ADCTSC = "down"
  BY <1>4, DownModeFacts
<1> HIDE DEF d
<1> QED
  BY <1>1, <1>5, NoReportType, ReportStored DEF PenUp, a

\* Isr_Adc with the pen down: the sample is added and measuring goes on, or the
\* report is complete, is stored if the mailbox is empty, and sampling starts
\* again.
LEMMA AddFacts ==
  ASSUME NEW t \in Wide, NEW pos \in Nat \X Nat
  PROVE  LET u == SampleAdded(enter_wait_pen_up_mode(t), pos)
             x == t.adc_x + pos[1]
             y == t.adc_y + pos[2]
         IN  /\ u \in Wide
             /\ t.adc_cnt + 1 # N =>
                  /\ u.adc_cnt = t.adc_cnt + 1 /\ u.adc_x = x /\ u.adc_y = y
                  /\ u.ADCTSC = "auto" /\ u.converting
                  /\ u.g_ts_data_valid = t.g_ts_data_valid /\ u.g_ts = t.g_ts
             /\ t.adc_cnt + 1 = N =>
                  /\ u.adc_cnt = 0 /\ u.adc_x = 0 /\ u.adc_y = 0
                  /\ u.ADCTSC = "up" /\ u.g_ts_data_valid
                  /\ t.g_ts_data_valid => u.g_ts = t.g_ts
                  /\ ~t.g_ts_data_valid =>
                       u.g_ts = Report(x \div N, y \div N, 1)
<1> DEFINE a == enter_wait_pen_up_mode(t)
           x == t.adc_x + pos[1]
           y == t.adc_y + pos[2]
           b == [a EXCEPT !.adc_cnt = a.adc_cnt + 1, !.adc_x = a.adc_x + pos[1],
                          !.adc_y = a.adc_y + pos[2]]
           r == Report(b.adc_x \div N, b.adc_y \div N, 1)
           c == report_ts_xy(b, r)
           d == ResetSamples(c)
<1>1. SampleAdded(a, pos) =
        IF b.adc_cnt = N THEN ts_timer(d, TRUE) ELSE Measure(b)
  BY DEF SampleAdded
<1>2. /\ a \in Wide /\ a.g_ts = t.g_ts /\ a.g_ts_data_valid = t.g_ts_data_valid
      /\ a.adc_cnt = t.adc_cnt /\ a.adc_x = t.adc_x /\ a.adc_y = t.adc_y
      /\ a.ADCTSC = "up"
  BY UpModeFacts
<1>3. x \in Nat /\ y \in Nat /\ t.adc_cnt + 1 \in Nat
  BY DEF Wide
<1> HIDE DEF a
<1>4. /\ b \in Wide /\ b.g_ts = t.g_ts /\ b.g_ts_data_valid = t.g_ts_data_valid
      /\ b.adc_cnt = t.adc_cnt + 1 /\ b.adc_x = x /\ b.adc_y = y
      /\ b.ADCTSC = "up"
  <2>1. b = [a EXCEPT !.adc_cnt = t.adc_cnt + 1, !.adc_x = x, !.adc_y = y]
    BY <1>2
  <2> HIDE DEF b, x, y
  <2> QED
    BY <1>2, <1>3, <2>1 DEF Wide
<1> HIDE DEF b, x, y
<1>5. r \in Reports
  <2>1. N \in Nat \ {0}
    OBVIOUS
  <2>2. x \div N \in Nat /\ y \div N \in Nat
    BY <1>3, <2>1, Quotient
  <2> QED
    BY <1>4, <2>2 DEF Report, Reports
<1> HIDE DEF r
<1>6. CASE t.adc_cnt + 1 # N
  <2>1. SampleAdded(a, pos) = Measure(b)
    BY <1>1, <1>4, <1>6
  <2> QED
    BY <1>4, <1>6, <2>1, MeasureFacts DEF a, x, y
<1>7. CASE t.adc_cnt + 1 = N
  <2>1. SampleAdded(a, pos) = ts_timer(d, TRUE)
    BY <1>1, <1>4, <1>7
  <2>2. /\ c \in Wide /\ c.g_ts_data_valid /\ c.ADCTSC = "up"
        /\ t.g_ts_data_valid => c.g_ts = t.g_ts
        /\ ~t.g_ts_data_valid => c.g_ts = r
    BY <1>4, <1>5, ReportStored
  <2> HIDE DEF c
  <2>3. /\ d \in Wide /\ d.g_ts_data_valid = c.g_ts_data_valid
        /\ d.ADCTSC = "up" /\ d.g_ts = c.g_ts
        /\ d.adc_cnt = 0 /\ d.adc_x = 0 /\ d.adc_y = 0
    BY <2>2, ResetFacts
  <2> HIDE DEF d
  <2>4. r = Report(x \div N, y \div N, 1)
    BY <1>4 DEF r
  <2> QED
    BY <1>7, <2>1, <2>2, <2>3, <2>4, TimerFacts DEF a, x, y
<1> QED
  BY <1>6, <1>7

\* No samples.
LEMMA NoSamplesType ==
  NoSamples \in Samples /\ NoSamples.n = 0 /\ NoSamples.x = 0 /\ NoSamples.y = 0
BY DEF NoSamples, Samples

\* One sample more, after N of them the first.
LEMMA TakenType ==
  ASSUME NEW s \in Samples, NEW pos \in Positions
  PROVE  LET k == Taken(s, pos)
         IN  /\ k \in Samples
             /\ s.n # N => k.n = s.n + 1 /\ k.x = s.x + pos[1] /\ k.y = s.y + pos[2]
             /\ s.n = N => k.n = 1 /\ k.x = pos[1] /\ k.y = pos[2]
<1>1. pos[1] \in Nat /\ pos[2] \in Nat
  BY PositionsAssumption
<1>2. s.n \in 0 .. N /\ s.x \in Nat /\ s.y \in Nat
  BY DEF Samples
<1>3. CASE s.n = N
  BY <1>1, <1>3 DEF Taken, NoSamples, Samples
<1>4. CASE s.n # N
  <2>1. s.n + 1 \in 0 .. N /\ s.x + pos[1] \in Nat /\ s.y + pos[2] \in Nat
    BY <1>1, <1>2, <1>4
  <2>2. Taken(s, pos) = [n |-> s.n + 1, x |-> s.x + pos[1], y |-> s.y + pos[2]]
    BY <1>4 DEF Taken
  <2> QED
    BY <1>4, <2>1, <2>2 DEF Samples
<1> QED
  BY <1>3, <1>4

(***************************************************************************)
(* Steps.                                                                  *)
(***************************************************************************)
\* What the panel, the controller and the handlers have to show: main's
\* variables are not theirs, and what main reads is not overwritten.
LEMMA DriverStep ==
  ASSUME IInv, UNCHANGED mainVars,
         pen' \in BOOLEAN, moves' \in 0 .. MaxMoves, lifted' \in BOOLEAN,
         taken' \in Samples, SUBSRCPND' \subseteq {TC, ADC}, ts' \in Ts,
         ConversionUnderWay', LiftInv',
         ts.g_ts_data_valid => ts'.g_ts_data_valid /\ ts'.g_ts = ts.g_ts,
         SumOf(ts'.adc_cnt, ts'.adc_x, 1), SumOf(ts'.adc_cnt, ts'.adc_y, 2),
         ts'.g_ts.pressure = 1 => Within(<<ts'.g_ts.x, ts'.g_ts.y>>)
  PROVE  IInv'
<1> USE DEF mainVars
<1>1. TypeOK'
  BY DEF IInv, ModeInv, TypeOK, Ts
<1>2. ReadInv'
  BY DEF IInv, ReadInv
<1>3. SampleInv'
  BY DEF IInv, SampleInv
<1>4. PointInRange'
  BY DEF IInv, PointInRange
<1> QED
  BY <1>1, <1>2, <1>3, <1>4 DEF IInv, ModeInv

\* What the steps start from.
LEMMA TsFacts ==
  ASSUME IInv
  PROVE  /\ ts \in Ts /\ ts \in Wide
         /\ ts.adc_cnt \in 0 .. N - 1 /\ ts.adc_x \in Nat /\ ts.adc_y \in Nat
         /\ SumOf(ts.adc_cnt, ts.adc_x, 1) /\ SumOf(ts.adc_cnt, ts.adc_y, 2)
         /\ ts.g_ts.pressure = 1 => Within(<<ts.g_ts.x, ts.g_ts.y>>)
         /\ SUBSRCPND \subseteq {TC, ADC} /\ TC # ADC
         /\ pen \in BOOLEAN /\ lifted \in BOOLEAN
         /\ moves \in 0 .. MaxMoves /\ taken \in Samples
<1>1. ts \in Ts
  BY DEF IInv, ModeInv, TypeOK, Ts
<1>2. ts \in Wide
  BY <1>1, WideTs
<1>3. /\ SUBSRCPND \subseteq {TC, ADC}
      /\ pen \in BOOLEAN /\ lifted \in BOOLEAN
      /\ moves \in 0 .. MaxMoves /\ taken \in Samples
  BY DEF IInv, ModeInv, TypeOK
<1>4. TC # ADC
  BY DEF TC, ADC
<1>5. /\ SumOf(ts.adc_cnt, ts.adc_x, 1) /\ SumOf(ts.adc_cnt, ts.adc_y, 2)
      /\ ts.g_ts.pressure = 1 => Within(<<ts.g_ts.x, ts.g_ts.y>>)
  BY DEF IInv, SampleInv
<1>6. ts.adc_cnt \in 0 .. N - 1 /\ ts.adc_x \in Nat /\ ts.adc_y \in Nat
  BY <1>1 DEF Ts
<1> QED
  BY <1>1, <1>2, <1>3, <1>4, <1>5, <1>6

\* A pen that goes up was lifted.
LEMMA PenMovesStep == IInv /\ PenMoves => IInv'
<1> SUFFICES ASSUME IInv, PenMoves PROVE IInv'
  OBVIOUS
<1>1. /\ moves < MaxMoves /\ pen' = ~pen /\ moves' = moves + 1
      /\ lifted' = (lifted \/ pen)
      /\ UNCHANGED <<SUBSRCPND, ts, mainVars, taken>>
  BY DEF PenMoves
<1>2. pen' \in BOOLEAN /\ lifted' \in BOOLEAN
  BY <1>1, TsFacts
<1>3. moves' \in 0 .. MaxMoves
  BY <1>1, TsFacts
<1>4. LiftInv'
  BY <1>1, TsFacts DEF IInv, LiftInv
<1>5. ConversionUnderWay'
  BY <1>1 DEF IInv, ModeInv, ConversionUnderWay
<1> QED
  BY <1>1, <1>2, <1>3, <1>4, <1>5, TsFacts, DriverStep

\* The pen interrupt comes in mode "up" with the pen up, or in mode "down".
LEMMA PenInterruptStep == IInv /\ PenInterrupt => IInv'
<1> SUFFICES ASSUME IInv, PenInterrupt PROVE IInv'
  OBVIOUS
<1>1. /\ ts.ADCTSC = (IF pen THEN "down" ELSE "up")
      /\ SUBSRCPND' = SUBSRCPND \cup {TC}
      /\ UNCHANGED <<pen, moves, ts, mainVars, lifted, taken>>
  BY DEF PenInterrupt, penVars, histVars
<1>2. lifted
  BY <1>1, TsFacts DEF IInv, LiftInv
<1>3. LiftInv'
  BY <1>1, <1>2 DEF LiftInv
<1>4. ConversionUnderWay'
  BY <1>1 DEF IInv, ModeInv, ConversionUnderWay
<1>5. SUBSRCPND' \subseteq {TC, ADC}
  BY <1>1, TsFacts
<1> QED
  BY <1>1, <1>3, <1>4, <1>5, TsFacts, DriverStep

\* The end of a conversion leaves its interrupt.
LEMMA ConversionDoneStep == IInv /\ ConversionDone => IInv'
<1> SUFFICES ASSUME IInv, ConversionDone PROVE IInv'
  OBVIOUS
<1>1. /\ ts' = [ts EXCEPT !.converting = FALSE]
      /\ SUBSRCPND' = SUBSRCPND \cup {ADC}
      /\ UNCHANGED <<pen, moves, mainVars, lifted, taken>>
  BY DEF ConversionDone, penVars, histVars
<1>2. /\ ts' \in Ts /\ ts'.ADCTSC = ts.ADCTSC
      /\ ts'.g_ts = ts.g_ts /\ ts'.g_ts_data_valid = ts.g_ts_data_valid
      /\ ts'.adc_cnt = ts.adc_cnt /\ ts'.adc_x = ts.adc_x
      /\ ts'.adc_y = ts.adc_y
  BY <1>1, TsFacts DEF Ts
<1>3. LiftInv'
  BY <1>1, <1>2, TsFacts DEF IInv, LiftInv
<1>4. ConversionUnderWay'
  BY <1>1 DEF ConversionUnderWay
<1>5. SUBSRCPND' \subseteq {TC, ADC}
  BY <1>1, TsFacts
<1> QED
  BY <1>1, <1>2, <1>3, <1>4, <1>5, TsFacts, DriverStep

\* The timer sees a valid bit 15.
LEMMA TimerStep == IInv /\ touchscreen_timer_irq => IInv'
<1> SUFFICES ASSUME IInv, touchscreen_timer_irq PROVE IInv'
  OBVIOUS
<1>1. /\ ts.ADCTSC # "auto"
      /\ UNCHANGED <<pen, moves, SUBSRCPND, mainVars, lifted>>
  BY DEF touchscreen_timer_irq, penVars, is_in_auto_mode
<1> DEFINE a == ts_timer(ts, FALSE)
           b == enter_wait_pen_down_mode(a)
<1>2. \E up \in {~pen} : ts' = IF up THEN report_ts_xy(b, NoReport) ELSE Measure(ts)
  BY <1>1 DEF touchscreen_timer_irq, Bit15
<1>T. taken' \in Samples
  BY TsFacts, NoSamplesType DEF touchscreen_timer_irq
<1>3. CASE pen
  <2>1. ts' = Measure(ts)
    BY <1>2, <1>3
  <2>2. /\ ts' \in Wide /\ ts'.ADCTSC = "auto" /\ ts'.converting
        /\ ts'.adc_cnt = ts.adc_cnt /\ ts'.adc_x = ts.adc_x
        /\ ts'.adc_y = ts.adc_y
        /\ ts'.g_ts = ts.g_ts /\ ts'.g_ts_data_valid = ts.g_ts_data_valid
    BY <2>1, TsFacts, MeasureFacts
  <2>3. ts' \in Ts
    BY <2>2, TsFacts, WideTs
  <2>4. LiftInv'
    BY <1>1, <2>2 DEF IInv, LiftInv
  <2>5. ConversionUnderWay'
    BY <2>2 DEF ConversionUnderWay
  <2> QED
    BY <1>1, <1>T, <2>2, <2>3, <2>4, <2>5, TsFacts, DriverStep
<1>4. CASE ~pen
  <2>1. ts' = report_ts_xy(b, NoReport)
    BY <1>2, <1>4
  <2>2. /\ a \in Wide
        /\ a.adc_cnt = ts.adc_cnt /\ a.adc_x = ts.adc_x /\ a.adc_y = ts.adc_y
        /\ a.g_ts = ts.g_ts /\ a.g_ts_data_valid = ts.g_ts_data_valid
    BY TsFacts, TimerFacts
  <2> HIDE DEF a
  <2>3. /\ b \in Wide /\ b.ADCTSC = "down"
        /\ b.adc_cnt = ts.adc_cnt /\ b.adc_x = ts.adc_x /\ b.adc_y = ts.adc_y
        /\ b.g_ts = ts.g_ts /\ b.g_ts_data_valid = ts.g_ts_data_valid
    BY <2>2, DownModeFacts
  <2> HIDE DEF b
  <2>4. /\ ts' \in Wide /\ ts'.ADCTSC = "down"
        /\ b.g_ts_data_valid => ts' = b
        /\ ~b.g_ts_data_valid => ts'.g_ts = NoReport
        /\ ts'.g_ts_data_valid
        /\ ts'.adc_cnt = b.adc_cnt /\ ts'.adc_x = b.adc_x /\ ts'.adc_y = b.adc_y
    BY <2>1, <2>3, NoReportType, ReportStored
  <2>5. ts' \in Ts
    BY <2>3, <2>4, TsFacts, WideTs
  <2>6. lifted
    BY <1>4 DEF IInv, LiftInv
  <2>7. LiftInv' /\ ConversionUnderWay'
    BY <1>1, <2>4, <2>6 DEF LiftInv, ConversionUnderWay
  <2>8. /\ ts.g_ts_data_valid => ts'.g_ts = ts.g_ts
        /\ ts'.g_ts.pressure = 1 => Within(<<ts'.g_ts.x, ts'.g_ts.y>>)
    BY <2>3, <2>4, TsFacts, NoReportType
  <2>9. SumOf(ts'.adc_cnt, ts'.adc_x, 1) /\ SumOf(ts'.adc_cnt, ts'.adc_y, 2)
    BY <2>3, <2>4, TsFacts
  <2> QED
    BY <1>1, <1>T, <2>4, <2>5, <2>7, <2>8, <2>9, TsFacts, DriverStep
<1> QED
  BY <1>3, <1>4

\* The average of N samples is a touch on the panel.
LEMMA ReportWithin ==
  ASSUME NEW x \in Nat, NEW y \in Nat, SumOf(N, x, 1), SumOf(N, y, 2)
  PROVE  LET r == Report(x \div N, y \div N, 1)
         IN  r.pressure = 1 /\ Within(<<r.x, r.y>>)
<1> DEFINE a == x \div N
           b == y \div N
           r == Report(a, b, 1)
<1>0. N \in Nat \ {0} /\ 1 \in {1, 2} /\ 2 \in {1, 2}
  OBVIOUS
<1>1. (\E q \in Positions : q[1] <= a) /\ (\E q \in Positions : a <= q[1])
  BY <1>0, Average
<1>2. (\E q \in Positions : q[2] <= b) /\ (\E q \in Positions : b <= q[2])
  BY <1>0, Average
<1> HIDE DEF a, b
<1>3. Within(<<a, b>>)
  BY <1>1, <1>2, WithinPair
<1>4. r.x = a /\ r.y = b /\ r.pressure = 1
  BY DEF Report
<1> QED
  BY <1>3, <1>4 DEF a, b

\* A sample of the panel added to the sums.
LEMMA SampleStep ==
  ASSUME NEW c \in Nat, NEW x \in Nat, NEW y \in Nat, NEW pos \in Positions,
         SumOf(c, x, 1), SumOf(c, y, 2)
  PROVE  /\ pos[1] \in Nat /\ pos[2] \in Nat /\ pos \in Nat \X Nat
         /\ SumOf(c + 1, x + pos[1], 1) /\ SumOf(c + 1, y + pos[2], 2)
<1> DEFINE p == pos[1]
           q == pos[2]
<1>1. p \in Nat /\ q \in Nat /\ pos \in Nat \X Nat
  BY PositionsAssumption
<1>2. /\ (\E z \in Positions : z[1] <= p) /\ (\E z \in Positions : p <= z[1])
      /\ (\E z \in Positions : z[2] <= q) /\ (\E z \in Positions : q <= z[2])
  BY <1>1
<1> HIDE DEF p, q
<1>3. SumOf(c + 1, x + p, 1)
  <2>1. 1 \in {1, 2}
    OBVIOUS
  <2> QED
    BY <1>1, <1>2, <2>1, SumStep
<1>4. SumOf(c + 1, y + q, 2)
  <2>1. 2 \in {1, 2}
    OBVIOUS
  <2> QED
    BY <1>1, <1>2, <2>1, SumStep
<1> QED
  BY <1>1, <1>3, <1>4 DEF p, q

\* The samples taken so far have their type.
LEMMA HandlerTaken ==
  ASSUME IInv, AdcTsIntHandle
  PROVE  taken' \in Samples
<1>1. PICK up \in Bit15(ts), pos \in Positions :
        LET s == IF TC \in SUBSRCPND /\ up THEN NoSamples ELSE taken
        IN  taken' = IF ADC \notin SUBSRCPND THEN s
                     ELSE IF pen THEN Taken(s, pos) ELSE NoSamples
  BY DEF AdcTsIntHandle
<1> DEFINE s == IF TC \in SUBSRCPND /\ up THEN NoSamples ELSE taken
<1>2. s \in Samples
  BY TsFacts, NoSamplesType
<1>3. taken' = IF ADC \notin SUBSRCPND THEN s
               ELSE IF pen THEN Taken(s, pos) ELSE NoSamples
  BY <1>1
<1> HIDE DEF s
<1> QED
  BY <1>2, <1>3, NoSamplesType, TakenType

\* The handler of both interrupts.  Bit 15 is believed by Isr_Tc even when the
\* timer has started a measurement since the pen interrupt: the pen was lifted
\* all the same.
LEMMA HandlerStep == IInv /\ AdcTsIntHandle => IInv'
<1> SUFFICES ASSUME IInv, AdcTsIntHandle PROVE IInv'
  OBVIOUS
<1>1. /\ SUBSRCPND # {} /\ SUBSRCPND' = {}
      /\ lifted' = (lifted /\ ~Stored)
      /\ UNCHANGED <<pen, moves, mainVars>>
  BY DEF AdcTsIntHandle, penVars
<1>2. PICK up \in Bit15(ts), pos \in Positions :
        ts' = IF ADC \in SUBSRCPND
              THEN Isr_Adc(IF TC \in SUBSRCPND THEN Isr_Tc(ts, up) ELSE ts, pos)
              ELSE IF TC \in SUBSRCPND THEN Isr_Tc(ts, up) ELSE ts
  BY DEF AdcTsIntHandle
<1>T. taken' \in Samples
  BY HandlerTaken
<1>3. up \in BOOLEAN
  BY TsFacts DEF Bit15
<1> DEFINE t == IF TC \in SUBSRCPND THEN Isr_Tc(ts, up) ELSE ts
<1>4. /\ t \in Wide
      /\ t.adc_cnt = ts.adc_cnt /\ t.adc_x = ts.adc_x /\ t.adc_y = ts.adc_y
      /\ ts.g_ts_data_valid => t.g_ts_data_valid /\ t.g_ts = ts.g_ts
      /\ ~ts.g_ts_data_valid /\ t.g_ts_data_valid =>
           TC \in SUBSRCPND /\ t.g_ts = NoReport
      /\ t.g_ts.pressure = 1 => Within(<<t.g_ts.x, t.g_ts.y>>)
      /\ TC \in SUBSRCPND /\ t.ADCTSC = "auto" => t.converting
  <2>1. CASE TC \in SUBSRCPND
    <3>0. t = Isr_Tc(ts, up)
      BY <2>1
    <3> HIDE DEF t
    <3>1. /\ t \in Wide
          /\ t.adc_cnt = ts.adc_cnt /\ t.adc_x = ts.adc_x /\ t.adc_y = ts.adc_y
          /\ up => PenUp(ts, t)
          /\ ~up => /\ t.ADCTSC = "auto" /\ t.converting
                    /\ t.g_ts = ts.g_ts
                    /\ t.g_ts_data_valid = ts.g_ts_data_valid
      BY <1>3, <3>0, TsFacts, TcFacts
    <3>2. CASE up
      <4>1. PenUp(ts, t)
        BY <3>1, <3>2
      <4> QED
        BY <2>1, <3>1, <4>1, TsFacts, NoReportType DEF PenUp
    <3>3. CASE ~up
      BY <2>1, <3>1, <3>3, TsFacts
    <3> QED
      BY <3>2, <3>3
  <2>2. CASE TC \notin SUBSRCPND
    BY <2>2, TsFacts
  <2> QED
    BY <2>1, <2>2
<1>5. ts' = IF ADC \in SUBSRCPND THEN Isr_Adc(t, pos) ELSE t
  BY <1>2
<1> HIDE DEF t
<1>6. TC \in SUBSRCPND => lifted
  BY DEF IInv, LiftInv
<1>7. lifted' \in BOOLEAN
  BY <1>1, TsFacts
<1>8. CASE ADC \notin SUBSRCPND
  <2>1. ts' = t /\ TC \in SUBSRCPND
    BY <1>1, <1>5, <1>8, TsFacts
  <2>2. ts' \in Ts
    BY <1>4, <2>1, TsFacts, WideTs
  <2>3. ~Stored
    BY <1>4, <2>1, NoReportType DEF Stored
  <2>4. lifted'
    BY <1>1, <1>6, <2>1, <2>3
  <2>5. LiftInv'
    BY <2>4 DEF LiftInv
  <2>6. ConversionUnderWay'
    BY <1>4, <2>1 DEF ConversionUnderWay
  <2>7. SUBSRCPND' \subseteq {TC, ADC}
    BY <1>1
  <2> QED
    BY <1>1, <1>4, <1>7, <1>T, <2>1, <2>2, <2>5, <2>6, <2>7, TsFacts, DriverStep
<1>9. CASE ADC \in SUBSRCPND /\ ~pen
  <2>1. ts' = SamplesDropped(enter_wait_pen_up_mode(t))
    BY <1>5, <1>9 DEF Isr_Adc
  <2>2. /\ ts' \in Wide
        /\ ts'.adc_cnt = 0 /\ ts'.adc_x = 0 /\ ts'.adc_y = 0
        /\ PenUp(t, ts')
    BY <1>4, <2>1, DropFacts
  <2>3. ts' \in Ts
    <3>1. 0 \in 0 .. N - 1
      OBVIOUS
    <3> QED
      BY <2>2, <3>1, WideTs
  <2>4. ~Stored
    BY <1>4, <2>2, NoReportType DEF Stored, PenUp
  <2>5. lifted'
    BY <1>1, <1>9, <2>4 DEF IInv, LiftInv
  <2>6. LiftInv' /\ ConversionUnderWay'
    BY <2>2, <2>5 DEF LiftInv, ConversionUnderWay, PenUp
  <2>7. SUBSRCPND' \subseteq {TC, ADC}
    BY <1>1
  <2>8. /\ ts.g_ts_data_valid => ts'.g_ts_data_valid /\ ts'.g_ts = ts.g_ts
        /\ ts'.g_ts.pressure = 1 => Within(<<ts'.g_ts.x, ts'.g_ts.y>>)
    BY <1>4, <2>2, NoReportType DEF PenUp
  <2>9. SumOf(ts'.adc_cnt, ts'.adc_x, 1) /\ SumOf(ts'.adc_cnt, ts'.adc_y, 2)
    BY <2>2 DEF SumOf
  <2> QED
    BY <1>1, <1>7, <1>T, <2>3, <2>6, <2>7, <2>8, <2>9, TsFacts, DriverStep
<1>10. CASE ADC \in SUBSRCPND /\ pen
  <2> DEFINE x == t.adc_x + pos[1]
             y == t.adc_y + pos[2]
             c == t.adc_cnt + 1
  <2>1. ts' = SampleAdded(enter_wait_pen_up_mode(t), pos)
    BY <1>5, <1>10 DEF Isr_Adc
  <2>2. /\ t.adc_cnt \in Nat /\ t.adc_x \in Nat /\ t.adc_y \in Nat
        /\ SumOf(t.adc_cnt, t.adc_x, 1) /\ SumOf(t.adc_cnt, t.adc_y, 2)
    BY <1>4, TsFacts
  <2>3. /\ pos[1] \in Nat /\ pos[2] \in Nat /\ pos \in Nat \X Nat
        /\ SumOf(c, x, 1) /\ SumOf(c, y, 2)
    BY <2>2, SampleStep
  <2>4. x \in Nat /\ y \in Nat /\ c \in Nat /\ c <= N
    BY <1>4, <2>2, <2>3, TsFacts
  <2>5. /\ ts' \in Wide
        /\ c # N =>
             /\ ts'.adc_cnt = c /\ ts'.adc_x = x /\ ts'.adc_y = y
             /\ ts'.ADCTSC = "auto" /\ ts'.converting
             /\ ts'.g_ts_data_valid = t.g_ts_data_valid /\ ts'.g_ts = t.g_ts
        /\ c = N =>
             /\ ts'.adc_cnt = 0 /\ ts'.adc_x = 0 /\ ts'.adc_y = 0
             /\ ts'.ADCTSC = "up" /\ ts'.g_ts_data_valid
             /\ t.g_ts_data_valid => ts'.g_ts = t.g_ts
             /\ ~t.g_ts_data_valid =>
                  ts'.g_ts = Report(x \div N, y \div N, 1)
    BY <1>4, <2>1, <2>3, AddFacts
  <2> HIDE DEF x, y, c
  <2>6. ts' \in Ts
    <3>1. ts'.adc_cnt \in 0 .. N - 1
      BY <2>4, <2>5
    <3> QED
      BY <2>5, <3>1, WideTs
  <2>7. SumOf(ts'.adc_cnt, ts'.adc_x, 1) /\ SumOf(ts'.adc_cnt, ts'.adc_y, 2)
    <3>1. CASE c = N
      BY <2>5, <3>1 DEF SumOf
    <3>2. CASE c # N
      BY <2>3, <2>5, <3>2
    <3> QED
      BY <3>1, <3>2
  <2>8. ConversionUnderWay'
    BY <2>5 DEF ConversionUnderWay
  <2>9. ts.g_ts_data_valid => ts'.g_ts_data_valid /\ ts'.g_ts = ts.g_ts
    BY <1>4, <2>5
  <2> DEFINE r == Report(x \div N, y \div N, 1)
  <2>10. c = N => r.pressure = 1 /\ Within(<<r.x, r.y>>)
    BY <2>3, <2>4, ReportWithin
  <2> HIDE DEF r
  <2>11. \/ ts'.g_ts = t.g_ts /\ (ts'.g_ts_data_valid => t.g_ts_data_valid)
         \/ c = N /\ ts'.g_ts = r
    BY <2>5 DEF r
  <2>12. ts'.g_ts.pressure = 1 => Within(<<ts'.g_ts.x, ts'.g_ts.y>>)
    BY <1>4, <2>10, <2>11
  <2>13. ASSUME ts'.g_ts_data_valid, ts'.g_ts.pressure = 0 PROVE lifted'
    <3>1. ~Stored
      BY <2>13 DEF Stored
    <3>2. t.g_ts_data_valid /\ ts'.g_ts = t.g_ts
      BY <2>10, <2>11, <2>13
    <3>3. lifted
      BY <1>4, <1>6, <2>13, <3>2 DEF IInv, LiftInv
    <3> QED
      BY <1>1, <3>1, <3>3
  <2>14. LiftInv'
    BY <1>1, <1>10, <2>5, <2>13 DEF LiftInv
  <2>15. SUBSRCPND' \subseteq {TC, ADC}
    BY <1>1
  <2> QED
    BY <1>1, <1>7, <1>T, <2>6, <2>7, <2>8, <2>9, <2>12, <2>14, <2>15, TsFacts,
       DriverStep
<1> QED
  BY <1>8, <1>9, <1>10

\* main copies the mailbox, one field at a time.
LEMMA CopyStep ==
  IInv /\ (WaitValid \/ ReadX \/ ReadY \/ ReadPressure) => IInv'
<1> SUFFICES ASSUME IInv, WaitValid \/ ReadX \/ ReadY \/ ReadPressure PROVE IInv'
  OBVIOUS
<1>1. UNCHANGED <<pen, moves, SUBSRCPND, ts, cal, point, lifted, taken>>
  BY DEF WaitValid, ReadX, ReadY, ReadPressure, penVars, histVars
<1>2. ConversionUnderWay' /\ LiftInv' /\ SampleInv' /\ PointInRange'
  BY <1>1 DEF IInv, ModeInv, ConversionUnderWay, LiftInv, SampleInv, PointInRange
<1>3. /\ raw \in Reports /\ report \in Reports /\ ts.g_ts \in Reports
      /\ pc \in {"wait", "x", "y", "pressure", "clear"}
  BY DEF IInv, ModeInv, TypeOK
<1>4. raw' \in Reports /\ report' \in Reports /\ ReadInv'
      /\ pc' \in {"wait", "x", "y", "pressure", "clear"}
  <2>1. CASE WaitValid
    BY <1>1, <1>3, <2>1 DEF WaitValid, ReadInv, Reports
  <2>2. CASE ReadX
    BY <1>1, <1>3, <2>2 DEF IInv, ReadX, ReadInv, Reports
  <2>3. CASE ReadY
    BY <1>1, <1>3, <2>3 DEF IInv, ReadY, ReadInv, Reports
  <2>4. CASE ReadPressure
    BY <1>1, <1>3, <2>4 DEF IInv, ReadPressure, ReadInv, Reports
  <2> QED
    BY <2>1, <2>2, <2>3, <2>4
<1>5. TypeOK'
  BY <1>1, <1>4 DEF IInv, ModeInv, TypeOK
<1> QED
  BY <1>2, <1>4, <1>5 DEF IInv, ModeInv

\* What main read is the report it found.
LEMMA ReadWhole ==
  ASSUME IInv, pc = "clear"
  PROVE  raw = report /\ report = ts.g_ts
<1>1. raw \in Reports /\ report \in Reports
  BY DEF IInv, ModeInv, TypeOK
<1>2. /\ raw.x = report.x /\ raw.y = report.y /\ raw.pressure = report.pressure
      /\ report = ts.g_ts
  BY DEF IInv, ReadInv
<1> QED
  BY <1>1, <1>2 DEF Reports

\* A touch added to the sums of get_calibrate_point_data, unless there are M, and
\* the average returned when the pen is up.
LEMMA PointLoopFacts ==
  ASSUME IInv, pc = "clear", PointLoop
  PROVE  /\ cal' \in [phase : {"press", "drag"}, cnt : 0 .. M, sum_x : Nat, sum_y : Nat]
         /\ point' \in Nat \X Nat
         /\ SumOf(cal'.cnt, cal'.sum_x, 1) /\ SumOf(cal'.cnt, cal'.sum_y, 2)
         /\ cal'.phase = "drag" => cal'.cnt # 0
         /\ PointInRange'
<1> DEFINE CalType == [phase : {"press", "drag"}, cnt : 0 .. M, sum_x : Nat, sum_y : Nat]
<1>1. /\ cal \in CalType /\ point \in Nat \X Nat
      /\ SumOf(cal.cnt, cal.sum_x, 1) /\ SumOf(cal.cnt, cal.sum_y, 2)
      /\ cal.phase = "drag" => cal.cnt # 0
      /\ raw \in Reports /\ PointInRange
  BY DEF IInv, ModeInv, TypeOK, SampleInv
<1>2. /\ cal.cnt \in 0 .. M /\ cal.sum_x \in Nat /\ cal.sum_y \in Nat
      /\ raw.x \in Nat /\ raw.y \in Nat /\ raw.pressure \in {0, 1}
  BY <1>1 DEF Reports
<1>3. CASE raw.pressure # 0 /\ cal.cnt < M
  <2> DEFINE c == cal.cnt
             x == cal.sum_x
             y == cal.sum_y
             a == raw.x
             b == raw.y
  <2>1. /\ cal' = [phase |-> "drag", cnt |-> c + 1, sum_x |-> x + a, sum_y |-> y + b]
        /\ UNCHANGED point
    BY <1>3 DEF PointLoop
  <2>2. Within(<<a, b>>)
    BY <1>2, <1>3, ReadWhole, TsFacts
  <2>3. /\ c \in 0 .. M - 1 /\ x \in Nat /\ y \in Nat /\ a \in Nat /\ b \in Nat
        /\ SumOf(c, x, 1) /\ SumOf(c, y, 2)
    BY <1>1, <1>2, <1>3
  <2> HIDE DEF c, x, y, a, b
  <2>4. /\ (\E z \in Positions : z[1] <= a) /\ (\E z \in Positions : a <= z[1])
        /\ (\E z \in Positions : z[2] <= b) /\ (\E z \in Positions : b <= z[2])
    BY <2>2, WithinPair
  <2>5. c \in Nat /\ c + 1 \in 0 .. M /\ x + a \in Nat /\ y + b \in Nat /\ c + 1 # 0
    BY <2>3
  <2>6. SumOf(c + 1, x + a, 1)
    <3>1. 1 \in {1, 2}
      OBVIOUS
    <3> QED
      BY <2>3, <2>4, <2>5, <3>1, SumStep
  <2>7. SumOf(c + 1, y + b, 2)
    <3>1. 2 \in {1, 2}
      OBVIOUS
    <3> QED
      BY <2>3, <2>4, <2>5, <3>1, SumStep
  <2>8. PointInRange' /\ point' \in Nat \X Nat
    BY <1>1, <2>1 DEF PointInRange
  <2>9. /\ cal' \in CalType
        /\ cal'.cnt = c + 1 /\ cal'.sum_x = x + a /\ cal'.sum_y = y + b
    BY <2>1, <2>5
  <2> QED
    BY <2>5, <2>6, <2>7, <2>8, <2>9
<1>4. CASE raw.pressure # 0 /\ ~(cal.cnt < M)
  <2>1. /\ cal' = [phase |-> "drag", cnt |-> cal.cnt, sum_x |-> cal.sum_x,
                   sum_y |-> cal.sum_y]
        /\ UNCHANGED point
    BY <1>4 DEF PointLoop
  <2>2. cal.cnt # 0
    BY <1>2, <1>4
  <2>3. PointInRange' /\ point' \in Nat \X Nat
    BY <1>1, <2>1 DEF PointInRange
  <2>4. /\ cal' \in CalType
        /\ cal'.cnt = cal.cnt /\ cal'.sum_x = cal.sum_x /\ cal'.sum_y = cal.sum_y
    BY <1>2, <2>1
  <2> QED
    BY <1>1, <2>2, <2>3, <2>4
<1>5. CASE raw.pressure = 0 /\ cal.phase = "drag"
  <2> DEFINE c == cal.cnt
             x == cal.sum_x
             y == cal.sum_y
             a == x \div c
             b == y \div c
  <2>1. point' = <<a, b>> /\ cal' = NoPoint
    BY <1>5 DEF PointLoop
  <2>2. /\ c \in Nat \ {0} /\ x \in Nat /\ y \in Nat
        /\ SumOf(c, x, 1) /\ SumOf(c, y, 2)
    BY <1>1, <1>2, <1>5
  <2> HIDE DEF c, x, y
  <2>3. /\ a \in Nat
        /\ (\E z \in Positions : z[1] <= a) /\ (\E z \in Positions : a <= z[1])
    <3>1. 1 \in {1, 2}
      OBVIOUS
    <3> QED
      BY <2>2, <3>1, Average
  <2>4. /\ b \in Nat
        /\ (\E z \in Positions : z[2] <= b) /\ (\E z \in Positions : b <= z[2])
    <3>1. 2 \in {1, 2}
      OBVIOUS
    <3> QED
      BY <2>2, <3>1, Average
  <2> HIDE DEF a, b
  <2>5. Within(<<a, b>>)
    BY <2>3, <2>4, WithinPair
  <2>6. point' \in Nat \X Nat /\ PointInRange'
    <3>1. point' \in Nat \X Nat
      BY <2>1, <2>3, <2>4
    <3>2. Within(point')
      BY <2>1, <2>5
    <3> QED
      BY <3>1, <3>2 DEF PointInRange, Within
  <2>7. /\ cal' \in CalType
        /\ cal'.cnt = 0 /\ cal'.sum_x = 0 /\ cal'.sum_y = 0 /\ cal'.phase = "press"
    BY <2>1 DEF NoPoint
  <2> QED
    BY <2>6, <2>7 DEF SumOf
<1>6. CASE raw.pressure = 0 /\ cal.phase # "drag"
  <2>1. UNCHANGED <<cal, point>>
    BY <1>6 DEF PointLoop
  <2> QED
    BY <1>1, <2>1 DEF PointInRange
<1> QED
  BY <1>3, <1>4, <1>5, <1>6

\* main takes the report and empties the mailbox.
LEMMA ReadStep == IInv /\ ts_read_raw => IInv'
<1> SUFFICES ASSUME IInv, ts_read_raw PROVE IInv'
  OBVIOUS
<1>1. /\ pc = "clear" /\ pc' = "wait" /\ PointLoop
      /\ ts' = [ts EXCEPT !.g_ts_data_valid = FALSE]
      /\ raw' = NoReport /\ report' = NoReport
      /\ UNCHANGED <<pen, moves, SUBSRCPND, lifted, taken>>
  BY DEF ts_read_raw, penVars, histVars
<1>2. /\ ts' \in Ts /\ ts'.ADCTSC = ts.ADCTSC /\ ts'.converting = ts.converting
      /\ ts'.g_ts = ts.g_ts /\ ~ts'.g_ts_data_valid
      /\ ts'.adc_cnt = ts.adc_cnt /\ ts'.adc_x = ts.adc_x
      /\ ts'.adc_y = ts.adc_y
  BY <1>1, TsFacts DEF Ts
<1>3. /\ cal' \in [phase : {"press", "drag"}, cnt : 0 .. M, sum_x : Nat, sum_y : Nat]
      /\ point' \in Nat \X Nat
      /\ SumOf(cal'.cnt, cal'.sum_x, 1) /\ SumOf(cal'.cnt, cal'.sum_y, 2)
      /\ cal'.phase = "drag" => cal'.cnt # 0
      /\ PointInRange'
  BY <1>1, PointLoopFacts
<1>4. TypeOK'
  BY <1>1, <1>2, <1>3, NoReportType, TsFacts DEF TypeOK, Ts
<1>5. ReadInv' /\ LiftInv'
  BY <1>1, <1>2 DEF IInv, ReadInv, LiftInv
<1>6. ConversionUnderWay'
  BY <1>1, <1>2 DEF IInv, ModeInv, ConversionUnderWay
<1>7. SampleInv'
  BY <1>2, <1>3, TsFacts DEF SampleInv
<1> QED
  BY <1>3, <1>4, <1>5, <1>6, <1>7 DEF IInv, ModeInv

(***************************************************************************)
(* The theorems.                                                           *)
(***************************************************************************)
\* touchscreen_init waits for the pen.
LEMMA InitInv == Init => IInv
<1> SUFFICES ASSUME Init PROVE IInv
  OBVIOUS
<1>1. /\ pen = FALSE /\ moves = 0 /\ SUBSRCPND = {} /\ pc = "wait"
      /\ raw = NoReport /\ cal = NoPoint /\ point = <<0, 0>>
      /\ report = NoReport /\ lifted = TRUE /\ taken = NoSamples
  BY DEF Init
<1>2. /\ ts \in Ts /\ ts.ADCTSC = "down" /\ ts.g_ts = NoReport
      /\ ~ts.g_ts_data_valid
      /\ ts.adc_cnt = 0 /\ ts.adc_x = 0 /\ ts.adc_y = 0
  BY NoReportType DEF Init, Ts
<1>3. TypeOK
  <2>1. pen \in BOOLEAN /\ lifted \in BOOLEAN
    BY <1>1, Zenon
  <2>2. cal \in [phase : {"press", "drag"}, cnt : 0 .. M, sum_x : Nat, sum_y : Nat]
    BY <1>1 DEF NoPoint
  <2>3. moves \in 0 .. MaxMoves /\ point \in Nat \X Nat
    BY <1>1
  <2> QED
    BY <1>1, <1>2, <2>1, <2>2, <2>3, NoReportType, NoSamplesType DEF TypeOK, Ts
<1>4. ConversionUnderWay /\ ReadInv /\ LiftInv
  BY <1>1, <1>2 DEF ConversionUnderWay, ReadInv, LiftInv
<1>5. SampleInv /\ PointInRange
  <2>1. cal.cnt = 0 /\ cal.sum_x = 0 /\ cal.sum_y = 0 /\ cal.phase # "drag"
    BY <1>1 DEF NoPoint
  <2> QED
    BY <1>1, <1>2, <2>1, NoReportType DEF SampleInv, SumOf, PointInRange
<1> QED
  BY <1>3, <1>4, <1>5 DEF IInv, ModeInv

\* Doing nothing keeps the invariant.
LEMMA StutterStep == IInv /\ UNCHANGED vars => IInv'
<1> SUFFICES ASSUME IInv, UNCHANGED vars PROVE IInv'
  OBVIOUS
<1>1. /\ UNCHANGED <<pen, moves, SUBSRCPND, ts, mainVars, lifted, taken>>
  BY DEF vars, penVars, histVars
<1>2. ConversionUnderWay' /\ LiftInv'
  BY <1>1 DEF IInv, ModeInv, ConversionUnderWay, LiftInv
<1> QED
  BY <1>1, <1>2, TsFacts, DriverStep

\* Every step of the pen, the controller, the handlers and main keeps it.
LEMMA StepInv == IInv /\ [Next]_vars => IInv'
BY PenMovesStep, PenInterruptStep, ConversionDoneStep, HandlerStep, TimerStep,
   CopyStep, ReadStep, StutterStep DEF Next, Main

\* The invariant holds in every reachable state.
THEOREM InductiveInvariant == Spec => []IInv
<1> QED
  BY InitInv, StepInv, PTL DEF Spec

\* Modes, sample index and timer stay consistent, and measuring ends.
THEOREM ModesConsistent == Spec => []ModeInv
<1>1. IInv => ModeInv
  BY DEF IInv
<1> QED
  BY <1>1, InductiveInvariant, PTL

\* x, y and pressure that ts_read_raw returns belong to one report.
THEOREM ReadsNotTorn == Spec => []NoTornRead
<1>1. IInv => NoTornRead
  BY ReadWhole DEF NoTornRead
<1> QED
  BY <1>1, InductiveInvariant, PTL

\* A calibration point lies between coordinates the panel returned.
THEOREM PointOnPanel == Spec => []PointInRange
<1>1. IInv => PointInRange
  BY DEF IInv
<1> QED
  BY <1>1, InductiveInvariant, PTL

\* A pen-up report that ends a drag was preceded by a pen that went up, also when
\* Isr_Tc read an invalid bit 15.
THEOREM ReleasesReal == Spec => []ReleaseIsReal
<1>1. IInv => ReleaseIsReal
  BY DEF IInv, LiftInv, ReleaseIsReal
<1> QED
  BY <1>1, InductiveInvariant, PTL

(***************************************************************************)
(* The safety half of TouchRead: the panel is always watched.              *)
(***************************************************************************)
\* In the mode that waits for the pen to go up the controller does not report a
\* pen that stays down: there the timer has to be on.
TimerInUpMode == ts.ADCTSC = "up" => ts.g_ts_timer_enable

\* In each of the three modes something will look at the panel again: the pen
\* interrupt, the interrupt of a conversion under way, or the timer (lines
\* 65-86, 128-155, 171-230).
PanelWatched ==
  \/ ts.ADCTSC = "down"
  \/ ts.ADCTSC = "auto" /\ (ts.converting \/ ADC \in SUBSRCPND)
  \/ ts.ADCTSC = "up" /\ ts.g_ts_timer_enable

\* Isr_Adc waits for pen-up only with a complete report, and then enables the
\* timer.
LEMMA AdcTimer ==
  ASSUME NEW t \in Wide, NEW pos \in Nat \X Nat, Isr_Adc(t, pos).ADCTSC = "up"
  PROVE  Isr_Adc(t, pos).g_ts_timer_enable
<1> DEFINE a == enter_wait_pen_up_mode(t)
           b == [a EXCEPT !.adc_cnt = a.adc_cnt + 1, !.adc_x = a.adc_x + pos[1],
                          !.adc_y = a.adc_y + pos[2]]
           c == ResetSamples(report_ts_xy(b, Report(b.adc_x \div N, b.adc_y \div N, 1)))
           u == Isr_Adc(t, pos)
<1>1. CASE pen
  <2>1. t.adc_cnt + 1 = N
    <3>1. u = SampleAdded(a, pos)
      BY <1>1 DEF Isr_Adc
    <3> QED
      BY <3>1, AddFacts
  <2>2. /\ a \in Wide /\ a.adc_cnt = t.adc_cnt /\ a.adc_x = t.adc_x
        /\ a.adc_y = t.adc_y
    BY UpModeFacts
  <2>3. SampleAdded(a, pos) = IF b.adc_cnt = N THEN ts_timer(c, TRUE) ELSE Measure(b)
    BY DEF SampleAdded
  <2>4. u = SampleAdded(a, pos)
    BY <1>1 DEF Isr_Adc
  <2> HIDE DEF a, u
  <2>5. b \in Wide /\ b.adc_cnt = N
    <3>1. /\ a.adc_cnt + 1 = N /\ N \in Nat
          /\ a.adc_x + pos[1] \in Nat /\ a.adc_y + pos[2] \in Nat
      BY <2>1, <2>2 DEF Wide
    <3> QED
      BY <2>2, <3>1 DEF Wide
  <2> HIDE DEF b
  <2>6. Report(b.adc_x \div N, b.adc_y \div N, 1) \in Reports
    <3>1. N \in Nat \ {0} /\ b.adc_x \in Nat /\ b.adc_y \in Nat
      BY <2>5 DEF Wide
    <3>2. b.adc_x \div N \in Nat /\ b.adc_y \div N \in Nat
      BY <3>1, Quotient
    <3> QED
      BY <3>2 DEF Report, Reports
  <2>7. c \in Wide
    BY <2>5, <2>6, ReportStored, ResetFacts
  <2> HIDE DEF c
  <2>8. ts_timer(c, TRUE).g_ts_timer_enable
    BY <2>7 DEF ts_timer, Wide
  <2> QED
    BY <2>3, <2>4, <2>5, <2>8 DEF u
<1>2. CASE ~pen
  <2>1. u = SamplesDropped(a)
    BY <1>2 DEF Isr_Adc
  <2>2. SamplesDropped(a).ADCTSC = "down"
    BY DropFacts DEF PenUp
  <2> QED
    BY <2>1, <2>2
<1> QED
  BY <1>1, <1>2

\* Every step that enters the mode has the timer on, none switches it off there.
LEMMA TimerModeStep == IInv /\ TimerInUpMode /\ [Next]_vars => TimerInUpMode'
<1> SUFFICES ASSUME IInv, TimerInUpMode, [Next]_vars, ts'.ADCTSC = "up"
             PROVE  ts'.g_ts_timer_enable
  BY DEF TimerInUpMode
<1>1. CASE UNCHANGED ts
  BY <1>1 DEF TimerInUpMode
<1>2. CASE ConversionDone
  BY <1>2, TsFacts DEF ConversionDone, TimerInUpMode, Ts
<1>3. CASE ts_read_raw
  BY <1>3, TsFacts DEF ts_read_raw, TimerInUpMode, Ts
<1>4. CASE touchscreen_timer_irq
  <2>1. \/ ts' = Measure(ts)
        \/ ts' = report_ts_xy(enter_wait_pen_down_mode(ts_timer(ts, FALSE)), NoReport)
    BY <1>4 DEF touchscreen_timer_irq
  <2>2. Measure(ts).ADCTSC = "auto"
    BY TsFacts, MeasureFacts
  <2>3. /\ ts_timer(ts, FALSE) \in Wide
        /\ enter_wait_pen_down_mode(ts_timer(ts, FALSE)) \in Wide
        /\ enter_wait_pen_down_mode(ts_timer(ts, FALSE)).ADCTSC = "down"
    BY TsFacts, TimerFacts, DownModeFacts
  <2>4. report_ts_xy(enter_wait_pen_down_mode(ts_timer(ts, FALSE)), NoReport).ADCTSC = "down"
    BY <2>3, NoReportType, ReportStored
  <2> QED
    BY <2>1, <2>2, <2>4
<1>5. CASE AdcTsIntHandle
  <2>1. PICK up \in Bit15(ts), pos \in Positions :
          ts' = IF ADC \in SUBSRCPND
                THEN Isr_Adc(IF TC \in SUBSRCPND THEN Isr_Tc(ts, up) ELSE ts, pos)
                ELSE IF TC \in SUBSRCPND THEN Isr_Tc(ts, up) ELSE ts
    BY <1>5 DEF AdcTsIntHandle
  <2>2. up \in BOOLEAN /\ pos \in Nat \X Nat
    BY TsFacts, PositionsAssumption DEF Bit15
  <2> DEFINE t == IF TC \in SUBSRCPND THEN Isr_Tc(ts, up) ELSE ts
  <2>3. /\ Isr_Tc(ts, up) \in Wide
        /\ Isr_Tc(ts, up).ADCTSC \in {"down", "auto"}
    BY <2>2, TsFacts, TcFacts DEF PenUp
  <2>4. t \in Wide /\ (t.ADCTSC = "up" => t.g_ts_timer_enable)
    BY <2>3, TsFacts DEF TimerInUpMode
  <2>5. ts' = IF ADC \in SUBSRCPND THEN Isr_Adc(t, pos) ELSE t
    BY <2>1
  <2> HIDE DEF t
  <2> QED
    BY <2>2, <2>4, <2>5, AdcTimer
<1> QED
  BY <1>1, <1>2, <1>3, <1>4, <1>5
     DEF Next, Main, PenMoves, PenInterrupt, WaitValid, ReadX, ReadY,
         ReadPressure, vars

\* A pen that is down is looked at again whatever order the three handlers ran
\* in: no mode is left with nothing to end it.
THEOREM NeverBlind == Spec => []PanelWatched
<1>1. Init => TimerInUpMode
  BY DEF Init, TimerInUpMode
<1>2. IInv /\ TimerInUpMode => PanelWatched
  <2> SUFFICES ASSUME IInv, TimerInUpMode PROVE PanelWatched
    OBVIOUS
  <2>1. ts.ADCTSC \in {"down", "up", "auto"}
    BY TsFacts DEF Ts
  <2> QED
    BY <2>1 DEF PanelWatched, TimerInUpMode, IInv, ModeInv, ConversionUnderWay
<1> QED
  BY <1>1, <1>2, TimerModeStep, InductiveInvariant, PTL DEF Spec

(***************************************************************************)
(* A report holds samples of one touch.                                    *)
(***************************************************************************)
\* The handlers' sums are those of the samples taken since a handler saw the pen
\* up.  Samples of an unfinished report keep the controller measuring, so the
\* timer does nothing, and no pen interrupt is pending: the two handlers that see
\* a lifted pen without resetting the sums find none.
TakenInv ==
  /\ taken.n # N => /\ ts.adc_cnt = taken.n
                    /\ ts.adc_x = taken.x /\ ts.adc_y = taken.y
  /\ taken.n = N => ts.adc_cnt = 0
  /\ ts.adc_cnt = 0 => ts.adc_x = 0 /\ ts.adc_y = 0
  /\ ts.adc_cnt # 0 => ts.ADCTSC = "auto" /\ TC \notin SUBSRCPND

\* What is stored in this step is the average of the N samples taken.
StoredWhole ==
  Stored => taken'.n = N /\ ts'.g_ts = Report(taken'.x \div N, taken'.y \div N, 1)

\* Everything but the handlers and the timer leaves the sums alone and stores
\* nothing.
LEMMA TakenOther ==
  ASSUME IInv, TakenInv,
         \/ PenMoves \/ PenInterrupt \/ ConversionDone \/ Main \/ UNCHANGED vars
  PROVE  TakenInv' /\ StoredWhole
<1>1. /\ taken' = taken
      /\ ts' = ts \/ ts' = [ts EXCEPT !.converting = FALSE]
                  \/ ts' = [ts EXCEPT !.g_ts_data_valid = FALSE]
  BY DEF PenMoves, PenInterrupt, ConversionDone, Main, WaitValid, ReadX, ReadY,
         ReadPressure, ts_read_raw, vars, histVars
<1>2. /\ ts'.adc_cnt = ts.adc_cnt /\ ts'.adc_x = ts.adc_x /\ ts'.adc_y = ts.adc_y
      /\ ts'.ADCTSC = ts.ADCTSC
      /\ ts'.g_ts_data_valid => ts.g_ts_data_valid
  BY <1>1, TsFacts DEF Ts
<1>3. SUBSRCPND' \subseteq SUBSRCPND \cup {ADC} \/ ts.ADCTSC # "auto"
  BY DEF PenMoves, PenInterrupt, ConversionDone, Main, WaitValid, ReadX, ReadY,
         ReadPressure, ts_read_raw, vars
<1>4. TakenInv'
  BY <1>1, <1>2, <1>3, TsFacts DEF TakenInv
<1> QED
  BY <1>2, <1>4 DEF StoredWhole, Stored

\* The timer runs between two reports only.
LEMMA TakenTimer ==
  ASSUME IInv, TakenInv, touchscreen_timer_irq
  PROVE  TakenInv' /\ StoredWhole
<1> DEFINE a == ts_timer(ts, FALSE)
           b == enter_wait_pen_down_mode(a)
           u == report_ts_xy(b, NoReport)
<1>1. /\ ts.ADCTSC # "auto"
      /\ \/ ts' = u /\ taken' = NoSamples
         \/ ts' = Measure(ts) /\ taken' = taken
  BY DEF touchscreen_timer_irq, is_in_auto_mode
<1>2. ts.adc_cnt = 0 /\ ts.adc_x = 0 /\ ts.adc_y = 0
  BY <1>1 DEF TakenInv
<1>3. CASE ts' = u /\ taken' = NoSamples
  <2>1. /\ a \in Wide
        /\ a.adc_cnt = 0 /\ a.adc_x = 0 /\ a.adc_y = 0
        /\ a.g_ts_data_valid = ts.g_ts_data_valid
    BY <1>2, TsFacts, TimerFacts
  <2> HIDE DEF a
  <2>2. /\ b \in Wide
        /\ b.adc_cnt = 0 /\ b.adc_x = 0 /\ b.adc_y = 0
        /\ b.g_ts_data_valid = ts.g_ts_data_valid
    BY <2>1, DownModeFacts
  <2> HIDE DEF b
  <2>3. /\ u.adc_cnt = 0 /\ u.adc_x = 0 /\ u.adc_y = 0
        /\ ~ts.g_ts_data_valid => u.g_ts = NoReport
    BY <2>2, NoReportType, ReportStored
  <2> HIDE DEF u
  <2>4. TakenInv'
    BY <1>3, <2>3, NoSamplesType DEF TakenInv
  <2> QED
    BY <1>3, <2>3, <2>4, NoReportType DEF StoredWhole, Stored
<1>4. CASE ts' = Measure(ts) /\ taken' = taken
  <2>1. /\ ts'.adc_cnt = 0 /\ ts'.adc_x = 0 /\ ts'.adc_y = 0
        /\ ts'.g_ts_data_valid = ts.g_ts_data_valid
    BY <1>2, <1>4, TsFacts, MeasureFacts
  <2>2. TakenInv'
    BY <1>2, <1>4, <2>1 DEF TakenInv
  <2> QED
    BY <2>1, <2>2 DEF StoredWhole, Stored
<1> QED
  BY <1>1, <1>3, <1>4

\* The handler of both interrupts.
LEMMA TakenHandler ==
  ASSUME IInv, TakenInv, AdcTsIntHandle
  PROVE  TakenInv' /\ StoredWhole
<1>1. PICK up \in Bit15(ts), pos \in Positions :
        LET t == IF TC \in SUBSRCPND THEN Isr_Tc(ts, up) ELSE ts
            s == IF TC \in SUBSRCPND /\ up THEN NoSamples ELSE taken
        IN  /\ ts' = IF ADC \in SUBSRCPND THEN Isr_Adc(t, pos) ELSE t
            /\ taken' = IF ADC \notin SUBSRCPND THEN s
                        ELSE IF pen THEN Taken(s, pos) ELSE NoSamples
  BY DEF AdcTsIntHandle
<1>2. up \in BOOLEAN /\ pos[1] \in Nat /\ pos[2] \in Nat /\ pos \in Nat \X Nat
  BY TsFacts, PositionsAssumption DEF Bit15
<1> DEFINE t == IF TC \in SUBSRCPND THEN Isr_Tc(ts, up) ELSE ts
           s == IF TC \in SUBSRCPND /\ up THEN NoSamples ELSE taken
<1>3. /\ ts' = IF ADC \in SUBSRCPND THEN Isr_Adc(t, pos) ELSE t
      /\ taken' = IF ADC \notin SUBSRCPND THEN s
                  ELSE IF pen THEN Taken(s, pos) ELSE NoSamples
  BY <1>1
<1>4. /\ t \in Wide
      /\ t.adc_cnt = ts.adc_cnt /\ t.adc_x = ts.adc_x /\ t.adc_y = ts.adc_y
      /\ ts.g_ts_data_valid => t.g_ts_data_valid
      /\ ~ts.g_ts_data_valid /\ t.g_ts_data_valid => t.g_ts = NoReport
  <2>1. /\ Isr_Tc(ts, up) \in Wide
        /\ Isr_Tc(ts, up).adc_cnt = ts.adc_cnt
        /\ Isr_Tc(ts, up).adc_x = ts.adc_x /\ Isr_Tc(ts, up).adc_y = ts.adc_y
        /\ up => PenUp(ts, Isr_Tc(ts, up))
        /\ ~up => Isr_Tc(ts, up).g_ts_data_valid = ts.g_ts_data_valid
    BY <1>2, TsFacts, TcFacts
  <2> QED
    BY <1>2, <2>1, TsFacts DEF PenUp
<1>5. /\ s \in Samples
      /\ s.n # N => ts.adc_cnt = s.n /\ ts.adc_x = s.x /\ ts.adc_y = s.y
      /\ s.n = N => ts.adc_cnt = 0
      /\ ts.adc_cnt = 0 => ts.adc_x = 0 /\ ts.adc_y = 0
  <2>1. TC \in SUBSRCPND => ts.adc_cnt = 0
    BY DEF TakenInv
  <2> QED
    BY <2>1, TsFacts, NoSamplesType DEF TakenInv
<1>6. SUBSRCPND' = {} /\ (ADC \notin SUBSRCPND => TC \in SUBSRCPND)
  BY TsFacts DEF AdcTsIntHandle
<1>7. TC \in SUBSRCPND => ts.adc_cnt = 0
  BY DEF TakenInv
<1> HIDE DEF t, s
<1>8. CASE ADC \notin SUBSRCPND
  <2>1. ts' = t /\ taken' = s /\ ts.adc_cnt = 0
    BY <1>3, <1>6, <1>7, <1>8
  <2>2. TakenInv'
    BY <1>4, <1>5, <2>1 DEF TakenInv
  <2>3. ~Stored
    BY <1>4, <2>1, NoReportType DEF Stored
  <2> QED
    BY <2>2, <2>3 DEF StoredWhole
<1>9. CASE ADC \in SUBSRCPND /\ ~pen
  <2>1. ts' = SamplesDropped(enter_wait_pen_up_mode(t)) /\ taken' = NoSamples
    BY <1>3, <1>9 DEF Isr_Adc
  <2>2. /\ ts'.adc_cnt = 0 /\ ts'.adc_x = 0 /\ ts'.adc_y = 0
        /\ PenUp(t, ts')
    BY <1>4, <2>1, DropFacts
  <2>3. TakenInv'
    BY <2>1, <2>2, NoSamplesType DEF TakenInv
  <2>4. ~Stored
    BY <1>4, <2>2, NoReportType DEF Stored, PenUp
  <2> QED
    BY <2>3, <2>4 DEF StoredWhole
<1>10. CASE ADC \in SUBSRCPND /\ pen
  <2> DEFINE x == t.adc_x + pos[1]
             y == t.adc_y + pos[2]
             c == t.adc_cnt + 1
             k == Taken(s, pos)
  <2>1. ts' = SampleAdded(enter_wait_pen_up_mode(t), pos) /\ taken' = k
    BY <1>3, <1>10 DEF Isr_Adc
  <2>2. /\ c # N =>
             /\ ts'.adc_cnt = c /\ ts'.adc_x = x /\ ts'.adc_y = y
             /\ ts'.ADCTSC = "auto"
             /\ ts'.g_ts_data_valid = t.g_ts_data_valid /\ ts'.g_ts = t.g_ts
        /\ c = N =>
             /\ ts'.adc_cnt = 0 /\ ts'.adc_x = 0 /\ ts'.adc_y = 0
             /\ t.g_ts_data_valid => ts'.g_ts = t.g_ts
             /\ ~t.g_ts_data_valid =>
                  ts'.g_ts = Report(x \div N, y \div N, 1)
    BY <1>2, <1>4, <2>1, AddFacts
  <2>3. k.n = c /\ k.x = x /\ k.y = y
    <3>1. /\ s.n # N => k.n = s.n + 1 /\ k.x = s.x + pos[1] /\ k.y = s.y + pos[2]
          /\ s.n = N => k.n = 1 /\ k.x = pos[1] /\ k.y = pos[2]
      BY <1>5, TakenType
    <3> HIDE DEF k
    <3> QED
      BY <1>2, <1>4, <1>5, <3>1
  <2>4. c \in Nat \ {0}
    BY <1>4, TsFacts
  <2> HIDE DEF x, y, c, k
  <2>5. TakenInv'
    BY <1>6, <2>1, <2>2, <2>3, <2>4 DEF TakenInv
  <2>6. StoredWhole
    <3> SUFFICES ASSUME Stored
                 PROVE  k.n = N /\ ts'.g_ts = Report(k.x \div N, k.y \div N, 1)
      BY <2>1 DEF StoredWhole
    <3>1. ~t.g_ts_data_valid
      <4>1. SUFFICES ASSUME t.g_ts_data_valid PROVE FALSE
        OBVIOUS
      <4>2. ts'.g_ts = t.g_ts
        BY <2>2, <4>1
      <4>3. t.g_ts = NoReport
        BY <1>4, <4>1 DEF Stored
      <4>4. ts'.g_ts.pressure = 1
        BY DEF Stored
      <4> QED
        BY <4>2, <4>3, <4>4, NoReportType
    <3>2. c = N
      <4>1. ts'.g_ts_data_valid
        BY DEF Stored
      <4> QED
        BY <2>2, <3>1, <4>1
    <3> QED
      BY <2>2, <2>3, <3>1, <3>2
  <2> QED
    BY <2>5, <2>6
<1> QED
  BY <1>8, <1>9, <1>10

\* Every touch that is reported is the average of N samples of that touch: no
\* sample of a measurement that a lifted pen broke off goes into a later report,
\* although only Isr_Adc resets the sums.
THEOREM ReportsOfOneTouch == Spec => ReportOfOneTouch
<1>1. Init => TakenInv
  BY NoSamplesType DEF Init, TakenInv
<1>2. IInv /\ TakenInv /\ [Next]_vars => TakenInv' /\ StoredWhole
  BY TakenOther, TakenTimer, TakenHandler DEF Next
<1>3. IInv /\ TakenInv /\ [Next]_vars => [StoredWhole]_vars
  BY <1>2
<1>4. Spec => [][StoredWhole]_vars
  BY <1>1, <1>2, <1>3, InductiveInvariant, PTL DEF Spec
<1> QED
  BY <1>4 DEF ReportOfOneTouch, StoredWhole
=============================================================================
