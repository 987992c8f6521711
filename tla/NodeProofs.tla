------------------------------ MODULE NodeProofs ------------------------------
(* Theorems about the main loop: with any period, any length of a second and  *)
(* any times its calls take that fit the load, the records keep the cadence.   *)
EXTENDS Node, TLAPS

-----------------------------------------------------------------------------
(* The invariant.                                                          *)

\* A period, in units of time.
Period == STORE_PERIOD_S * SECOND

\* When the second that is next, or under way, began by the cadence.
Scheduled == flushes * Period + sec * SECOND

\* The seconds left of a period make up for this much: by the last of them the
\* loop is no longer behind.
Slack(s) == (STORE_PERIOD_S - 1 - s) * (SECOND - PollMax)

\* What the loop may be behind its schedule, at each of its steps.
OnTime ==
  /\ pc \in {"poll", "append", "write"} \/ left = 0
  /\ pc \in {"radar_take", "aq_take", "append", "write"} => sec = 0
  /\ pc = "poll" => /\ next_tick = Scheduled + SECOND
                    /\ Scheduled <= now
                    /\ now + left <= Scheduled + PollMax + Slack(sec)
  /\ pc = "radar_take" => /\ next_tick = Scheduled + Period
                          /\ now \in next_tick - SECOND .. next_tick - SECOND + PollMax
  /\ pc \in {"aq_take", "append", "write"} =>
       /\ next_tick = Scheduled
       /\ next_tick - SECOND <= now
  /\ pc = "aq_take" => now <= next_tick - SECOND + PollMax
  /\ pc = "append" => now + left <= next_tick - SECOND + PollMax + StatusMax
  /\ pc = "write" => now + left <= next_tick - SECOND + PollMax + StatusMax + WriteMax
  /\ pc \in {"delay", "sleep"} => /\ next_tick = Scheduled
                                  /\ next_tick - SECOND <= now
                                  /\ now <= Scheduled + Slack(sec)

\* A record is stamped in time ...
Stamped(r) == r.ts - (r.window * STORE_PERIOD_S - 1) \in 0 .. Late

\* ... and the one after it says how many windows fell out in between.
RecordsCount ==
  /\ \A i \in 1 .. Len(records) : Stamped(records[i])
  /\ \A i \in 1 .. Len(records) - 1 :
       records[i + 1].window = records[i].window + records[i + 1].missed + 1

\* A window is under way: taken from the accumulators and not yet written.
Taken == pc \in {"aq_take", "append", "write"}

WindowsCount ==
  /\ Taken => rec.window = flushes
  /\ pc = "write" => rec.missed = missed /\ Stamped(rec)
  /\ records # <<>> =>
       records[Len(records)].window + missed + (IF Taken THEN 1 ELSE 0) = flushes

CadenceInv == OnTime /\ RecordsCount /\ WindowsCount

-----------------------------------------------------------------------------
(* Arithmetic of the schedule.                                             *)

LEMMA Times ==
  /\ STORE_PERIOD_S \in Nat \ {0} /\ SECOND \in Nat \ {0}
  /\ PollMax \in Nat /\ StatusMax \in Nat /\ WriteMax \in Nat /\ MaxNow \in Nat
  /\ PollMax < SECOND
BY PeriodAssumption, TimesAssumption, LoadAssumption

\* A product of numbers is a number.
LEMMA Product ==
  ASSUME NEW a \in Nat, NEW b \in Nat
  PROVE  a * b \in Nat
OBVIOUS

LEMMA OneMore ==
  ASSUME NEW a \in Nat, NEW b \in Nat
  PROVE  (a + 1) * b = a * b + b
OBVIOUS

\* The last second of a period ends with it.
LEMMA LastSecond ==
  /\ Period \in Nat
  /\ (STORE_PERIOD_S - 1) * SECOND + SECOND = Period
<1> DEFINE p == STORE_PERIOD_S - 1
<1>1. p \in Nat /\ STORE_PERIOD_S = p + 1 /\ SECOND \in Nat
  BY Times
<1> HIDE DEF p
<1>2. (p + 1) * SECOND = p * SECOND + SECOND
  BY <1>1, OneMore
<1>3. (p + 1) * SECOND \in Nat
  BY <1>1, Product
<1> QED BY <1>1, <1>2, <1>3 DEF Period, p

LEMMA SlackType ==
  ASSUME NEW s \in 0 .. STORE_PERIOD_S - 1
  PROVE  Slack(s) \in Nat
<1>1. STORE_PERIOD_S - 1 - s \in Nat /\ SECOND - PollMax \in Nat
  BY Times
<1> QED BY <1>1, Product DEF Slack

\* A second takes back what its poll leaves of it ...
LEMMA SlackShrinks ==
  ASSUME NEW s \in Nat, s + 1 < STORE_PERIOD_S
  PROVE  Slack(s) = Slack(s + 1) + SECOND - PollMax
<1> DEFINE m == STORE_PERIOD_S - 1 - (s + 1)
           d == SECOND - PollMax
<1>1. m \in Nat /\ d \in Nat /\ STORE_PERIOD_S - 1 - s = m + 1
  BY Times
<1> HIDE DEF m
<1>2. (m + 1) * d = m * d + d
  BY <1>1, OneMore
<1>3. m * d \in Nat
  BY <1>1, Product
<1> QED BY <1>1, <1>2, <1>3, Times DEF Slack, m

\* ... which by the last one is all there was, and is enough for the write.
LEMMA SlackEnds ==
  /\ Slack(STORE_PERIOD_S - 1) = 0
  /\ StatusMax + WriteMax <= Slack(0) + SECOND - PollMax
<1> DEFINE m == STORE_PERIOD_S - 1
           d == SECOND - PollMax
<1>1. m \in Nat /\ d \in Nat /\ STORE_PERIOD_S = m + 1
  BY Times
<1>2. Slack(STORE_PERIOD_S - 1) = 0
  BY <1>1 DEF Slack
<1>3. Slack(0) = m * d
  BY <1>1 DEF Slack
<1> HIDE DEF m
<1>4. m * d \in Nat /\ m * SECOND \in Nat /\ m * PollMax \in Nat
  BY <1>1, Product, Times
<1>5. m * d = m * SECOND - m * PollMax
  BY <1>1, Times
<1>6. (m + 1) * SECOND = m * SECOND + SECOND /\ (m + 1) * PollMax = m * PollMax + PollMax
  BY <1>1, OneMore, Times
<1>7. (m + 1) * PollMax + StatusMax + WriteMax <= (m + 1) * SECOND
  BY <1>1, LoadAssumption
<1> QED BY <1>1, <1>2, <1>3, <1>4, <1>5, <1>6, <1>7, Times

-----------------------------------------------------------------------------
(* The clock.                                                              *)

\* A quotient is the number of the second ...
LEMMA Quotient ==
  ASSUME NEW n \in Nat
  PROVE  /\ n \div SECOND \in Nat
         /\ SECOND * (n \div SECOND) <= n /\ n < SECOND * (n \div SECOND) + SECOND
<1>1. SECOND \in Nat \ {0}
  BY Times
<1> QED BY <1>1

\* ... and seconds are in order.
LEMMA SecondsInOrder ==
  ASSUME NEW a \in Int, NEW b \in Int, SECOND * a < SECOND * b + SECOND
  PROVE  a <= b
<1> SUFFICES ASSUME a >= b + 1 PROVE FALSE
  OBVIOUS
<1> DEFINE c == a - b - 1
<1>1. c \in Nat /\ SECOND \in Nat /\ a = (b + 1) + c
  BY Times
<1> HIDE DEF c
<1>2. SECOND * c \in Nat
  BY <1>1, Product
<1>3. SECOND * a = SECOND * b + SECOND + SECOND * c
  BY <1>1
<1>4. SECOND * b \in Int
  BY <1>1
<1> QED BY <1>1, <1>2, <1>3, <1>4

\* A record whose window ends with second k of the clock's, at whatever phase, is
\* stamped with k or with one of the Late seconds after it.
LEMMA StampInTime ==
  ASSUME NEW k \in Int, NEW n \in Nat,
         SECOND * k <= n, n <= SECOND * k + SECOND - 1 + PollMax + StatusMax
  PROVE  n \div SECOND - k \in 0 .. Late
<1> DEFINE q == n \div SECOND
           d == SECOND - 1 + PollMax + StatusMax
<1>1. SECOND \in Nat \ {0} /\ d \in Nat
  BY Times
<1>2. q \in Nat /\ SECOND * q <= n /\ n < SECOND * q + SECOND
  BY Quotient
<1>3. Late \in Nat /\ d < SECOND * Late + SECOND
  BY <1>1, Quotient DEF Late
<1>4. n <= SECOND * k + d
  BY <1>1, Times
<1> HIDE DEF q, d
<1>5. SECOND * k \in Int /\ SECOND * q \in Int /\ SECOND * Late \in Int
  BY <1>1, <1>2, <1>3
<1>6. k <= q
  BY <1>1, <1>2, <1>5, SecondsInOrder
<1>7. q <= k + Late
  <2>1. SECOND * (k + Late) = SECOND * k + SECOND * Late
    BY <1>1, <1>3
  <2>2. SECOND * q < SECOND * (k + Late) + SECOND
    BY <1>1, <1>2, <1>3, <1>4, <1>5, <2>1
  <2>3. k + Late \in Int
    BY <1>3
  <2> QED BY <1>2, <2>2, <2>3, SecondsInOrder
<1> QED BY <1>2, <1>3, <1>6, <1>7 DEF q

-----------------------------------------------------------------------------
(* Types.                                                                  *)

\* Flags that are set together are flags.
LEMMA NoFlags == {} \in Flags
BY DEF Flags

LEMMA MoreFlags ==
  ASSUME NEW f \in Flags, NEW g \in SUBSET {SENSOR_FAULT, AQ_FAULT, NO_TRACKER, RTC_UNSET}
  PROVE  f \cup g \in Flags
BY DEF Flags

LEMMA RadarFlagsAreFlags == RadarFlags \in Flags
BY DEF RadarFlags, Flags

\* The types of the main loop's state hold from boot on.
LEMMA NodeTypeInit == Init => TypeOK
<1> SUFFICES ASSUME Init PROVE TypeOK
  OBVIOUS
<1> USE DEF Init
<1>1. rec \in Record
  BY NoFlags DEF NoRecord, Record
<1>2. frames \in Frames
  BY DEF Frames
<1>3. started \in [radar : BOOLEAN, aq : BOOLEAN] /\ phase \in 0 .. SECOND - 1
  BY ResultsAssumption
<1>4. records \in Seq(Record)
  OBVIOUS
<1>5. left \in 0 .. PollMax + StatusMax + WriteMax /\ sec \in 0 .. STORE_PERIOD_S - 1
  BY Times
<1>6. now \in Nat /\ next_tick \in Nat /\ flushes \in Nat /\ missed \in Nat
  BY Times
<1>7. samples \in BOOLEAN
  OBVIOUS
<1> HIDE DEF Init
<1>8. pc = "poll"
  BY DEF Init
<1> QED BY <1>1, <1>2, <1>3, <1>4, <1>5, <1>6, <1>7, <1>8 DEF TypeOK

LEMMA NodeTypeStep == TypeOK /\ [Next]_vars => TypeOK'
<1> SUFFICES ASSUME TypeOK, [Next]_vars PROVE TypeOK'
  OBVIOUS
<1> USE Times DEF TypeOK, loop, boot
<1>1. ASSUME NEW tracker \in BOOLEAN, on_frame(tracker) PROVE TypeOK'
  BY <1>1 DEF on_frame, Frames
<1>2. CASE sen5x_poll
  BY <1>2 DEF sen5x_poll, PeriodIsOver
<1>3. CASE radar_window_take
  <2>1. rec' \in Record
    <3>1. rec' = [flags |-> RadarFlags, ts |-> 0, window |-> flushes + 1, missed |-> 0]
      BY <1>3 DEF radar_window_take, NoRecord
    <3> HIDE DEF TypeOK
    <3>2. flushes + 1 \in Nat /\ 0 \in Nat
      BY DEF TypeOK
    <3> QED BY <3>1, <3>2, RadarFlagsAreFlags DEF Record
  <2>2. frames' \in Frames /\ flushes' \in Nat /\ left' = left
    BY <1>3, SMTT(30) DEF radar_window_take, Frames
  <2> QED BY <1>3, <2>1, <2>2 DEF radar_window_take
<1>4. CASE sen5x_window_take
  <2>1. rec' \in Record
    <3>1. PICK f \in SUBSET {SENSOR_FAULT, AQ_FAULT, NO_TRACKER, RTC_UNSET} :
            rec' = [rec EXCEPT !.flags = @ \cup f]
      <4>1. PICK statusOk \in BOOLEAN :
              rec' = [rec EXCEPT !.flags = @ \cup {RTC_UNSET} \cup
                        IF samples /\ statusOk THEN {} ELSE {AQ_FAULT}]
        BY <1>4 DEF sen5x_window_take
      <4> DEFINE f == {RTC_UNSET} \cup IF samples /\ statusOk THEN {} ELSE {AQ_FAULT}
      <4>2. rec.flags \cup {RTC_UNSET} \cup (IF samples /\ statusOk THEN {} ELSE {AQ_FAULT})
            = rec.flags \cup f
        OBVIOUS
      <4>3. f \in SUBSET {SENSOR_FAULT, AQ_FAULT, NO_TRACKER, RTC_UNSET}
        OBVIOUS
      <4>4. rec' = [rec EXCEPT !.flags = @ \cup f]
        BY <4>1, <4>2
      <4> QED BY <4>3, <4>4
    <3>2. rec.flags \cup f \in Flags
      BY MoreFlags DEF Record
    <3> QED BY <3>1, <3>2 DEF Record
  <2>2. left' \in 0 .. PollMax + StatusMax + WriteMax
    <3>1. left' \in 0 .. StatusMax
      BY <1>4 DEF sen5x_window_take
    <3> HIDE DEF TypeOK
    <3> QED BY <3>1
  <2> QED BY <1>4, <2>1, <2>2 DEF sen5x_window_take
<1>5. CASE AppendBegins
  <2>1. rec' \in Record
    <3>1. phase + now \in Nat
      OBVIOUS
    <3>2. store_now \in Nat
      BY <3>1, Quotient DEF store_now
    <3> QED BY <1>5, <3>2 DEF AppendBegins, Record
  <2>2. left' \in 0 .. PollMax + StatusMax + WriteMax
    <3>1. left' \in 0 .. WriteMax
      BY <1>5 DEF AppendBegins
    <3> HIDE DEF TypeOK
    <3> QED BY <3>1
  <2>3. pc' = "write"
        /\ UNCHANGED <<now, next_tick, sec, boot, frames, samples, records, flushes, missed>>
    BY <1>5 DEF AppendBegins
  <2> QED BY <2>1, <2>2, <2>3
<1>6. ASSUME NEW ok \in Appends, AppendEnds(ok) PROVE TypeOK'
  BY <1>6 DEF AppendEnds
<1>7. CASE Delay
  BY <1>7 DEF Delay, NextTick
<1>8. CASE Tick
  BY <1>8 DEF Tick
<1>9. CASE UNCHANGED vars
  BY <1>9 DEF vars
<1> QED BY <1>1, <1>2, <1>3, <1>4, <1>5, <1>6, <1>7, <1>8, <1>9 DEF Next

\* The types of the main loop's state, for any period and load.
THEOREM NodeTypes == Spec => []TypeOK
BY NodeTypeInit, NodeTypeStep, PTL DEF Spec

-----------------------------------------------------------------------------
(* The cadence.                                                            *)

LEMMA ScheduledType == TypeOK => Scheduled \in Nat
<1> SUFFICES ASSUME TypeOK PROVE Scheduled \in Nat
  OBVIOUS
<1>1. flushes * Period \in Nat /\ sec * SECOND \in Nat
  BY Times, LastSecond, Product DEF TypeOK
<1> QED BY <1>1 DEF Scheduled

\* Where a step of the loop leaves the schedule.
LEMMA ScheduleMoves ==
  ASSUME TypeOK
  PROVE  /\ UNCHANGED <<flushes, sec>> => Scheduled' = Scheduled
         /\ flushes' = flushes /\ sec' = sec + 1 => Scheduled' = Scheduled + SECOND
         /\ flushes' = flushes /\ sec = STORE_PERIOD_S - 1 /\ sec' = 0 =>
              Scheduled' = Scheduled + SECOND - Period
         /\ flushes' = flushes + 1 /\ sec' = sec => Scheduled' = Scheduled + Period
<1> DEFINE base == flushes * Period
<1>1. base \in Nat /\ Period \in Nat /\ flushes \in Nat /\ sec \in Nat /\ SECOND \in Nat
  BY Times, LastSecond, Product DEF TypeOK
<1>2. (flushes + 1) * Period = base + Period
  BY <1>1, OneMore
<1>3. (sec + 1) * SECOND = sec * SECOND + SECOND
  BY <1>1, OneMore
<1>4. sec * SECOND \in Nat
  BY <1>1, Product
<1>5. Scheduled = base + sec * SECOND
  BY DEF Scheduled
<1>6. CASE flushes' = flushes
  <2>1. Scheduled' = base + sec' * SECOND
    BY <1>6 DEF Scheduled, Period
  <2> HIDE DEF base
  <2>2. sec' = sec => Scheduled' = Scheduled
    BY <1>5, <2>1
  <2>3. sec' = sec + 1 => Scheduled' = Scheduled + SECOND
    BY <1>1, <1>3, <1>4, <1>5, <2>1
  <2>4. ASSUME sec = STORE_PERIOD_S - 1, sec' = 0
        PROVE  Scheduled' = Scheduled + SECOND - Period
    <3>1. Scheduled' = base
      BY <1>1, <2>1, <2>4
    <3>2. sec * SECOND + SECOND = Period
      BY <2>4, LastSecond
    <3> QED BY <1>1, <1>4, <1>5, <3>1, <3>2
  <2>5. flushes' # flushes + 1
    BY <1>1, <1>6
  <2> QED BY <1>6, <2>2, <2>3, <2>4, <2>5
<1>7. CASE flushes' = flushes + 1
  <2>1. Scheduled' = (flushes + 1) * Period + sec' * SECOND
    BY <1>7 DEF Scheduled, Period
  <2> HIDE DEF base
  <2>2. sec' = sec => Scheduled' = Scheduled + Period
    BY <1>1, <1>2, <1>4, <1>5, <2>1
  <2>3. flushes' # flushes
    BY <1>1, <1>7
  <2> QED BY <2>2, <2>3
<1> QED BY <1>6, <1>7

\* main.c:221-239: no step takes the loop further behind than the rest of the
\* period makes up for.
LEMMA OnTimeStep ==
  ASSUME TypeOK, OnTime, [Next]_vars
  PROVE  OnTime'
<1> USE DEF OnTime, loop, boot
<1>t. /\ Scheduled \in Nat /\ Period \in Nat /\ SECOND \in Nat \ {0}
      /\ PollMax \in Nat /\ StatusMax \in Nat /\ WriteMax \in Nat
      /\ now \in Nat /\ next_tick \in Nat /\ left \in Nat /\ sec \in Nat /\ flushes \in Nat
      /\ sec <= STORE_PERIOD_S - 1 /\ STORE_PERIOD_S \in Nat
      /\ PollMax < SECOND
  BY Times, LastSecond, ScheduledType DEF TypeOK
<1>s. Slack(sec) \in Nat /\ Slack(0) \in Nat
  BY <1>t, SlackType
<1>1. ASSUME NEW tracker \in BOOLEAN, on_frame(tracker) PROVE OnTime'
  BY <1>1, ScheduleMoves DEF on_frame
<1>2. CASE sen5x_poll
  <2>1. CASE PeriodIsOver(sec + 1)
    <3>1. sec = STORE_PERIOD_S - 1 /\ sec' = 0 /\ pc' = "radar_take" /\ flushes' = flushes
      BY <1>t, <1>2, <2>1 DEF sen5x_poll, PeriodIsOver
    <3>2. Scheduled' = Scheduled + SECOND - Period /\ Slack(sec) = 0
      BY <3>1, ScheduleMoves, SlackEnds
    <3>3. /\ next_tick' = Scheduled + SECOND /\ now' = now /\ left' = 0
          /\ Scheduled <= now /\ now <= Scheduled + PollMax
      BY <1>t, <1>2, <3>2 DEF sen5x_poll
    <3> QED BY <1>t, <3>1, <3>2, <3>3
  <2>2. CASE ~PeriodIsOver(sec + 1)
    <3>1. sec + 1 < STORE_PERIOD_S /\ sec' = sec + 1 /\ pc' = "delay" /\ flushes' = flushes
      BY <1>t, <1>2, <2>2 DEF sen5x_poll, PeriodIsOver
    <3>2. Scheduled' = Scheduled + SECOND /\ Slack(sec) = Slack(sec') + SECOND - PollMax
      BY <1>t, <3>1, ScheduleMoves, SlackShrinks
    <3>3. Slack(sec') \in Nat
      BY <1>t, <3>1, SlackType
    <3> QED BY <1>t, <1>s, <1>2, <3>1, <3>2, <3>3 DEF sen5x_poll
  <2> QED BY <2>1, <2>2
<1>3. CASE radar_window_take
  <2>1. Scheduled' = Scheduled + Period
    BY <1>3, ScheduleMoves DEF radar_window_take
  <2> QED BY <1>t, <1>3, <2>1 DEF radar_window_take
<1>4. CASE sen5x_window_take
  <2>1. Scheduled' = Scheduled
    BY <1>4, ScheduleMoves DEF sen5x_window_take
  <2> QED BY <1>t, <1>4, <2>1 DEF sen5x_window_take
<1>5. CASE AppendBegins
  <2>1. Scheduled' = Scheduled
    BY <1>5, ScheduleMoves DEF AppendBegins
  <2> QED BY <1>t, <1>5, <2>1 DEF AppendBegins
<1>6. ASSUME NEW ok \in Appends, AppendEnds(ok) PROVE OnTime'
  <2>1. Scheduled' = Scheduled
    BY <1>6, ScheduleMoves DEF AppendEnds
  <2>2. StatusMax + WriteMax <= Slack(0) + SECOND - PollMax
    BY SlackEnds
  <2> QED BY <1>t, <1>s, <1>6, <2>1, <2>2 DEF AppendEnds
<1>7. CASE Delay
  <2>1. Scheduled' = Scheduled
    BY <1>7, ScheduleMoves DEF Delay
  <2> QED BY <1>t, <1>s, <1>7, <2>1 DEF Delay, NextTick
<1>8. CASE Tick
  <2>1. Scheduled' = Scheduled
    BY <1>8, ScheduleMoves DEF Tick
  <2> QED BY <1>t, <1>s, <1>8, <2>1 DEF Tick
<1>9. CASE UNCHANGED vars
  BY <1>9, ScheduleMoves DEF vars
<1> QED BY <1>1, <1>2, <1>3, <1>4, <1>5, <1>6, <1>7, <1>8, <1>9 DEF Next

LEMMA CadenceInit == Init => TypeOK /\ CadenceInv
<1> SUFFICES ASSUME Init PROVE TypeOK /\ CadenceInv
  OBVIOUS
<1>1. TypeOK
  BY NodeTypeInit
<1>2. Period \in Nat /\ 0 * Period = 0 /\ 0 * SECOND = 0
  BY LastSecond, Times
<1>3. Scheduled = 0
  BY <1>2 DEF Init, Scheduled
<1>4. Slack(0) \in Nat
  BY SlackType, Times
<1>5. OnTime
  BY <1>3, <1>4, Times DEF Init, OnTime
<1>6. RecordsCount /\ WindowsCount
  BY DEF Init, RecordsCount, WindowsCount, Taken
<1> QED BY <1>1, <1>5, <1>6 DEF CadenceInv

LEMMA LastRecord ==
  ASSUME TypeOK, records # <<>>
  PROVE  records[Len(records)] \in Record
<1>1. Len(records) \in 1 .. Len(records)
  BY DEF TypeOK
<1> QED BY <1>1 DEF TypeOK

\* The stamp of a record lies in the period of its window, and the record tells
\* how many windows were not written before it.
LEMMA CountStep ==
  ASSUME TypeOK, TypeOK', CadenceInv, [Next]_vars
  PROVE  RecordsCount' /\ WindowsCount'
<1> USE DEF loop, boot
<1>0. OnTime /\ RecordsCount /\ WindowsCount
  BY DEF CadenceInv
<1>t. /\ now \in Nat /\ next_tick \in Nat /\ left \in Nat /\ flushes \in Nat /\ missed \in Nat
      /\ SECOND \in Nat /\ PollMax \in Nat /\ StatusMax \in Nat /\ WriteMax \in Nat
      /\ records \in Seq(Record) /\ rec \in Record
  BY Times DEF TypeOK
\* Steps that neither take a window nor write one.
<1>q. ASSUME UNCHANGED <<rec, records, flushes, missed>>, Taken' = Taken,
             pc' = "write" => pc = "write"
      PROVE  RecordsCount' /\ WindowsCount'
  BY <1>0, <1>q DEF RecordsCount, WindowsCount, Stamped
<1>1. ASSUME NEW tracker \in BOOLEAN, on_frame(tracker) PROVE RecordsCount' /\ WindowsCount'
  BY <1>1, <1>q DEF on_frame, Taken
<1>2. CASE sen5x_poll
  BY <1>2, <1>q DEF sen5x_poll, Taken
<1>3. CASE radar_window_take
  <2>1. UNCHANGED <<records, missed>> /\ flushes' = flushes + 1 /\ ~Taken /\ Taken'
        /\ pc' # "write" /\ rec'.window = flushes + 1
    BY <1>3 DEF radar_window_take, Taken, NoRecord
  <2>2. RecordsCount'
    BY <1>0, <2>1 DEF RecordsCount, Stamped
  <2>3. records # <<>> => records[Len(records)].window \in Nat
    BY LastRecord DEF Record
  <2> QED BY <1>0, <1>t, <2>1, <2>2, <2>3 DEF WindowsCount
<1>4. CASE sen5x_window_take
  <2>1. /\ UNCHANGED <<records, missed, flushes>> /\ Taken /\ Taken' /\ pc' # "write"
        /\ rec'.window = rec.window
    BY <1>t, <1>4 DEF sen5x_window_take, Taken, Record
  <2> QED BY <1>0, <2>1 DEF RecordsCount, WindowsCount, Stamped
<1>5. CASE AppendBegins
  <2>1. /\ UNCHANGED <<records, missed, flushes>> /\ Taken /\ Taken'
        /\ rec'.window = rec.window /\ rec'.ts = store_now /\ rec'.missed = missed
    BY <1>t, <1>5 DEF AppendBegins, Taken, Record
  <2>2. sec = 0 /\ next_tick = Scheduled /\ next_tick - SECOND <= now
        /\ now + left <= next_tick - SECOND + PollMax + StatusMax
    BY <1>0, <1>5 DEF AppendBegins, OnTime
  <2>3. Scheduled = flushes * Period
    <3>1. 0 * SECOND = 0 /\ flushes * Period \in Nat
      BY <1>t, LastSecond, Product
    <3> QED BY <2>2, <3>1 DEF Scheduled
  <2>4. rec.window = flushes
    BY <1>0, <2>1 DEF WindowsCount
  <2>5. Stamped(rec')
    <3> DEFINE k == flushes * STORE_PERIOD_S - 1
    <3>1. k \in Int /\ phase \in 0 .. SECOND - 1 /\ phase + now \in Nat
      BY <1>t, Times DEF TypeOK
    <3>2. SECOND * k = next_tick - SECOND
      <4>1. flushes * (STORE_PERIOD_S * SECOND) = SECOND * (flushes * STORE_PERIOD_S)
        BY <1>t, Times
      <4>2. SECOND * (flushes * STORE_PERIOD_S - 1) = SECOND * (flushes * STORE_PERIOD_S) - SECOND
        BY <1>t, Times
      <4> QED BY <2>2, <2>3, <4>1, <4>2 DEF Period
    <3> HIDE DEF k
    <3>3. SECOND * k <= phase + now /\ phase + now <= SECOND * k + SECOND - 1 + PollMax + StatusMax
      BY <1>t, <2>2, <3>1, <3>2
    <3>4. (phase + now) \div SECOND - k \in 0 .. Late
      BY <3>1, <3>3, StampInTime
    <3> QED BY <2>1, <2>4, <3>4 DEF Stamped, store_now, k
  <2>6. (Stamped(rec))'
    BY <2>5 DEF Stamped, Late
  <2> QED BY <1>0, <2>1, <2>4, <2>6 DEF RecordsCount, WindowsCount, Stamped
<1>6. ASSUME NEW ok \in Appends, AppendEnds(ok) PROVE RecordsCount' /\ WindowsCount'
  <2>1. /\ rec.window = flushes /\ rec.missed = missed /\ Stamped(rec) /\ Taken
        /\ UNCHANGED <<rec, flushes>> /\ ~Taken' /\ pc' # "write"
    BY <1>0, <1>6 DEF AppendEnds, WindowsCount, Taken
  <2>2. records # <<>> => /\ records[Len(records)].window \in Nat
                          /\ records[Len(records)].window + missed + 1 = flushes
    BY <1>0, <2>1, LastRecord DEF WindowsCount, Record
  <2>3. CASE ~ok
    <3>1. records' = records /\ missed' = missed + 1
      BY <1>6, <2>3 DEF AppendEnds
    <3>2. RecordsCount'
      BY <1>0, <3>1 DEF RecordsCount, Stamped
    <3>3. WindowsCount'
      <4>1. records # <<>> => records[Len(records)].window + (missed + 1) = flushes
        BY <1>t, <2>2
      <4> QED BY <1>t, <2>1, <3>1, <4>1 DEF WindowsCount, Stamped
    <3> QED BY <3>2, <3>3
  <2>4. CASE ok
    <3> DEFINE k == Len(records)
    <3>1. records' = Append(records, rec) /\ missed' = 0
      BY <1>6, <2>4 DEF AppendEnds
    <3>2. /\ k \in Nat /\ Len(records') = k + 1 /\ records'[k + 1] = rec
          /\ \A i \in 1 .. k : records'[i] = records[i]
      BY <1>t, <3>1
    <3> HIDE DEF k
    <3>3. \A i \in 1 .. Len(records') : Stamped(records'[i])
      BY <1>0, <2>1, <3>2 DEF RecordsCount, k
    <3>4. ASSUME NEW i \in 1 .. Len(records') - 1
          PROVE  records'[i + 1].window = records'[i].window + records'[i + 1].missed + 1
      <4>1. CASE i = k
        <5>1. records # <<>> /\ records'[i] = records[k] /\ records'[i + 1] = rec
          BY <3>2, <4>1 DEF k
        <5> QED BY <1>t, <2>1, <2>2, <5>1 DEF k
      <4>2. CASE i # k
        <5>1. i \in 1 .. k - 1 /\ i + 1 \in 1 .. k /\ i \in 1 .. k
          BY <3>2, <4>2
        <5> QED BY <1>0, <3>2, <5>1 DEF RecordsCount, k
      <4> QED BY <4>1, <4>2
    <3>5. RecordsCount'
      BY <3>3, <3>4 DEF RecordsCount, Stamped, Late
    <3>6. WindowsCount'
      BY <1>t, <2>1, <3>1, <3>2 DEF WindowsCount
    <3> QED BY <3>5, <3>6
  <2> QED BY <2>3, <2>4
<1>7. CASE Delay
  BY <1>7, <1>q DEF Delay, Taken
<1>8. CASE Tick
  BY <1>8, <1>q DEF Tick, Taken
<1>9. CASE UNCHANGED vars
  BY <1>9, <1>q DEF vars, Taken
<1> QED BY <1>1, <1>2, <1>3, <1>4, <1>5, <1>6, <1>7, <1>8, <1>9 DEF Next

\* The inductive invariant of the main loop.
THEOREM NodeCadence == Spec => [](TypeOK /\ CadenceInv)
<1>1. TypeOK /\ CadenceInv /\ [Next]_vars => TypeOK' /\ CadenceInv'
  <2> SUFFICES ASSUME TypeOK, CadenceInv, [Next]_vars PROVE TypeOK' /\ CadenceInv'
    OBVIOUS
  <2>1. TypeOK'
    BY NodeTypeStep
  <2>2. OnTime'
    BY OnTimeStep DEF CadenceInv
  <2>3. RecordsCount' /\ WindowsCount'
    BY <2>1, CountStep
  <2> QED BY <2>1, <2>2, <2>3 DEF CadenceInv
<1> QED BY <1>1, CadenceInit, PTL DEF Spec

\* main.c:225-226 for every period, length of a second and load that fits: the
\* k-th window is stamped at the end of the k-th period.
THEOREM NodePeriodIsKept == Spec => []PeriodIsKept
<1>1. CadenceInv => PeriodIsKept
  BY DEF CadenceInv, RecordsCount, Stamped, PeriodIsKept
<1> QED BY <1>1, NodeCadence, PTL

\* main.c:125 for every period and load that fits, and however many writes fail in
\* a row: the gap between two records is nearest to as many periods as windows.
THEOREM NodeGapIsVisible == Spec => []GapIsVisible
<1> DEFINE P == STORE_PERIOD_S
           Near(off) == -P < 2 * off /\ 2 * off < P
<1>1. TypeOK /\ CadenceInv => GapIsVisible
  <2> SUFFICES ASSUME TypeOK, CadenceInv PROVE GapIsVisible
    OBVIOUS
  <2> SUFFICES ASSUME NEW i \in 1 .. Len(records) - 1
               PROVE  Near(records[i + 1].ts - records[i].ts - (records[i + 1].missed + 1) * P)
    BY DEF GapIsVisible
  <2> DEFINE a == records[i]
             b == records[i + 1]
             m == b.missed + 1
  <2>1. i \in 1 .. Len(records) /\ i + 1 \in 1 .. Len(records) /\ records \in Seq(Record)
    BY DEF TypeOK
  <2>2. a \in Record /\ b \in Record
    BY <2>1
  <2>3. RecordsCount
    BY DEF CadenceInv
  <2>4. Stamped(a) /\ Stamped(b)
    BY <2>1, <2>3 DEF RecordsCount
  <2>5. b.window = a.window + b.missed + 1
    BY <2>3 DEF RecordsCount
  <2>6. a.ts \in Nat /\ b.ts \in Nat /\ a.window \in Nat /\ b.window \in Nat /\ b.missed \in Nat
    BY <2>2 DEF Record
  <2>7. m \in Nat /\ b.window = a.window + m
    <3>1. \A p, q, u \in Nat : p = q + u + 1 => u + 1 \in Nat /\ p = q + (u + 1)
      OBVIOUS
    <3> HIDE DEF a, b
    <3> QED BY <2>5, <2>6, <3>1
  <2> HIDE DEF a, b, m
  <2>8. P \in Nat /\ Late \in Nat /\ 2 * Late < P
    <3>1. SECOND - 1 + PollMax + StatusMax \in Nat
      BY Times
    <3>2. Late \in Nat
      BY <3>1, Quotient DEF Late
    <3> QED BY <3>2, Times, StampAssumption DEF Late
  <2> DEFINE x == a.window * P
             y == b.window * P
             z == m * P
  <2>9. x \in Nat /\ y \in Nat /\ z \in Nat
    BY <2>6, <2>7, <2>8, Product
  <2>10. y = x + z
    BY <2>6, <2>7, <2>8
  <2>11. a.ts - (x - 1) \in 0 .. Late /\ b.ts - (y - 1) \in 0 .. Late
    BY <2>4 DEF Stamped
  <2> HIDE DEF x, y, z, P
  <2>12. \A p, q, u, n, g, w \in Nat :
           p - (u - 1) \in 0 .. g /\ q - ((u + n) - 1) \in 0 .. g /\ 2 * g < w =>
             -w < 2 * (q - p - n) /\ 2 * (q - p - n) < w
    OBVIOUS
  <2>13. b.ts - ((x + z) - 1) \in 0 .. Late
    BY <2>10, <2>11
  <2>14. Near(b.ts - a.ts - z)
    BY <2>6, <2>8, <2>9, <2>11, <2>12, <2>13
  <2> QED BY <2>14 DEF a, b, m, z
<1> QED BY <1>1, NodeCadence, PTL

=============================================================================
