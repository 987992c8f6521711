-------------------------------- MODULE Node --------------------------------
(***************************************************************************)
(* The main loop of src/main.c and its window_flush: a poll of the air     *)
(* sensor each second, a record per STORE_PERIOD_S, an absolute cadence.   *)
(* The radar thread runs beside it.                                        *)
(*                                                                         *)
(* The accumulators are here what the loop asks of them - did a frame      *)
(* come, did the tracker speak, was there a sample - and store_append is   *)
(* what the loop sees of it: it takes a while, and it may fail.  Their     *)
(* insides are modules Occupancy, AirQuality and Store.                    *)
(*                                                                         *)
(* Time is in units of which SECOND make one, and `now' is counted from    *)
(* the loop's start.  A record is stamped with the node's clock, in whole  *)
(* seconds, whose ticks need not fall on the loop's.  `flushes' counts     *)
(* windows; a record's `missed' those before it that were not written.     *)
(***************************************************************************)
EXTENDS Integers, Sequences

CONSTANTS
  STORE_PERIOD_S,
  SECOND,          \* units of time in a second
  PollMax,         \* sen5x_poll takes this at most,
  StatusMax,       \* the read of the status register this,
  WriteMax,        \* and the flash write this
  Starts,          \* what radar_start and sen5x_start may have returned
  Appends,         \* what store_append may return
  MaxNow           \* bound: uptime

ASSUME PeriodAssumption == STORE_PERIOD_S \in 1 .. 255 /\ SECOND \in Nat \ {0}
ASSUME TimesAssumption  == {PollMax, StatusMax, WriteMax, MaxNow} \subseteq Nat
\* A second leaves time for its poll, and a period for its polls and its write.
ASSUME LoadAssumption ==
  /\ PollMax < SECOND
  /\ STORE_PERIOD_S * PollMax + StatusMax + WriteMax <= STORE_PERIOD_S * SECOND
\* What a stamp can be off by is little, beside a period.
ASSUME StampAssumption ==
  2 * ((SECOND - 1 + PollMax + StatusMax) \div SECOND) < STORE_PERIOD_S
ASSUME ResultsAssumption ==
  Starts \subseteq [radar : BOOLEAN, aq : BOOLEAN] /\ Appends \subseteq BOOLEAN

VARIABLES
  pc,          \* where the loop is
  left,        \* time the present call still takes
  now,         \* k_uptime_get(), less what it was when the loop began
  next_tick, sec,
  started,     \* which sensors' drivers started
  phase,       \* how far into a second of the clock the loop began
  frames,      \* the radar accumulators since the last take
  samples,     \* a good sample since the last take
  rec,         \* the record under way
  records,     \* the records written
  flushes,
  missed       \* windows since the last record that were not written

loop == <<pc, left, now, next_tick, sec>>
boot == <<started, phase>>
vars == <<loop, boot, frames, samples, rec, records, flushes, missed>>

SENSOR_FAULT == "SENSOR_FAULT"
AQ_FAULT     == "AQ_FAULT"
NO_TRACKER   == "NO_TRACKER"
RTC_UNSET    == "RTC_UNSET"

Flags  == SUBSET {SENSOR_FAULT, AQ_FAULT, NO_TRACKER, RTC_UNSET}
Record == [flags : Flags, ts : Nat, window : Nat, missed : Nat]
Frames == SUBSET {"any", "tracker"}

TypeOK ==
  /\ pc \in {"poll", "radar_take", "aq_take", "append", "write", "delay", "sleep"}
  /\ left \in 0 .. PollMax + StatusMax + WriteMax
  /\ now \in Nat /\ next_tick \in Nat
  /\ sec \in 0 .. STORE_PERIOD_S - 1
  /\ started \in [radar : BOOLEAN, aq : BOOLEAN] /\ phase \in 0 .. SECOND - 1
  /\ frames \in Frames /\ samples \in BOOLEAN
  /\ rec \in Record
  /\ records \in Seq(Record)
  /\ flushes \in Nat /\ missed \in Nat

-----------------------------------------------------------------------------
NoRecord == [flags |-> {}, ts |-> 0, window |-> 0, missed |-> 0]

\* main, up to its loop.  No failure keeps it from the loop.
Init ==
  /\ started \in Starts /\ phase \in 0 .. SECOND - 1
  /\ now = 0 /\ next_tick = SECOND /\ sec = 0
  /\ pc = "poll" /\ left \in 0 .. PollMax
  /\ frames = {} /\ samples = FALSE
  /\ rec = NoRecord /\ records = <<>> /\ flushes = 0 /\ missed = 0

\* on_frame, on the radar thread.
on_frame(tracker) ==
  /\ started.radar
  /\ LET seen == IF tracker THEN {"any", "tracker"} ELSE {"any"}
     IN  ~(seen \subseteq frames) /\ frames' = frames \cup seen
  /\ UNCHANGED <<loop, boot, samples, rec, records, flushes, missed>>

PeriodIsOver(s) == s >= STORE_PERIOD_S

sen5x_poll ==
  /\ pc = "poll" /\ left = 0
  /\ samples' \in {samples, samples \/ started.aq}
  /\ IF PeriodIsOver(sec + 1) THEN sec' = 0 /\ pc' = "radar_take"
                              ELSE sec' = sec + 1 /\ pc' = "delay"
  /\ UNCHANGED <<left, now, next_tick, boot, frames, rec, records, flushes, missed>>

-----------------------------------------------------------------------------
(* window_flush.                                                           *)

RadarFlags == (IF "any" \notin frames THEN {SENSOR_FAULT} ELSE {}) \cup
              (IF "tracker" \notin frames THEN {NO_TRACKER} ELSE {})

\* Mutant: a window without a frame is not written.
radar_window_take_DropsDead ==
  /\ pc = "radar_take"
  /\ rec' = [NoRecord EXCEPT !.flags = RadarFlags, !.window = flushes + 1]
  /\ frames' = {}
  /\ flushes' = flushes + 1
  /\ pc' = IF frames = {} THEN "delay" ELSE "aq_take"
  /\ UNCHANGED <<left, now, next_tick, sec, boot, samples, records, missed>>

radar_window_take ==
  /\ pc = "radar_take"
  /\ rec' = [NoRecord EXCEPT !.flags = RadarFlags, !.window = flushes + 1]
  /\ frames' = {}
  /\ flushes' = flushes + 1
  /\ pc' = "aq_take"
  /\ UNCHANGED <<left, now, next_tick, sec, boot, samples, records, missed>>

\* Also dead if the status register tells of a fault.
sen5x_window_take ==
  /\ pc = "aq_take"
  /\ \E statusOk \in BOOLEAN :
       rec' = [rec EXCEPT !.flags = @ \cup {RTC_UNSET} \cup
                 IF samples /\ statusOk THEN {} ELSE {AQ_FAULT}]
  /\ left' \in 0 .. StatusMax
  /\ samples' = FALSE
  /\ pc' = "append"
  /\ UNCHANGED <<now, next_tick, sec, boot, frames, records, flushes, missed>>

\* The clock, but for its seconds at the loop's start.
store_now == (phase + now) \div SECOND

\* store_append stamps the record, then writes it.
AppendBegins ==
  /\ pc = "append" /\ left = 0
  /\ rec' = [rec EXCEPT !.ts = store_now, !.missed = missed]
  /\ left' \in 0 .. WriteMax
  /\ pc' = "write"
  /\ UNCHANGED <<now, next_tick, sec, boot, frames, samples, records, flushes, missed>>

\* A record that cannot be written is reported, and gone.
AppendEnds(ok) ==
  /\ pc = "write" /\ left = 0
  /\ records' = IF ok THEN Append(records, rec) ELSE records
  /\ missed' = IF ok THEN 0 ELSE missed + 1
  /\ pc' = "delay"
  /\ UNCHANGED <<left, now, next_tick, sec, boot, frames, samples, rec, flushes>>

-----------------------------------------------------------------------------
\* Mutant: a second from now, as k_msleep(1000) would have it.
NextTick_FromNow == now + SECOND

NextTick == next_tick + SECOND

\* k_msleep for what is left of the second, if anything is.
Delay ==
  /\ pc = "delay" \/ pc = "sleep"
  /\ IF now < next_tick
       THEN pc = "delay" /\ pc' = "sleep" /\ UNCHANGED <<left, next_tick>>
       ELSE pc' = "poll" /\ next_tick' = NextTick /\ left' \in 0 .. PollMax
  /\ UNCHANGED <<now, sec, boot, frames, samples, rec, records, flushes, missed>>

Tick ==
  /\ now < MaxNow /\ now' = now + 1
  /\ \/ left > 0 /\ left' = left - 1
     \/ left = 0 /\ pc = "sleep" /\ now < next_tick /\ UNCHANGED left
  /\ UNCHANGED <<pc, next_tick, sec, boot, frames, samples, rec, records, flushes, missed>>

Next ==
  \/ \E tracker \in BOOLEAN : on_frame(tracker)
  \/ sen5x_poll \/ radar_window_take \/ sen5x_window_take
  \/ AppendBegins \/ \E ok \in Appends : AppendEnds(ok)
  \/ Delay \/ Tick

Spec == Init /\ [][Next]_vars

-----------------------------------------------------------------------------
(* What is claimed of the records.                                         *)

\* The latest a record is stamped after its second: after its own poll and the
\* read of the status, in whole seconds of the clock.
Late == (SECOND - 1 + PollMax + StatusMax) \div SECOND

\* main.c:225-226 "so a slow NVS write does not stretch the record period": the
\* k-th window is stamped at the end of the k-th period, however many writes
\* were slow: what one was late is made up for before the next stamp.
PeriodIsKept ==
  \A i \in 1 .. Len(records) :
    records[i].ts - (records[i].window * STORE_PERIOD_S - 1) \in 0 .. Late

\* A window that was not written leaves a gap that the receiver can count, a dead
\* sensor's windows among the written ones ("tag it, never drop it",
\* main.c:125): the seconds between two records are nearest to as many periods
\* as there were windows.
GapIsVisible ==
  \A i \in 1 .. Len(records) - 1 :
    LET off == records[i + 1].ts - records[i].ts - (records[i + 1].missed + 1) * STORE_PERIOD_S
    IN  -STORE_PERIOD_S < 2 * off /\ 2 * off < STORE_PERIOD_S

=============================================================================
