----------------------------- MODULE Occupancy -----------------------------
(***************************************************************************)
(* The radar accumulators of src/radar.c: on_frame, on the radar thread,   *)
(* folds each frame in; radar_window_take, on the main thread, hands the   *)
(* window over once per period and starts the next one.  Both hold         *)
(* acc_lock for the whole of their access, so each is one step.            *)
(*                                                                         *)
(* A frame is what its TLVs say: from the tracker with n targets, or from  *)
(* the presence zones with n = 1 for "something moves".  Time is counted   *)
(* in seconds of uptime; frames come at any rate, or stop.                 *)
(* `hist' remembers every frame; it is what the accumulators summarise.    *)
(***************************************************************************)
EXTENDS Integers, Sequences, FiniteSets

CONSTANTS
  STORE_PERIOD_S,      \* length of a window
  RADAR_MAX_TARGETS,   \* most targets decoded from one frame
  DwellMax,            \* UINT16_MAX, what dwell_s saturates at
  Late,                \* how late the main loop may come to a take
  MaxNow,              \* bound: seconds of uptime
  MaxFrames            \* bound: frames in all

\* store.h:21: the period fits occ_s, one byte.
ASSUME PeriodAssumption == STORE_PERIOD_S \in 1 .. 255
ASSUME TargetsAssumption == RADAR_MAX_TARGETS \in 1 .. 255
ASSUME BoundsAssumption ==
  DwellMax \in Nat /\ Late \in Nat /\ MaxNow \in Nat /\ MaxFrames \in Nat

VARIABLES
  acc,        \* the accumulators
  window,     \* the last window handed over
  now,        \* k_uptime_get()
  due,        \* when the window is to be taken, on the loop's cadence
  hist,       \* every frame so far
  taken,      \* how many of them earlier windows hold
  cut         \* how many of them a window without frames has made stale

vars == <<acc, window, now, due, hist, taken, cut>>

Acc == [max_count : 0 .. RADAR_MAX_TARGETS, frames : Nat, occ_frames : Nat,
        any_tracker : BOOLEAN, occ_since : Nat]

Window == [headcount : 0 .. RADAR_MAX_TARGETS, occ_s : 0 .. 255, dwell_s : 0 .. DwellMax,
           alive : BOOLEAN, tracker : BOOLEAN]

Frame == [tracker : BOOLEAN, n : 0 .. RADAR_MAX_TARGETS, at : Nat]

Empty == [max_count |-> 0, frames |-> 0, occ_frames |-> 0,
          any_tracker |-> FALSE, occ_since |-> 0]

NoWindow == [headcount |-> 0, occ_s |-> 0, dwell_s |-> 0, alive |-> FALSE, tracker |-> FALSE]

TypeOK ==
  /\ acc \in Acc
  /\ window \in Window
  /\ now \in Nat \ {0}
  /\ due \in Nat
  /\ hist \in Seq(Frame)
  /\ taken \in Nat
  /\ cut \in Nat

-----------------------------------------------------------------------------
Init ==
  /\ acc = Empty /\ window = NoWindow
  /\ now = 1 /\ due = STORE_PERIOD_S
  /\ hist = <<>> /\ taken = 0 /\ cut = 0

\* Mutant: every occupied frame restarts the clock.
Since_Restarts(n) == IF n > 0 THEN now ELSE 0

\* The occupancy clock: started by an occupied frame, stopped by an empty one.
Since(n) == IF n = 0 THEN 0 ELSE IF acc.occ_since = 0 THEN now ELSE acc.occ_since

MaxCount(n) == IF n > acc.max_count THEN n ELSE acc.max_count

\* Mutant: a frame counts as occupied from the second target on.
Occupied_FromTwo(n) == IF n > 1 THEN 1 ELSE 0

Occupied(n) == IF n > 0 THEN 1 ELSE 0

TrackerSeen(tracker) == acc.any_tracker \/ tracker

on_frame(tracker, n) ==
  /\ Len(hist) < MaxFrames
  /\ n > 1 => tracker
  /\ acc' = [max_count |-> MaxCount(n),
             frames |-> acc.frames + 1,
             occ_frames |-> acc.occ_frames + Occupied(n),
             any_tracker |-> TrackerSeen(tracker),
             occ_since |-> Since(n)]
  /\ hist' = Append(hist, [tracker |-> tracker, n |-> n, at |-> now])
  /\ UNCHANGED <<window, now, due, taken, cut>>

\* Mutant: the occupied frames are not scaled to the window.
OccS_Unscaled == acc.occ_frames % 256

\* The share of frames that were occupied, scaled to the window; uint8_t.
OccS == IF acc.frames = 0 THEN 0
        ELSE ((acc.occ_frames * STORE_PERIOD_S) \div acc.frames) % 256

\* Mutant: the clock runs on without a sensor.
SinceAtTake_RunsOn == acc.occ_since

\* A window without a frame stops the occupancy clock.
SinceAtTake == IF acc.frames > 0 THEN acc.occ_since ELSE 0

\* Mutant: the seconds go into the window as they are.
Dwell_Unclamped(since) == IF since = 0 THEN 0 ELSE now - since

Dwell(since) ==
  LET held == IF since = 0 THEN 0 ELSE now - since
  IN  IF held > DwellMax THEN DwellMax ELSE held

\* The main loop keeps an absolute cadence (main.c:225-243): a take that comes
\* late does not move the next one, and the window between them is shorter.
radar_window_take ==
  /\ now >= due
  /\ window' = [headcount |-> acc.max_count,
                occ_s |-> OccS,
                dwell_s |-> Dwell(SinceAtTake),
                alive |-> acc.frames > 0,
                tracker |-> acc.any_tracker]
  /\ acc' = [Empty EXCEPT !.occ_since = SinceAtTake]
  /\ due' = due + STORE_PERIOD_S
  /\ taken' = Len(hist)
  /\ cut' = IF acc.frames = 0 THEN Len(hist) ELSE cut
  /\ UNCHANGED <<now, hist>>

\* The main loop's k_msleep up to the next tick.
Tick ==
  /\ now < MaxNow
  /\ now < due + Late
  /\ now' = now + 1
  /\ UNCHANGED <<acc, window, due, hist, taken, cut>>

Next ==
  \/ \E tracker \in BOOLEAN, n \in 0 .. RADAR_MAX_TARGETS : on_frame(tracker, n)
  \/ radar_window_take
  \/ Tick

Spec == Init /\ [][Next]_vars

-----------------------------------------------------------------------------
(* What is claimed of a window.                                            *)

Current == {i \in 1 .. Len(hist) : i > taken}
OccupiedFrames == {i \in Current : hist[i].n > 0}

\* Every frame is in exactly one window: what has been accumulated is a
\* function of the frames since the last take and of nothing else - how many
\* they are, how many of them were occupied, their greatest count, and whether
\* the tracker spoke in one.
AccSummarisesFrames ==
  /\ acc.frames = Len(hist) - taken
  /\ acc.occ_frames = Cardinality(OccupiedFrames)
  /\ \A i \in Current : hist[i].n <= acc.max_count
  /\ acc.max_count > 0 => \E i \in Current : hist[i].n = acc.max_count
  /\ acc.any_tracker <=> \E i \in Current : hist[i].tracker

\* radar.h:16 of the tracker flag: "headcount came from the tracker, not
\* presence".  The count of a window that carries the flag, were it taken now,
\* is that of one of its frames with a target list.  Not claimed: a window that
\* mixes frames with and without a list refutes it.
FlaggedCountIsTrackers ==
  acc.any_tracker =>
    \E i \in Current : hist[i].tracker /\ hist[i].n = acc.max_count

\* The occupied frames, without an empty one after them, on which the clock
\* rests.
Run == {i \in 1 .. Len(hist) : i > cut /\ \A j \in i .. Len(hist) : hist[j].n > 0}

\* radar.h:14: dwell is unbroken occupancy.  The clock shows the first frame of
\* the run of occupied frames that reaches up to now, across windows, and is
\* stopped without one.
DwellIsUnbroken ==
  IF Run = {} THEN acc.occ_since = 0
              ELSE \E i \in Run : /\ acc.occ_since = hist[i].at
                                  /\ \A j \in Run : i <= j

\* radar.c:200-208, the bench fault "headcount 0, occupied 0 s, dwell 201 s":
\* a window that reports dwell reports someone, from frames of its own.
DwellMeansSomeone == window.dwell_s > 0 => window.alive /\ window.headcount > 0

\* store.h:21 "occ_s is one byte of the window, and dwell_s is a u16": a share of
\* the frames is a share of the period, however many frames came, and the dwell
\* saturates, so that neither cast cuts anything off.
SecondsFit == window.occ_s <= STORE_PERIOD_S /\ window.dwell_s <= DwellMax

=============================================================================
