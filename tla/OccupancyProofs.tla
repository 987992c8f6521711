--------------------------- MODULE OccupancyProofs ---------------------------
(* Theorems about Occupancy, for every period, frame rate and bound.       *)
EXTENDS Occupancy, SequenceTheorems, FiniteSetTheorems, TLAPS

-----------------------------------------------------------------------------
(* Arithmetic.                                                             *)

\* A share of at most all is at most the whole, when it is scaled (radar.c:196).
LEMMA ShareFits ==
  ASSUME NEW k \in Nat, NEW n \in Nat \ {0}, k <= n, NEW p \in Nat
  PROVE  (k * p) \div n \in 0 .. p
<1> DEFINE q == (k * p) \div n
           r == (k * p) % n
<1>1. k * p \in Nat /\ k * p <= n * p
  <2>1. PICK d \in Nat : n = k + d
    <3>1. n - k \in Nat /\ n = k + (n - k)
      OBVIOUS
    <3> QED BY <3>1
  <2>2. n * p = k * p + d * p /\ d * p \in Nat /\ k * p \in Nat
    BY <2>1
  <2> QED BY <2>2
<1>2. q \in Int /\ r \in 0 .. n - 1 /\ k * p = n * q + r
  BY <1>1
<1> HIDE DEF q, r
<1>3. q >= 0
  <2> SUFFICES ASSUME q <= -1 PROVE FALSE
    BY <1>2
  <2>1. n * q <= -n
    BY <1>2
  <2> QED BY <1>1, <1>2, <2>1
<1>4. q <= p
  <2> SUFFICES ASSUME q >= p + 1 PROVE FALSE
    BY <1>2
  <2>1. n * q >= n * p + n
    BY <1>2
  <2>2. n * p \in Int
    OBVIOUS
  <2>3. n * q \in Int
    BY <1>2
  <2> QED BY <1>1, <1>2, <2>1, <2>2, <2>3
<1> QED BY <1>2, <1>3, <1>4 DEF q

-----------------------------------------------------------------------------
(* The invariant.                                                          *)

\* The accumulators and the clock, beside their types: no more frames were
\* occupied than there were, and the clock was started by a frame of the past.
\* Once it runs and frames have come, one of them was occupied.
ClockInv ==
  /\ acc.occ_frames <= acc.frames
  /\ acc.occ_since <= now
  /\ acc.frames > 0 /\ acc.occ_since > 0 => acc.max_count > 0

OccInv == TypeOK /\ ClockInv /\ SecondsFit /\ DwellMeansSomeone

LEMMA OccInit == Init => OccInv
BY PeriodAssumption, TargetsAssumption, BoundsAssumption
   DEF Init, OccInv, TypeOK, ClockInv, SecondsFit, DwellMeansSomeone, Empty, NoWindow,
       Acc, Window

\* No step spoils the types or the clock.
LEMMA OccStep == OccInv /\ [Next]_vars => OccInv'
<1> SUFFICES ASSUME OccInv, [Next]_vars PROVE OccInv'
  OBVIOUS
<1> USE DEF OccInv, ClockInv
<1>0. /\ acc \in Acc /\ window \in Window /\ now \in Nat \ {0} /\ due \in Nat
      /\ hist \in Seq(Frame) /\ taken \in Nat /\ cut \in Nat
  BY DEF TypeOK
<1>1. ASSUME NEW tracker \in BOOLEAN, NEW n \in 0 .. RADAR_MAX_TARGETS, on_frame(tracker, n)
      PROVE  OccInv'
  <2>1. UNCHANGED <<window, now, due, taken, cut>>
    BY <1>1 DEF on_frame
  <2>2. /\ MaxCount(n) \in 0 .. RADAR_MAX_TARGETS /\ (n > 0 => MaxCount(n) > 0)
        /\ Since(n) \in Nat /\ Since(n) <= now /\ (n = 0 => Since(n) = 0)
        /\ TrackerSeen(tracker) \in BOOLEAN
    BY <1>0, TargetsAssumption DEF MaxCount, Since, TrackerSeen, Acc
  <2>3. /\ acc' \in Acc /\ ClockInv'
    BY <1>0, <1>1, <2>1, <2>2 DEF on_frame, Acc, Occupied
  <2>4. hist' \in Seq(Frame)
    <3>1. [tracker |-> tracker, n |-> n, at |-> now] \in Frame
      BY <1>0 DEF Frame
    <3> QED BY <1>0, <1>1, <3>1 DEF on_frame
  <2>5. TypeOK'
    BY <1>0, <2>1, <2>3, <2>4 DEF TypeOK
  <2> QED BY <2>1, <2>3, <2>5 DEF SecondsFit, DwellMeansSomeone
<1>2. CASE radar_window_take
  <2>1. OccS \in 0 .. STORE_PERIOD_S /\ OccS \in 0 .. 255
    <3>1. CASE acc.frames = 0
      BY <3>1, PeriodAssumption DEF OccS
    <3>2. CASE acc.frames # 0
      <4>1. (acc.occ_frames * STORE_PERIOD_S) \div acc.frames \in 0 .. STORE_PERIOD_S
        <5>1. /\ acc.occ_frames \in Nat /\ acc.frames \in Nat \ {0}
              /\ acc.occ_frames <= acc.frames /\ STORE_PERIOD_S \in Nat
          BY <1>0, <3>2, PeriodAssumption DEF Acc
        <5> QED BY <5>1, ShareFits
      <4> QED BY <3>2, <4>1, PeriodAssumption DEF OccS
    <3> QED BY <3>1, <3>2
  <2>2. /\ SinceAtTake \in Nat /\ SinceAtTake <= now
        /\ (SinceAtTake > 0 => acc.frames > 0 /\ acc.max_count > 0)
    BY <1>0 DEF SinceAtTake, Acc
  <2>3. /\ Dwell(SinceAtTake) \in 0 .. DwellMax
        /\ (Dwell(SinceAtTake) > 0 => SinceAtTake > 0)
    BY <1>0, <2>2, BoundsAssumption DEF Dwell
  <2>4. /\ window'.headcount = acc.max_count /\ window'.occ_s = OccS
        /\ window'.dwell_s = Dwell(SinceAtTake) /\ window'.alive = (acc.frames > 0)
        /\ window' \in Window
    BY <1>0, <1>2, <2>1, <2>3 DEF radar_window_take, Window, Acc
  <2>5. acc' \in Acc /\ ClockInv'
    <3>1. acc' = [max_count |-> 0, frames |-> 0, occ_frames |-> 0, any_tracker |-> FALSE,
                  occ_since |-> SinceAtTake]
      BY <1>2 DEF radar_window_take, Empty
    <3>2. acc' \in Acc
      BY <2>2, <3>1, TargetsAssumption DEF Acc
    <3>3. now' = now
      BY <1>2 DEF radar_window_take
    <3> QED BY <2>2, <3>1, <3>2, <3>3
  <2>6. UNCHANGED <<now, hist>> /\ due' \in Nat /\ taken' \in Nat /\ cut' \in Nat
    <3>1. due + STORE_PERIOD_S \in Nat
      BY <1>0, PeriodAssumption
    <3>2. Len(hist) \in Nat
      BY <1>0
    <3> QED BY <1>0, <1>2, <3>1, <3>2 DEF radar_window_take
  <2>7. TypeOK'
    BY <1>0, <2>4, <2>5, <2>6 DEF TypeOK
  <2>8. SecondsFit'
    BY <2>1, <2>3, <2>4, PeriodAssumption, BoundsAssumption DEF SecondsFit
  <2>9. DwellMeansSomeone'
    BY <2>2, <2>3, <2>4 DEF DwellMeansSomeone
  <2> QED BY <2>5, <2>7, <2>8, <2>9
<1>3. CASE Tick
  <2>1. now' \in Nat \ {0} /\ now' > now
    BY <1>0, <1>3 DEF Tick
  <2>2. UNCHANGED <<acc, window, due, hist, taken, cut>>
    BY <1>3 DEF Tick
  <2>3. TypeOK' /\ ClockInv'
    BY <1>0, <2>1, <2>2 DEF TypeOK, Acc
  <2> QED BY <2>2, <2>3 DEF SecondsFit, DwellMeansSomeone
<1>4. CASE UNCHANGED vars
  BY <1>4 DEF vars, TypeOK, SecondsFit, DwellMeansSomeone
<1> QED BY <1>1, <1>2, <1>3, <1>4 DEF Next

LEMMA OccInvariant == Spec => []OccInv
BY OccInit, OccStep, PTL DEF Spec

-----------------------------------------------------------------------------
(* The accumulators and the frames.                                        *)

\* The accumulators hold the frames after the `taken' ones.
SumInv == taken \in 0 .. Len(hist) /\ AccSummarisesFrames

LEMMA SumInit == Init => SumInv
<1> SUFFICES ASSUME Init PROVE SumInv
  OBVIOUS
<1>1. Current = {} /\ OccupiedFrames = {}
  BY DEF Init, Current, OccupiedFrames
<1>2. Cardinality(OccupiedFrames) = 0
  BY <1>1, FS_EmptySet
<1> QED BY <1>1, <1>2 DEF Init, SumInv, AccSummarisesFrames, Empty

\* A frame is added to what is summarised, a take empties it.
LEMMA SumStep == OccInv /\ SumInv /\ [Next]_vars => SumInv'
<1> SUFFICES ASSUME OccInv, SumInv, [Next]_vars PROVE SumInv'
  OBVIOUS
<1>0. /\ acc \in Acc /\ hist \in Seq(Frame) /\ taken \in 0 .. Len(hist)
  BY DEF OccInv, TypeOK, SumInv
<1>1. ASSUME NEW tracker \in BOOLEAN, NEW n \in 0 .. RADAR_MAX_TARGETS, on_frame(tracker, n)
      PROVE  SumInv'
  <2> DEFINE f == [tracker |-> tracker, n |-> n, at |-> now]
             k == Len(hist) + 1
  <2>1. f \in Frame /\ taken' = taken /\ hist' = Append(hist, f) /\ k \in Nat
    BY <1>0, <1>1 DEF on_frame, Frame, OccInv, TypeOK
  <2>2. /\ Len(hist') = k /\ hist'[k] = f
        /\ \A i \in 1 .. Len(hist) : hist'[i] = hist[i]
    BY <1>0, <2>1
  <2>3. Current' = Current \cup {k} /\ Current \subseteq 1 .. Len(hist)
    BY <1>0, <2>1, <2>2 DEF Current
  <2>4. /\ \A i \in Current : hist'[i] = hist[i] /\ hist[i].n \in 0 .. RADAR_MAX_TARGETS
        /\ \A i \in Current : hist[i].tracker \in BOOLEAN
    <3>1. \A i \in Current : hist[i] \in Frame
      BY <1>0, <2>3
    <3> QED BY <2>2, <2>3, <3>1 DEF Frame
  <2>5. f.n = n /\ f.tracker = tracker
    OBVIOUS
  <2> HIDE DEF f, k
  <2>6. /\ acc'.max_count = MaxCount(n) /\ acc'.frames = acc.frames + 1
        /\ acc'.occ_frames = acc.occ_frames + IF n > 0 THEN 1 ELSE 0
        /\ acc'.any_tracker = TrackerSeen(tracker)
    BY <1>1 DEF on_frame, Occupied
  <2>7. /\ acc.max_count \in 0 .. RADAR_MAX_TARGETS /\ acc.frames \in Nat
        /\ acc.occ_frames \in Nat /\ acc.any_tracker \in BOOLEAN
    BY <1>0 DEF Acc
  <2>8. /\ acc.frames = Len(hist) - taken
        /\ acc.occ_frames = Cardinality(OccupiedFrames)
        /\ \A i \in Current : hist[i].n <= acc.max_count
        /\ acc.max_count > 0 => \E i \in Current : hist[i].n = acc.max_count
        /\ acc.any_tracker <=> \E i \in Current : hist[i].tracker
    BY DEF SumInv, AccSummarisesFrames
  <2>9. taken' \in 0 .. Len(hist')
    BY <1>0, <2>1, <2>2 DEF k
  <2>10. (acc.frames = Len(hist) - taken)'
    BY <1>0, <2>1, <2>2, <2>6, <2>8 DEF k
  <2>11. \A i \in Current' : hist'[i].n <= acc'.max_count
    <3>1. \A i \in Current : hist[i].n <= acc.max_count
      BY <2>8
    <3> QED BY <2>2, <2>3, <2>4, <2>5, <2>6, <2>7, <3>1, TargetsAssumption DEF MaxCount
  <2>12. acc'.max_count > 0 => \E i \in Current' : hist'[i].n = acc'.max_count
    <3>1. CASE n > acc.max_count
      BY <2>2, <2>3, <2>5, <2>6, <3>1 DEF MaxCount
    <3>2. CASE ~(n > acc.max_count)
      <4>1. acc'.max_count = acc.max_count
        BY <2>6, <3>2 DEF MaxCount
      <4>2. ASSUME acc.max_count > 0
            PROVE  \E i \in Current' : hist'[i].n = acc.max_count
        <5>1. PICK i \in Current : hist[i].n = acc.max_count
          BY <2>8, <4>2
        <5> QED BY <2>3, <2>4, <5>1
      <4> QED BY <4>1, <4>2
    <3> QED BY <3>1, <3>2
  <2>13. acc'.occ_frames = Cardinality(OccupiedFrames')
    <3>1. acc.occ_frames = Cardinality(OccupiedFrames)
      BY <2>8
    <3>2. OccupiedFrames' = IF n > 0 THEN OccupiedFrames \cup {k} ELSE OccupiedFrames
      BY <2>2, <2>3, <2>4, <2>5 DEF OccupiedFrames
    <3>3. IsFiniteSet(OccupiedFrames) /\ k \notin OccupiedFrames
      <4>1. IsFiniteSet(1 .. Len(hist)) /\ OccupiedFrames \subseteq 1 .. Len(hist)
        <5>1. Len(hist) \in Int /\ 1 \in Int
          BY <1>0
        <5>2. IsFiniteSet(1 .. Len(hist))
          BY <5>1, FS_Interval
        <5> QED BY <2>3, <5>2 DEF OccupiedFrames
      <4>2. k \notin 1 .. Len(hist)
        BY <1>0 DEF k
      <4> QED BY <4>1, <4>2, FS_Subset
    <3>4. Cardinality(OccupiedFrames \cup {k}) = Cardinality(OccupiedFrames) + 1
      BY <3>3, FS_AddElement
    <3>5. CASE n > 0
      BY <2>6, <3>1, <3>2, <3>4, <3>5
    <3>6. CASE ~(n > 0)
      BY <2>6, <2>7, <3>1, <3>2, <3>6
    <3> QED BY <3>5, <3>6
  <2>14. acc'.any_tracker <=> \E i \in Current' : hist'[i].tracker
    BY <2>2, <2>3, <2>4, <2>5, <2>6, <2>7, <2>8 DEF TrackerSeen
  <2> QED BY <2>9, <2>10, <2>11, <2>12, <2>13, <2>14 DEF SumInv, AccSummarisesFrames
<1>2. CASE radar_window_take
  <2>1. Len(hist) \in Nat /\ hist' = hist /\ taken' = Len(hist) /\ Current' = {}
    BY <1>0, <1>2 DEF radar_window_take, Current
  <2>2. /\ acc'.max_count = 0 /\ acc'.frames = 0 /\ acc'.occ_frames = 0
        /\ acc'.any_tracker = FALSE
    BY <1>2 DEF radar_window_take, Empty
  <2>3. OccupiedFrames' = {} /\ Cardinality(OccupiedFrames') = 0
    BY <2>1, FS_EmptySet DEF OccupiedFrames
  <2> QED BY <2>1, <2>2, <2>3 DEF SumInv, AccSummarisesFrames
<1>3. CASE UNCHANGED <<acc, hist, taken>>
  BY <1>3 DEF SumInv, AccSummarisesFrames, Current, OccupiedFrames
<1> QED BY <1>1, <1>2, <1>3 DEF Next, Tick, vars

-----------------------------------------------------------------------------
(* The clock and the frames.                                               *)

\* The clock rests on the frames after the `cut' ones.
RunInv ==
  /\ cut \in 0 .. Len(hist)
  /\ \A i \in 1 .. Len(hist) : hist[i].at > 0
  /\ DwellIsUnbroken

LEMMA RunInit == Init => RunInv
BY DEF Init, RunInv, DwellIsUnbroken, Run, Empty

\* An occupied frame prolongs the run; an empty one, or none in a window, ends it.
LEMMA RunStep == TypeOK /\ RunInv /\ [Next]_vars => RunInv'
<1> SUFFICES ASSUME TypeOK, RunInv, [Next]_vars PROVE RunInv'
  OBVIOUS
<1>0. /\ acc \in Acc /\ hist \in Seq(Frame) /\ cut \in 0 .. Len(hist) /\ now \in Nat \ {0}
      /\ \A i \in 1 .. Len(hist) : hist[i] \in Frame /\ hist[i].at > 0
      /\ Run \subseteq 1 .. Len(hist)
  BY DEF TypeOK, RunInv, Run
<1>1. ASSUME NEW tracker \in BOOLEAN, NEW n \in 0 .. RADAR_MAX_TARGETS, on_frame(tracker, n)
      PROVE  RunInv'
  <2> DEFINE f == [tracker |-> tracker, n |-> n, at |-> now]
             k == Len(hist) + 1
  <2>1. f \in Frame /\ cut' = cut /\ hist' = Append(hist, f) /\ k \in Nat
    BY <1>0, <1>1 DEF on_frame, Frame
  <2>2. /\ Len(hist') = k /\ hist'[k] = f
        /\ \A i \in 1 .. Len(hist) : hist'[i] = hist[i]
    BY <1>0, <2>1
  <2>3. f.n = n /\ f.at = now
    OBVIOUS
  <2>4. acc'.occ_since = Since(n)
    BY <1>1 DEF on_frame
  <2>5. 1 .. k = 1 .. Len(hist) \cup {k} /\ k > cut /\ k \notin 1 .. Len(hist)
    BY <1>0
  <2> HIDE DEF f, k
  <2>6. cut' \in 0 .. Len(hist') /\ \A i \in 1 .. Len(hist') : hist'[i].at > 0
    BY <1>0, <2>1, <2>2, <2>3, <2>5 DEF k
  <2>7. CASE n = 0
    <3>1. Run' = {}
      BY <2>1, <2>2, <2>3, <2>7 DEF Run
    <3>2. acc'.occ_since = 0
      BY <2>4, <2>7 DEF Since
    <3> QED BY <2>6, <3>1, <3>2 DEF RunInv, DwellIsUnbroken
  <2>8. CASE n # 0
    <3>1. \A i \in 1 .. Len(hist) :
            (\A j \in i .. k : hist'[j].n > 0) <=> (\A j \in i .. Len(hist) : hist[j].n > 0)
      BY <1>0, <2>2, <2>3, <2>8 DEF k
    <3>2. \A j \in k .. k : hist'[j].n > 0
      BY <2>1, <2>2, <2>3, <2>8
    <3>3. Run' = Run \cup {k}
      BY <2>1, <2>2, <2>5, <3>1, <3>2 DEF Run
    <3>4. CASE Run = {}
      <4>1. acc.occ_since = 0
        BY <3>4 DEF RunInv, DwellIsUnbroken
      <4>2. acc'.occ_since = hist'[k].at
        BY <2>2, <2>3, <2>4, <2>8, <4>1 DEF Since
      <4> QED BY <2>1, <2>6, <3>3, <3>4, <4>2 DEF RunInv, DwellIsUnbroken
    <3>5. CASE Run # {}
      <4>1. PICK i \in Run : acc.occ_since = hist[i].at /\ \A j \in Run : i <= j
        BY <3>5 DEF RunInv, DwellIsUnbroken
      <4>2. acc'.occ_since = hist'[i].at
        BY <1>0, <2>2, <2>4, <2>8, <4>1 DEF Since
      <4>3. i \in Run' /\ \A j \in Run' : i <= j
        BY <1>0, <3>3, <4>1 DEF k
      <4> QED BY <2>6, <4>2, <4>3 DEF RunInv, DwellIsUnbroken
    <3> QED BY <3>4, <3>5
  <2> QED BY <2>7, <2>8
<1>2. CASE radar_window_take
  <2>1. hist' = hist /\ acc'.occ_since = SinceAtTake
        /\ cut' = IF acc.frames = 0 THEN Len(hist) ELSE cut
    BY <1>2 DEF radar_window_take, Empty
  <2>2. CASE acc.frames = 0
    <3>1. Run' = {} /\ acc'.occ_since = 0
      BY <1>0, <2>1, <2>2 DEF Run, SinceAtTake
    <3> QED BY <1>0, <2>1, <2>2, <3>1 DEF RunInv, DwellIsUnbroken
  <2>3. CASE acc.frames # 0
    <3>1. acc'.occ_since = acc.occ_since /\ cut' = cut
      BY <1>0, <2>1, <2>3 DEF SinceAtTake, Acc
    <3> QED BY <2>1, <3>1 DEF RunInv, DwellIsUnbroken, Run
  <2> QED BY <2>2, <2>3
<1>3. CASE UNCHANGED <<acc, hist, cut>>
  BY <1>3 DEF RunInv, DwellIsUnbroken, Run
<1> QED BY <1>1, <1>2, <1>3 DEF Next, Tick, vars

-----------------------------------------------------------------------------
\* radar.c:185-224: no accumulator and no window leaves its type.
THEOREM OccTypeCorrect == Spec => []TypeOK
<1>1. OccInv => TypeOK
  BY DEF OccInv
<1> QED BY <1>1, OccInvariant, PTL

\* store.h:21 with radar.c:196: whatever the frame rate, the seconds of a
\* window fit the period, so the byte they are stored in loses none.
THEOREM OccSecondsFit == Spec => []SecondsFit
<1>1. OccInv => SecondsFit
  BY DEF OccInv
<1> QED BY <1>1, OccInvariant, PTL

\* radar.c:200-208, for every period and frame rate: a window that reports
\* dwell reports someone.
THEOREM DwellIsSomeones == Spec => []DwellMeansSomeone
<1>1. OccInv => DwellMeansSomeone
  BY DEF OccInv
<1> QED BY <1>1, OccInvariant, PTL

\* radar.h:14, for every sequence of frames and takes: the clock shows the first
\* frame of the unbroken run of occupied ones.
THEOREM DwellOfUnbrokenRun == Spec => []DwellIsUnbroken
<1>1. RunInv => DwellIsUnbroken
  BY DEF RunInv
<1> QED BY <1>1, OccTypeCorrect, RunInit, RunStep, PTL DEF Spec

\* radar.c:419-467 with radar.c:185-224: every frame is in exactly one window,
\* for every sequence of frames and takes.
THEOREM AccIsOfItsFrames == Spec => []AccSummarisesFrames
<1>1. SumInv => AccSummarisesFrames
  BY DEF SumInv
<1> QED BY <1>1, OccInvariant, SumInit, SumStep, PTL DEF Spec
=============================================================================
