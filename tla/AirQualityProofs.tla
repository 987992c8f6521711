-------------------------- MODULE AirQualityProofs --------------------------
(* Theorems about AirQuality, for every set of samples and number of them. *)
EXTENDS AirQuality, SequenceTheorems, TLAPS

-----------------------------------------------------------------------------
(* Words.                                                                  *)

\* All that is used of the two limits.
LEMMA Limits == INT16_MAX \in Nat /\ UINT16_MAX = 2 * INT16_MAX + 1
BY DEF INT16_MAX, UINT16_MAX

\* (int16_t) of a word (sen5x.c:179-185).
LEMMA SignedIsInt ==
  ASSUME NEW w \in Word
  PROVE  Signed(w) \in Int16
BY Limits DEF Word, Int16, Signed

\* C's division by 2: near the half, and never across zero (sen5x.c:182).
LEMMA HalfIsNear ==
  ASSUME NEW v \in Int16
  PROVE  /\ Half(v) \in Int16
         /\ v - 2 * Half(v) \in {-1, 0, 1}
         /\ Half(v) * v >= 0
<1> DEFINE h == Half(v)
<1>0. v \in Int
  BY Limits DEF Int16
<1>1. /\ h \in Int16 /\ v - 2 * h \in {-1, 0, 1}
      /\ (v >= 0 => h >= 0) /\ (v <= 0 => h <= 0)
  <2>1. CASE v < 0
    <3>1. /\ (-v) \div 2 \in Nat /\ -v - 2 * ((-v) \div 2) \in {0, 1}
      BY <1>0, <2>1
    <3> QED BY <1>0, <2>1, <3>1, Limits DEF Half, Int16
  <2>2. CASE ~(v < 0)
    <3>1. /\ v \div 2 \in Nat /\ v - 2 * (v \div 2) \in {0, 1}
      BY <1>0, <2>2
    <3> QED BY <1>0, <2>2, <3>1, Limits DEF Half, Int16
  <2> QED BY <2>1, <2>2
<1> HIDE DEF h
<1>2. h * v >= 0
  <2>0. h \in Int
    BY <1>1, Limits DEF Int16
  <2>1. CASE v >= 0
    BY <1>0, <1>1, <2>0, <2>1
  <2>2. CASE v <= 0
    BY <1>0, <1>1, <2>0, <2>2
  <2> QED BY <1>0, <2>1, <2>2
<1> QED BY <1>1, <1>2 DEF h

-----------------------------------------------------------------------------
(* A good read.                                                            *)

\* What one more sample makes of the samples measured of a field.
LEMMA OneMore ==
  ASSUME samples \in Seq(Samples), NEW s \in Samples, samples' = Append(samples, s),
         NEW f \in Fields
  PROVE  /\ \A i \in 1 .. Len(samples) : samples'[i] = samples[i]
         /\ samples'[Len(samples) + 1] = s
         /\ Measured(f) \subseteq 1 .. Len(samples)
         /\ Measured(f)' = IF s[f] = NotMeasured THEN Measured(f)
                           ELSE Measured(f) \cup {Len(samples) + 1}
         /\ s[f] \in Word
         /\ \A i \in 1 .. Len(samples) : samples[i][f] \in Word
<1>1. /\ Len(samples) \in Nat /\ Len(samples') = Len(samples) + 1
      /\ \A i \in 1 .. Len(samples) : samples'[i] = samples[i]
      /\ samples'[Len(samples) + 1] = s
  OBVIOUS
<1>2. Measured(f) \subseteq 1 .. Len(samples)
  BY DEF Measured
<1>3. Measured(f)' = IF s[f] = NotMeasured THEN Measured(f)
                     ELSE Measured(f) \cup {Len(samples) + 1}
  BY <1>1 DEF Measured
<1>4. s[f] \in Word /\ \A i \in 1 .. Len(samples) : samples[i][f] \in Word
  BY SamplesAssumption
<1> QED BY <1>1, <1>2, <1>3, <1>4

\* What a good read hands on is what the sensor sent.
LEMMA GoodRead ==
  ASSUME NEW s \in Samples, NEW garbled \in SUBSET Fields, sen5x_poll(s, garbled)
  PROVE  /\ samples' = Append(samples, s)
         /\ acc' = [pm25 |-> Peak(acc.pm25, s["pm25"]),
                    pm10 |-> Peak(acc.pm10, s["pm10"]),
                    rh   |-> Latest(acc.rh, s["rh"], Signed(s["rh"])),
                    temp |-> Latest(acc.temp, s["temp"], Temp(s["temp"])),
                    voc  |-> Latest(acc.voc, s["voc"], Signed(s["voc"])),
                    alive |-> TRUE]
<1>1. garbled = {}
  BY DEF sen5x_poll, read_words
<1>2. \A f \in Fields : Received(s, garbled)[f] = s[f]
  BY <1>1 DEF Received
<1> QED BY <1>2 DEF sen5x_poll, Fields, PmFields, LastFields

\* PM: the peak of a field whose accumulator is held and whose word is w.
PeakOf(f, held) ==
  IF Measured(f) = {} THEN held = SEN5X_UNKNOWN_U
  ELSE /\ \E i \in Measured(f) : held = samples[i][f]
       /\ \A i \in Measured(f) : samples[i][f] <= held

\* One more sample, and the accumulator it makes.
LEMMA PeakStep ==
  ASSUME samples \in Seq(Samples), NEW s \in Samples, samples' = Append(samples, s),
         NEW f \in Fields, NEW held \in Word, NEW heldNext,
         PeakOf(f, held), heldNext = Peak(held, s[f])
  PROVE  PeakOf(f, heldNext)'
<1> DEFINE k == Len(samples) + 1
<1>1. /\ \A i \in 1 .. Len(samples) : samples'[i] = samples[i]
      /\ samples'[k] = s
      /\ Measured(f) \subseteq 1 .. Len(samples)
      /\ Measured(f)' = IF s[f] = NotMeasured THEN Measured(f) ELSE Measured(f) \cup {k}
      /\ s[f] \in Word
      /\ \A i \in Measured(f) : samples[i][f] \in Word
      /\ \A i \in Measured(f) : samples[i][f] # NotMeasured
  BY OneMore DEF Measured
<1>4. held \in Int /\ s[f] \in Int /\ \A i \in Measured(f) : samples[i][f] \in Int
  BY <1>1, Limits DEF Word
<1> HIDE DEF k
<1>2. CASE s[f] = NotMeasured
  <2>1. heldNext = held /\ Measured(f)' = Measured(f)
    BY <1>1, <1>2 DEF Peak
  <2>2. \A i \in Measured(f) : samples'[i][f] = samples[i][f]
    BY <1>1
  <2> QED BY <2>1, <2>2 DEF PeakOf
<1>3. CASE s[f] # NotMeasured
  <2>1. Measured(f)' = Measured(f) \cup {k} /\ samples'[k][f] = s[f]
    BY <1>1, <1>3
  <2>2. \A i \in Measured(f) : samples'[i][f] = samples[i][f]
    BY <1>1
  <2>3. /\ heldNext \in Int
        /\ heldNext = s[f] \/ (\E i \in Measured(f) : heldNext = samples[i][f])
        /\ s[f] <= heldNext
        /\ \A i \in Measured(f) : samples[i][f] <= heldNext
    <3>1. CASE Measured(f) = {}
      <4>1. heldNext = s[f]
        BY <1>3, <3>1 DEF Peak, PeakOf
      <4> QED BY <1>4, <3>1, <4>1
    <3>2. CASE Measured(f) # {}
      <4>1. /\ \E i \in Measured(f) : held = samples[i][f]
            /\ \A i \in Measured(f) : samples[i][f] <= held
            /\ held # SEN5X_UNKNOWN_U
        BY <1>1, <3>2 DEF PeakOf, SEN5X_UNKNOWN_U, NotMeasured
      <4>2. heldNext = IF s[f] > held THEN s[f] ELSE held
        BY <1>3, <4>1 DEF Peak
      <4> QED BY <1>4, <4>1, <4>2
    <3> QED BY <3>1, <3>2
  <2>4. \A i \in Measured(f)' : samples'[i][f] <= heldNext
    BY <2>1, <2>2, <2>3
  <2>5. \E i \in Measured(f)' : heldNext = samples'[i][f]
    BY <2>1, <2>2, <2>3
  <2> QED BY <2>4, <2>5 DEF PeakOf
<1> QED BY <1>2, <1>3

-----------------------------------------------------------------------------
(* Types, and PM.                                                          *)

\* acc_reset (sen5x.c:93-101).
LEMMA UnknownType == Unknown \in Window
BY Limits DEF Unknown, Window, Word, Int16, SEN5X_UNKNOWN_U, SEN5X_UNKNOWN_S

LEMMA AirInit == Init => TypeOK /\ PmIsWindowPeak
<1> SUFFICES ASSUME Init PROVE TypeOK /\ PmIsWindowPeak
  OBVIOUS
<1>1. TypeOK
  <2>1. samples \in Seq(Samples)
    BY DEF Init
  <2>2. acc \in Window /\ out \in Window
    BY UnknownType DEF Init
  <2>3. running \in BOOLEAN /\ fault \in BOOLEAN
    BY DEF Init
  <2> QED BY <2>1, <2>2, <2>3 DEF TypeOK
<1>2. \A f \in Fields : Measured(f) = {}
  BY DEF Init, Measured
<1>3. PmIsWindowPeak
  BY <1>2 DEF Init, PmIsWindowPeak, Unknown, Fields, PmFields
<1> QED BY <1>1, <1>3

LEMMA TypeStep == TypeOK /\ [Next]_vars => TypeOK'
<1> SUFFICES ASSUME TypeOK, [Next]_vars PROVE TypeOK'
  OBVIOUS
<1> USE DEF TypeOK
<1>1. ASSUME NEW s \in Samples, NEW garbled \in SUBSET Fields, sen5x_poll(s, garbled)
      PROVE  TypeOK'
  <2>1. \A f \in Fields : s[f] \in Word
    BY SamplesAssumption
  <2>2. /\ s["pm25"] \in Word /\ s["pm10"] \in Word /\ s["rh"] \in Word /\ s["temp"] \in Word
        /\ s["voc"] \in Word
    BY <2>1 DEF Fields, PmFields, LastFields
  <2>3. /\ Signed(s["rh"]) \in Int16 /\ Temp(s["temp"]) \in Int16
        /\ Signed(s["voc"]) \in Int16
    BY <2>2, SignedIsInt, HalfIsNear DEF Temp
  <2>4. acc' \in Window
    <3> DEFINE pm25 == Peak(acc.pm25, s["pm25"])
               pm10 == Peak(acc.pm10, s["pm10"])
               rh   == Latest(acc.rh, s["rh"], Signed(s["rh"]))
               temp == Latest(acc.temp, s["temp"], Temp(s["temp"]))
               voc  == Latest(acc.voc, s["voc"], Signed(s["voc"]))
    <3>1. pm25 \in Word /\ pm10 \in Word
      BY <2>2 DEF Peak, Window
    <3>2. rh \in Int16 /\ temp \in Int16 /\ voc \in Int16
      BY <2>3 DEF Latest, Window
    <3>3. acc' = [pm25 |-> pm25, pm10 |-> pm10, rh |-> rh, temp |-> temp, voc |-> voc,
                  alive |-> TRUE]
      BY <1>1, GoodRead
    <3> HIDE DEF pm25, pm10, rh, temp, voc
    <3> QED BY <3>1, <3>2, <3>3 DEF Window
  <2>5. samples' \in Seq(Samples) /\ UNCHANGED <<running, out, fault>>
    BY <1>1 DEF sen5x_poll
  <2> QED BY <2>4, <2>5
<1>2. CASE sen5x_window_take
  <2>1. acc' \in Window /\ samples' \in Seq(Samples) /\ UNCHANGED <<running, fault>>
    BY <1>2, UnknownType DEF sen5x_window_take
  <2>2. out' \in Window
    BY <1>2 DEF sen5x_window_take, Window
  <2> QED BY <2>1, <2>2
<1>3. CASE FanFails
  BY <1>3 DEF FanFails
<1>4. CASE UNCHANGED vars
  BY <1>4 DEF vars
<1> QED BY <1>1, <1>2, <1>3, <1>4 DEF Next

\* No step spoils the peaks.
LEMMA PmStep == TypeOK /\ PmIsWindowPeak /\ [Next]_vars => PmIsWindowPeak'
<1> SUFFICES ASSUME TypeOK, PmIsWindowPeak, [Next]_vars PROVE PmIsWindowPeak'
  OBVIOUS
<1>1. ASSUME NEW s \in Samples, NEW garbled \in SUBSET Fields, sen5x_poll(s, garbled)
      PROVE  PmIsWindowPeak'
  <2>1. /\ samples' = Append(samples, s) /\ samples \in Seq(Samples)
        /\ acc'["pm25"] = Peak(acc["pm25"], s["pm25"])
        /\ acc'["pm10"] = Peak(acc["pm10"], s["pm10"])
        /\ acc["pm25"] \in Word /\ acc["pm10"] \in Word
    BY <1>1, GoodRead DEF TypeOK, Window
  <2>2. PeakOf("pm25", acc["pm25"]) /\ PeakOf("pm10", acc["pm10"])
    BY DEF PmIsWindowPeak, PeakOf, PmFields
  <2>3. "pm25" \in Fields /\ "pm10" \in Fields
    BY DEF Fields, PmFields
  <2>4. PeakOf("pm25", acc["pm25"])' /\ PeakOf("pm10", acc["pm10"])'
    BY <2>1, <2>2, <2>3, PeakStep
  <2> QED BY <2>4 DEF PmIsWindowPeak, PeakOf, PmFields
<1>2. CASE sen5x_window_take
  <2>1. \A f \in Fields : Measured(f)' = {}
    BY <1>2 DEF sen5x_window_take, Measured
  <2> QED BY <1>2, <2>1 DEF sen5x_window_take, PmIsWindowPeak, Unknown, Fields, PmFields
<1>3. CASE UNCHANGED <<acc, samples>>
  BY <1>3 DEF PmIsWindowPeak, Measured
<1> QED BY <1>1, <1>2, <1>3 DEF Next, FanFails, vars

-----------------------------------------------------------------------------
(* The last value.                                                         *)

\* The last measured sample of a field, as a value.
LastMeasured(f) == CHOOSE i \in Measured(f) : \A j \in Measured(f) : j <= i

\* What an accumulator shows of the value of that sample.
Shows(f, held, v) ==
  IF f = "temp" THEN v - 2 * held \in {-1, 0, 1} /\ held * v >= 0 ELSE held = v

LastOf(f, held) ==
  IF Measured(f) = {} THEN held = SEN5X_UNKNOWN_S
  ELSE /\ \E i \in Measured(f) : \A j \in Measured(f) : j <= i
       /\ Shows(f, held, Signed(samples[LastMeasured(f)][f]))

\* One more sample, whose value is v, and the accumulator it makes.
LEMMA LastStep ==
  ASSUME samples \in Seq(Samples), NEW s \in Samples, samples' = Append(samples, s),
         NEW f \in Fields, NEW held, NEW heldNext, NEW v,
         LastOf(f, held), heldNext = Latest(held, s[f], v), Shows(f, v, Signed(s[f]))
  PROVE  LastOf(f, heldNext)'
<1> DEFINE k == Len(samples) + 1
<1>1. /\ \A i \in 1 .. Len(samples) : samples'[i] = samples[i]
      /\ samples'[k] = s
      /\ Measured(f) \subseteq 1 .. Len(samples)
      /\ Measured(f)' = IF s[f] = NotMeasured THEN Measured(f) ELSE Measured(f) \cup {k}
      /\ Len(samples) \in Nat
  BY OneMore
<1>2. CASE s[f] = NotMeasured
  <2>1. heldNext = held /\ Measured(f)' = Measured(f)
    BY <1>1, <1>2 DEF Latest
  <2>2. LastMeasured(f)' = LastMeasured(f)
    BY <2>1 DEF LastMeasured
  <2>3. CASE Measured(f) = {}
    BY <2>1, <2>3 DEF LastOf
  <2>4. CASE Measured(f) # {}
    <3>1. \E i \in Measured(f) : \A j \in Measured(f) : j <= i
      BY <2>4 DEF LastOf
    <3>2. LastMeasured(f) \in Measured(f)
      BY <3>1 DEF LastMeasured
    <3>3. samples'[LastMeasured(f)'] = samples[LastMeasured(f)]
      BY <1>1, <2>2, <3>2
    <3> QED BY <2>1, <2>4, <3>1, <3>3 DEF LastOf, Shows
  <2> QED BY <2>3, <2>4
<1>3. CASE s[f] # NotMeasured
  <2>1. heldNext = v /\ k \in Measured(f)'
    BY <1>1, <1>3 DEF Latest
  <2>0. \A i \in Measured(f)' : i \in Int /\ i <= k
    BY <1>1, <1>3
  <2>2. LastMeasured(f)' = k
    <3> QED BY <2>1, <2>0 DEF LastMeasured
  <2>3. samples'[LastMeasured(f)'][f] = s[f]
    BY <1>1, <2>2
  <2> QED BY <2>1, <2>0, <2>3 DEF LastOf, Shows
<1> QED BY <1>2, <1>3

RestInv ==
  LastOf("temp", acc["temp"]) /\ LastOf("rh", acc["rh"]) /\ LastOf("voc", acc["voc"])

\* No step spoils the last values.
LEMMA RestStep == TypeOK /\ RestInv /\ [Next]_vars => RestInv'
<1> SUFFICES ASSUME TypeOK, RestInv, [Next]_vars PROVE RestInv'
  OBVIOUS
<1>0. "temp" \in Fields /\ "rh" \in Fields /\ "voc" \in Fields
  BY DEF Fields, LastFields
<1>1. ASSUME NEW s \in Samples, NEW garbled \in SUBSET Fields, sen5x_poll(s, garbled)
      PROVE  RestInv'
  <2>1. /\ samples' = Append(samples, s) /\ samples \in Seq(Samples)
        /\ acc'["temp"] = Latest(acc["temp"], s["temp"], Temp(s["temp"]))
        /\ acc'["rh"] = Latest(acc["rh"], s["rh"], Signed(s["rh"]))
        /\ acc'["voc"] = Latest(acc["voc"], s["voc"], Signed(s["voc"]))
    BY <1>1, GoodRead DEF TypeOK
  <2>2. Shows("temp", Temp(s["temp"]), Signed(s["temp"]))
    <3>1. s["temp"] \in Word
      BY <1>0, SamplesAssumption
    <3> QED BY <3>1, SignedIsInt, HalfIsNear DEF Temp, Shows
  <2>3. Shows("rh", Signed(s["rh"]), Signed(s["rh"])) /\ Shows("voc", Signed(s["voc"]), Signed(s["voc"]))
    BY DEF Shows
  <2> QED BY <1>0, <2>1, <2>2, <2>3, LastStep DEF RestInv
<1>2. CASE sen5x_window_take
  <2>1. \A f \in Fields : Measured(f)' = {}
    BY <1>2 DEF sen5x_window_take, Measured
  <2> QED BY <1>0, <1>2, <2>1 DEF sen5x_window_take, RestInv, LastOf, Unknown
<1>3. CASE UNCHANGED <<acc, samples>>
  BY <1>3 DEF RestInv, LastOf, LastMeasured, Measured
<1> QED BY <1>1, <1>2, <1>3 DEF Next, FanFails, vars

LEMMA RestInit == Init => RestInv
<1> SUFFICES ASSUME Init PROVE RestInv
  OBVIOUS
<1>1. \A f \in Fields : Measured(f) = {}
  BY DEF Init, Measured
<1> QED BY <1>1 DEF Init, RestInv, LastOf, Unknown, Fields, LastFields

-----------------------------------------------------------------------------
\* sen5x.c:148-210: no field of a window leaves its C type.
THEOREM AirTypeCorrect == Spec => []TypeOK
BY AirInit, TypeStep, PTL DEF Spec

\* sen5x.h:24-25, for every set of samples and any words garbled: PM is the peak
\* of the window's own samples, and unknown exactly without one.
THEOREM PmIsPeak == Spec => []PmIsWindowPeak
BY AirInit, PmStep, AirTypeCorrect, PTL DEF Spec

\* sen5x.h:26-28, for every set of samples and any words garbled: the other
\* fields are the window's last measured ones.
THEOREM RestIsLast == Spec => []RestIsLastSample
<1>1. RestInv => RestIsLastSample
  <2> SUFFICES ASSUME RestInv PROVE RestIsLastSample
    OBVIOUS
  <2> QED BY DEF RestInv, LastOf, LastMeasured, Shows, RestIsLastSample, LastFields
<1> QED BY <1>1, RestInit, RestStep, AirTypeCorrect, PTL DEF Spec
=============================================================================
