----------------------------- MODULE AirQuality -----------------------------
(***************************************************************************)
(* The SEN5x driver of src/sen5x.c: one sample folded into the window each *)
(* second, the window handed over once per period with a look at the       *)
(* sensor's status register.  All of it runs on the main thread.           *)
(*                                                                         *)
(* External: the sensor and its bus.  A read is not answered, or answers   *)
(* eight words, each with its CRC, of which five are used; 0xFFFF is "not   *)
(* measured".  Any of the words may come across garbled, which its CRC      *)
(* tells.  The fan and laser fault bits latch.                              *)
(* `samples' remembers what the sensor sent in the reads of the window that *)
(* the driver took for good.                                                *)
(***************************************************************************)
EXTENDS Integers, Sequences

CONSTANTS
  Samples,      \* samples the sensor may answer: words for Fields
  MaxSamples    \* bound: samples in one window

PmFields   == {"pm25", "pm10"}
LastFields == {"temp", "rh", "voc"}
Fields     == PmFields \cup LastFields

UINT16_MAX == 65535
INT16_MAX  == 32767

Word  == 0 .. UINT16_MAX
Int16 == -INT16_MAX - 1 .. INT16_MAX

NotMeasured == UINT16_MAX

SEN5X_UNKNOWN_U == UINT16_MAX
SEN5X_UNKNOWN_S == INT16_MAX

ASSUME SamplesAssumption == Samples \subseteq [Fields -> Word]
ASSUME BoundsAssumption  == MaxSamples \in Nat

VARIABLES
  running,    \* Measurement-Mode was started
  acc,        \* the window under way
  out,        \* the window handed over last
  fault,      \* the sensor has latched a fan or laser fault
  samples     \* good reads of the window under way

vars == <<running, acc, out, fault, samples>>

Window == [pm25 : Word, pm10 : Word, temp : Int16, rh : Int16, voc : Int16, alive : BOOLEAN]

Unknown == [pm25 |-> SEN5X_UNKNOWN_U, pm10 |-> SEN5X_UNKNOWN_U, temp |-> SEN5X_UNKNOWN_S,
            rh |-> SEN5X_UNKNOWN_S, voc |-> SEN5X_UNKNOWN_S, alive |-> FALSE]

TypeOK ==
  /\ running \in BOOLEAN
  /\ acc \in Window
  /\ out \in Window
  /\ fault \in BOOLEAN
  /\ samples \in Seq(Samples)

-----------------------------------------------------------------------------
\* acc_reset is sen5x_start's first statement; a sensor that does not answer
\* the start command leaves it not running for good.
Init ==
  /\ running \in BOOLEAN
  /\ acc = Unknown /\ out = Unknown
  /\ fault = FALSE
  /\ samples = <<>>

\* (int16_t)w, and C's division, which truncates toward zero.
Signed(w) == IF w > INT16_MAX THEN w - (UINT16_MAX + 1) ELSE w
Half(v) == IF v < 0 THEN -((-v) \div 2) ELSE v \div 2

\* A word that came across wrong; 0 stands for all of them.
Received(s, garbled) == [f \in Fields |-> IF f \in garbled THEN 0 ELSE s[f]]

\* Mutant: the CRC of the last word is not looked at.
read_words_ButLast(garbled) == garbled \subseteq {"voc"}

\* All of an answer's CRCs hold, or nothing of it is used.
read_words(garbled) == garbled = {}

\* Mutant: unknown is taken for the highest reading there is.
Peak_NoUnknown(held, w) == IF w # NotMeasured /\ w > held THEN w ELSE held

\* PM keeps the highest measured word of the window.
Peak(held, w) ==
  IF w # NotMeasured /\ (held = SEN5X_UNKNOWN_U \/ w > held) THEN w ELSE held

\* Mutant: what the sensor does not measure is stored as a reading.
Latest_Raw(held, w, v) == v

\* The others keep the last measured value v of a word w.
Latest(held, w, v) == IF w = NotMeasured THEN held ELSE v

Temp(w) == Half(Signed(w))

\* A read that is not answered, or not whole, changes nothing.
sen5x_poll(s, garbled) ==
  /\ running
  /\ Len(samples) < MaxSamples
  /\ read_words(garbled)
  /\ LET w == Received(s, garbled) IN
       acc' = [pm25 |-> Peak(acc.pm25, w["pm25"]),
               pm10 |-> Peak(acc.pm10, w["pm10"]),
               rh   |-> Latest(acc.rh, w["rh"], Signed(w["rh"])),
               temp |-> Latest(acc.temp, w["temp"], Temp(w["temp"])),
               voc  |-> Latest(acc.voc, w["voc"], Signed(w["voc"])),
               alive |-> TRUE]
  /\ samples' = Append(samples, s)
  /\ UNCHANGED <<running, out, fault>>

\* STATUS_FATAL as the status register answers it.
StatusFatal == fault

\* The status is asked for only if the window had a sample; a status read that
\* fails is passed over.
sen5x_window_take ==
  /\ \E statusRead \in BOOLEAN :
       out' = [acc EXCEPT !.alive = acc.alive /\ ~(statusRead /\ StatusFatal)]
  /\ acc' = Unknown
  /\ samples' = <<>>
  /\ UNCHANGED <<running, fault>>

\* The fan stops or the laser drifts; the bits stay until a reset.
FanFails ==
  /\ ~fault
  /\ fault' = TRUE
  /\ UNCHANGED <<running, acc, out, samples>>

Next ==
  \/ \E s \in Samples, garbled \in SUBSET Fields : sen5x_poll(s, garbled)
  \/ sen5x_window_take
  \/ FanFails

Spec == Init /\ [][Next]_vars

-----------------------------------------------------------------------------
(* What is claimed of a window.                                            *)

Measured(f) == {i \in 1 .. Len(samples) : samples[i][f] # NotMeasured}

\* sen5x.h:24-25: PM is the highest measured sample of the window, and unknown
\* exactly when the window has none.
PmIsWindowPeak ==
  \A f \in PmFields :
    IF Measured(f) = {} THEN acc[f] = SEN5X_UNKNOWN_U
    ELSE /\ \E i \in Measured(f) : acc[f] = samples[i][f]
         /\ \A i \in Measured(f) : samples[i][f] <= acc[f]

\* sen5x.h:26-28: the others are the last measured sample, a temperature in
\* 1/100 C of the sensor's 1/200, below zero too, and unknown when the window
\* has none: nothing is carried over from the window before.
RestIsLastSample ==
  \A f \in LastFields :
    IF Measured(f) = {} THEN acc[f] = SEN5X_UNKNOWN_S
    ELSE LET last == CHOOSE i \in Measured(f) : \A j \in Measured(f) : j <= i
             v    == Signed(samples[last][f])
         IN  IF f = "temp" THEN v - 2 * acc[f] \in {-1, 0, 1} /\ acc[f] * v >= 0
                           ELSE acc[f] = v

\* sen5x.c:20-23: a stopped fan reads as clean air, "the one failure this must
\* never report silently": no window after the fault is handed over as alive.
FaultNeverSilent == [][sen5x_window_take /\ fault => ~out'.alive]_vars
=============================================================================
