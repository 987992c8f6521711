----------------------------- MODULE RadarLink -----------------------------
(***************************************************************************)
(* The radar thread of src/radar.c: reset the sensor, push the profile     *)
(* line by line over the CLI, stream, and start over when a start is       *)
(* refused or no frame came for RADAR_STALL_MS.  The main loop beside it   *)
(* closes a window every STORE_PERIOD_S and asks whether a frame came.     *)
(*                                                                         *)
(* External: the sensor.  It takes the lines sent to it in order and       *)
(* answers each after a while; it may stop dead while streaming, refuse    *)
(* sensorStart with or without an answer, or be slow.  Configured a second *)
(* time without a reset it answers Done and never streams (radar.c:13-14). *)
(*                                                                         *)
(* Time passes in ticks, and nothing that is due waits for the next one: a *)
(* timeout, an answer in the ring and the end of a window are taken first. *)
(* A line takes its time to write, a character after the other, and the    *)
(* sensor has it when it is written.                                       *)
(***************************************************************************)
EXTENDS Integers, Sequences

CONSTANTS
  cfg_lines,        \* the profile, in order; sensorStart is its last line
  Rejected,         \* the lines this image of the sensor rejects
  Sites,            \* benches to try: is NRST wired, and what may go wrong
  StopTimeout, LineTimeout, StartTimeout, BlankTimeout,   \* cli_wait
  BootWait, RetryWait,                                    \* k_msleep
  RADAR_STALL_MS, STORE_PERIOD_S,
  WriteTime,        \* cli_write has written a line within this
  Latency,          \* the sensor answers it within this
  LateBy,           \* and when it is late, after this
  MaxFaults         \* bound: how often something goes wrong

Line     == {cfg_lines[i] : i \in 1 .. Len(cfg_lines) - 1}
start    == cfg_lines[Len(cfg_lines)]
Command  == Line \cup {start, "stop", "warm", "blank"}
Stage    == Command \cup {"boot", "retry", "stream"}
Reply    == {"done", "error", "prompt"}
Job      == [cmd : Command \cup {"banner"}, left : Nat]

ASSUME LinesAssumption ==
  /\ cfg_lines \in Seq(STRING) /\ Len(cfg_lines) > 1 /\ Rejected \subseteq Line
  /\ \A i, j \in 1 .. Len(cfg_lines) : cfg_lines[i] = cfg_lines[j] => i = j
\* Lines go by names of their own, also the sensorStop the profile begins with,
\* which a demo at its prompt only answers.
ASSUME NamesAssumption ==
  \A i \in 1 .. Len(cfg_lines) :
    cfg_lines[i] \notin {"stop", "warm", "blank", "banner", "boot", "retry", "stream"}
ASSUME TimesAssumption ==
  /\ {StopTimeout, LineTimeout, StartTimeout, BlankTimeout, BootWait, RetryWait,
      RADAR_STALL_MS, STORE_PERIOD_S} \subseteq Nat \ {0}
  /\ WriteTime \in Nat /\ Latency \in Nat /\ LateBy \in Nat
ASSUME SitesAssumption ==
  /\ Sites \subseteq [wired : BOOLEAN,
                     kinds : SUBSET {"hang", "startFails", "startRefused", "late"}]
  /\ MaxFaults \in Nat

VARIABLES
  site,      \* one of Sites
  stage,     \* what the thread waits for: a CLI command's answer, or one of
             \* "boot", "retry" and "stream"
  writing,   \* how much longer cli_write takes for that command
  timer,     \* how much longer the thread waits, once it is written
  ring,      \* answers in rx_rb
  sensor,    \* what the sensor does
  used,      \* it has accepted sensorStart since its last reset
  profile,   \* lines it has accepted since its last reset
  todo,      \* commands it has not answered, each with the time it takes
  window,    \* time left in the window of the main loop
  frames,    \* a frame came in this window
  silent,    \* windows since the last frame that had none (0, 1, or 2 for more)
  faults,    \* what went wrong so far
  struck     \* and since the last frame

thread == <<stage, writing, timer, ring>>
radar  == <<sensor, used, profile, todo>>
main   == <<window, frames, silent>>
wrong  == <<faults, struck>>
moving == <<thread, radar, main, wrong>>
vars   == <<moving, site>>

TypeOK ==
  /\ site \in Sites
  /\ stage \in Stage
  /\ writing \in 0 .. WriteTime
  /\ timer \in Nat
  /\ ring \in Seq(Reply)
  /\ sensor \in {"cli", "streaming", "hung", "mute"}
  /\ used \in BOOLEAN
  /\ profile \subseteq Line
  /\ todo \in Seq(Job)
  /\ window \in 0 .. STORE_PERIOD_S
  /\ frames \in BOOLEAN
  /\ silent \in 0 .. 2
  /\ faults \in 0 .. MaxFaults
  /\ struck \in 0 .. faults

-----------------------------------------------------------------------------
\* How long the sensor takes for a command.
Times == IF "late" \in site.kinds /\ faults < MaxFaults
           THEN (0 .. Latency) \cup {LateBy} ELSE 0 .. Latency

Late(t) == IF t > Latency THEN 1 ELSE 0

Goes(bad) == faults' = faults + bad /\ struck' = struck + bad

\* cli_line up to cli_wait: drain the ring, write the line, set the deadline.
Send(cmd, timeout) ==
  /\ stage' = cmd /\ writing' \in 0 .. WriteTime /\ timer' = timeout
  /\ ring' = <<>>
  /\ \E t \in Times : /\ todo' = Append(todo, [cmd |-> cmd, left |-> t])
                      /\ Goes(Late(t))

Wait(what, time) == stage' = what /\ timer' = time /\ UNCHANGED <<writing, ring>>

\* cli_wait returns at the prompt or at its deadline.
CliWaitEnds == writing = 0 /\ (ring # <<>> \/ timer = 0)

\* Mutant: the prompt is taken for a yes.
CliOk_AtPrompt == ring # <<>>

\* cli_wait's result: an explicit Done was seen.
CliOk == ring # <<>> /\ Head(ring) = "done"

\* The power-on state; the board may be reset alone, so the sensor may be doing
\* anything.  A sensor that streams was configured by an earlier run.
Init ==
  /\ site \in Sites
  /\ stage = "stop" /\ writing \in 0 .. WriteTime /\ timer = StopTimeout /\ ring = <<>>
  /\ \/ sensor = "cli" /\ used = FALSE /\ profile = {} /\ faults = 0
     \/ sensor = "streaming" /\ used = TRUE /\ profile = Line \ Rejected /\ faults = 0
     \/ /\ sensor = "hung" /\ used = TRUE /\ profile = {}
        /\ "hang" \in site.kinds /\ faults = 1 /\ faults <= MaxFaults
  /\ todo = <<[cmd |-> "stop", left |-> 0]>>
  /\ window = STORE_PERIOD_S /\ frames = FALSE /\ silent = 0
  /\ struck = faults

-----------------------------------------------------------------------------
(* radar_reset.                                                            *)

\* Mutant: stopping the sensor is taken for a reset.
StopAnswered_IsEnough ==
  /\ stage = "stop" /\ CliWaitEnds
  /\ Send("blank", BlankTimeout)
  /\ UNCHANGED <<sensor, used, profile, main>>

StopAnswered ==
  /\ stage = "stop" /\ CliWaitEnds
  /\ Send("warm", StopTimeout)
  /\ UNCHANGED <<sensor, used, profile, main>>

Banner == <<[cmd |-> "banner", left |-> 0]>>

\* Mutant: NRST is never asserted.
NrstPulse_Skipped == UNCHANGED radar

\* gpio_pin_set_dt(&nrst): harmless without the wire, else the sensor boots.
NrstPulse ==
  IF site.wired THEN sensor' = "cli" /\ used' = FALSE /\ profile' = {} /\ todo' = Banner
           ELSE UNCHANGED radar

WarmAnswered ==
  /\ stage = "warm" /\ CliWaitEnds
  /\ NrstPulse
  /\ Wait("boot", BootWait)
  /\ UNCHANGED <<main, wrong>>

\* The demo has booted; an empty line ends what its parser may hold.
BootWaited ==
  /\ stage = "boot" /\ timer = 0
  /\ Send("blank", BlankTimeout)
  /\ UNCHANGED <<sensor, used, profile, main>>

-----------------------------------------------------------------------------
(* radar_configure, after the reset, and radar_thread.                     *)

SendLine(i) ==
  Send(cfg_lines[i], IF cfg_lines[i] = start THEN StartTimeout ELSE LineTimeout)

BlankAnswered ==
  /\ stage = "blank" /\ CliWaitEnds
  /\ SendLine(1)
  /\ UNCHANGED <<sensor, used, profile, main>>

\* Mutant: a line that fails ends the profile.
LineAnswered_EndsProfile ==
  /\ CliWaitEnds
  /\ \E i \in 1 .. Len(cfg_lines) - 1 :
       stage = cfg_lines[i] /\ SendLine(IF CliOk THEN i + 1 ELSE Len(cfg_lines))
  /\ UNCHANGED <<sensor, used, profile, main>>

\* A line that fails is reported and passed over.
LineAnswered ==
  /\ CliWaitEnds
  /\ \E i \in 1 .. Len(cfg_lines) - 1 : stage = cfg_lines[i] /\ SendLine(i + 1)
  /\ UNCHANGED <<sensor, used, profile, main>>

\* radar_configure returns 0: the reassembler is reset and the stall clock set.
StartAccepted ==
  /\ stage = start /\ CliWaitEnds /\ CliOk
  /\ Wait("stream", RADAR_STALL_MS)
  /\ UNCHANGED <<radar, main, wrong>>

StartFailed ==
  /\ stage = start /\ CliWaitEnds /\ ~CliOk
  /\ Wait("retry", RetryWait)
  /\ UNCHANGED <<radar, main, wrong>>

\* The retry pause is over, or the stream has stalled: radar_configure again.
Restart ==
  /\ stage \in {"retry", "stream"} /\ timer = 0
  /\ Send("stop", StopTimeout)
  /\ UNCHANGED <<sensor, used, profile, main>>

radar_thread ==
  \/ StopAnswered \/ WarmAnswered \/ BootWaited \/ BlankAnswered
  \/ LineAnswered \/ StartAccepted \/ StartFailed \/ Restart

-----------------------------------------------------------------------------
(* The sensor.                                                             *)

\* The sensor has the first of what it is to take: it is not the line being written.
Heard == writing = 0 \/ Head(todo).cmd # stage

Due == todo # <<>> /\ Heard /\ Head(todo).left = 0

Says(reply) == ring' = Append(ring, reply) /\ todo' = Tail(todo)
SaysNothing == ring' = ring /\ todo' = Tail(todo)

\* A line is taken while the demo is at its prompt; a streaming demo hears only
\* sensorStop, a dead one nothing.
Ignored(cmd) == sensor = "hung" \/ (sensor = "streaming" /\ cmd # "stop")

TakeLine(cmd) ==
  \/ /\ Ignored(cmd)
     /\ SaysNothing
     /\ UNCHANGED <<sensor, used, profile, wrong>>
  \/ /\ ~Ignored(cmd) /\ cmd = "stop"
     /\ Says("done")
     /\ sensor' = "cli"
     /\ UNCHANGED <<used, profile, wrong>>
  \/ /\ ~Ignored(cmd) /\ cmd = "warm"
     /\ sensor' = "cli" /\ used' = FALSE /\ profile' = {} /\ todo' = Banner
     /\ UNCHANGED <<ring, wrong>>
  \/ /\ ~Ignored(cmd) /\ cmd \in {"blank", "banner"}
     /\ Says("prompt")
     /\ UNCHANGED <<sensor, used, profile, wrong>>
  \/ /\ ~Ignored(cmd) /\ cmd \in Line
     /\ Says(IF cmd \in Rejected THEN "error" ELSE "done")
     /\ profile' = profile \cup ({cmd} \ Rejected)
     /\ UNCHANGED <<sensor, used, wrong>>
  \/ /\ ~Ignored(cmd) /\ cmd = start
     /\ Says("done")
     /\ sensor' = IF used THEN "mute" ELSE "streaming"
     /\ used' = TRUE
     /\ UNCHANGED <<profile, wrong>>

Answer ==
  /\ Due
  /\ TakeLine(Head(todo).cmd)
  /\ UNCHANGED <<stage, writing, timer, main>>

\* A failed sensorStart leaves the demo deaf, or is refused with an error.
StartFails ==
  /\ Due /\ Head(todo).cmd = start /\ sensor = "cli"
  /\ faults < MaxFaults
  /\ \/ "startFails" \in site.kinds /\ SaysNothing /\ sensor' = "hung"
     \/ "startRefused" \in site.kinds /\ Says("error") /\ UNCHANGED sensor
  /\ Goes(1)
  /\ UNCHANGED <<stage, writing, timer, used, profile, main>>

Hang ==
  /\ "hang" \in site.kinds /\ faults < MaxFaults
  /\ sensor = "streaming"
  /\ sensor' = "hung"
  /\ Goes(1)
  /\ UNCHANGED <<thread, used, profile, todo, main>>

-----------------------------------------------------------------------------
\* The main loop takes the window.
WindowTake ==
  /\ window = 0
  /\ window' = STORE_PERIOD_S
  /\ silent' = IF frames THEN 0 ELSE IF silent = 2 THEN 2 ELSE silent + 1
  /\ frames' = FALSE
  /\ UNCHANGED <<thread, radar, wrong>>

Frame == stage = "stream" /\ sensor = "streaming"

\* Mutant: last_frame moves on every pass of the loop.
StallClock_EveryPass == IF stage = "stream" THEN RADAR_STALL_MS ELSE timer - 1

\* last_frame moves only when a frame is complete.
StallClock == IF Frame THEN RADAR_STALL_MS ELSE timer - 1

\* First the line is written, then the thread waits.
ThreadTime ==
  \/ writing > 0 /\ writing' = writing - 1 /\ timer' = timer
  \/ writing = 0 /\ timer > 0 /\ writing' = writing /\ timer' = StallClock

SensorTime ==
  todo' = IF todo # <<>> /\ Heard THEN [todo EXCEPT ![1].left = @ - 1] ELSE todo

Tick ==
  /\ window > 0 /\ ~Due
  /\ stage \in Command => ~CliWaitEnds
  /\ ThreadTime /\ SensorTime
  /\ window' = window - 1
  /\ frames' = (frames \/ Frame)
  /\ silent' = IF Frame THEN 0 ELSE silent
  /\ struck' = IF Frame THEN 0 ELSE struck
  /\ UNCHANGED <<stage, ring, sensor, used, profile, faults>>

Next ==
  /\ \/ StopAnswered \/ WarmAnswered \/ BootWaited \/ BlankAnswered
     \/ LineAnswered \/ StartAccepted \/ StartFailed \/ Restart
     \/ Answer \/ StartFails \/ Hang
     \/ WindowTake \/ Tick
  /\ UNCHANGED site

\* The scheduler runs the thread, time passes, and the sensor gets round to
\* what it was sent.  No fairness for what goes wrong.
Fairness ==
  /\ WF_moving(radar_thread) /\ WF_moving(Answer)
  /\ WF_moving(WindowTake) /\ WF_moving(Tick)

Spec == Init /\ [][Next]_vars /\ Fairness

-----------------------------------------------------------------------------
(* What is claimed of the link.                                            *)

\* The sensor answers in time: no answer is still to come when cli_wait gives
\* up, so none can be taken for the answer to a later line.
InTime == "late" \notin site.kinds

\* radar.c:389 "Returns 0 once sensorStart is accepted": the thread streams
\* only from a sensor that has accepted it, and no answer to an earlier line is
\* taken for the answer to sensorStart.
StreamMeansStarted == InTime /\ stage = "stream" => used

\* radar.c:13-14, docs/firmware.md:264-265: the demo is never configured a
\* second time in place, where it answers Done and never streams.
NeverMute == sensor # "mute"

\* A sensor that streams does so with the whole profile, but for the lines its
\* image rejects: none is lost to a reset that came after it, and none is left
\* from before.
WholeProfile == sensor = "streaming" => profile = Line \ Rejected

\* radar.c:540-542: a restart loses at most one record.  A sensor that has stopped,
\* or refused to start, once since its last frame streams again before a second
\* window is over without one.
RestartCostsOneRecord == InTime /\ struck <= 1 => silent <= 1

\* radar.c:583-588: a sensor that stopped or refused to start streams again;
\* the node does not go on writing empty records forever.
Recovers == []<>(stage = "stream" /\ sensor = "streaming")
=============================================================================
