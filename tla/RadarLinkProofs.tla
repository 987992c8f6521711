--------------------------- MODULE RadarLinkProofs ---------------------------
(* Theorems about the radar link, for every profile, every set of benches and *)
(* any number of faults: the sensor is never configured twice in place, the    *)
(* thread streams only from one that was started, and with the whole profile,  *)
(* and a restart costs no more than one record.                                *)
EXTENDS RadarLink, SequenceTheorems, TLAPS

-----------------------------------------------------------------------------
(* Names.                                                                  *)

\* What the thread sends after this.
Follows(c, d) ==
  \/ c = "stop" /\ d = "warm"
  \/ c = "warm" /\ d = "blank"
  \/ c = "blank" /\ d = cfg_lines[1]
  \/ \E i \in 1 .. Len(cfg_lines) - 1 : c = cfg_lines[i] /\ d = cfg_lines[i + 1]
  \/ c = start /\ d = "stop"

\* The last it has sent, at this stage.
Sent(s, c) ==
  \/ s = c /\ c \in Command
  \/ s = "boot" /\ c = "warm"
  \/ s \in {"retry", "stream"} /\ c = start

LEMMA Lines ==
  /\ Len(cfg_lines) \in Nat /\ Len(cfg_lines) > 1
  /\ \A i \in 1 .. Len(cfg_lines) - 1 :
       i \in 1 .. Len(cfg_lines) /\ i + 1 \in 1 .. Len(cfg_lines) /\ cfg_lines[i] \in Line
  /\ Len(cfg_lines) \in 1 .. Len(cfg_lines) /\ 1 \in 1 .. Len(cfg_lines) - 1
  /\ \A c \in Line : \E i \in 1 .. Len(cfg_lines) - 1 : c = cfg_lines[i]
BY LinesAssumption DEF Line

LEMMA LineNames ==
  \A c \in Line \cup {start} :
    c \notin {"stop", "warm", "blank", "banner", "boot", "retry", "stream"}
BY NamesAssumption, Lines DEF start

LEMMA StartIsNoLine == start \notin Line
<1> SUFFICES ASSUME NEW i \in 1 .. Len(cfg_lines) - 1, cfg_lines[i] = start PROVE FALSE
  BY Lines
<1>1. i = Len(cfg_lines)  BY LinesAssumption, Lines DEF start
<1> QED  BY <1>1, Lines

LEMMA Commands ==
  /\ {"stop", "warm", "blank", start} \subseteq Command /\ Line \subseteq Command
  /\ "banner" \notin Command /\ "boot" \notin Command
  /\ "retry" \notin Command /\ "stream" \notin Command
BY LineNames DEF Command

LEMMA FollowsWhat ==
  ASSUME NEW c, NEW d, Follows(c, d)
  PROVE  /\ c \in Command /\ d \in Command
         /\ c = "stop" => d = "warm"
         /\ c = "warm" => d = "blank"
         /\ c = "blank" => d = cfg_lines[1]
         /\ c = start => d = "stop"
         /\ \A i \in 1 .. Len(cfg_lines) - 1 : c = cfg_lines[i] => d = cfg_lines[i + 1]
<1>1. \A i \in 1 .. Len(cfg_lines) : cfg_lines[i] \in Line \cup {start}
  <2> SUFFICES ASSUME NEW i \in 1 .. Len(cfg_lines) PROVE cfg_lines[i] \in Line \cup {start}
    OBVIOUS
  <2>1. i = Len(cfg_lines) \/ i \in 1 .. Len(cfg_lines) - 1  BY Lines
  <2> QED  BY <2>1, Lines DEF start
<1>2. \A i, j \in 1 .. Len(cfg_lines) : cfg_lines[i] = cfg_lines[j] => i = j
  BY LinesAssumption
<1>3. \A i \in 1 .. Len(cfg_lines) - 1 : cfg_lines[i] # start
  BY Lines, StartIsNoLine
<1>4. start \notin {"stop", "warm", "blank"} /\ \A i \in 1 .. Len(cfg_lines) - 1 :
        cfg_lines[i] \notin {"stop", "warm", "blank"}
  BY LineNames, Lines
<1>5. 1 \in 1 .. Len(cfg_lines)  BY Lines
<1>6. \A i \in 1 .. Len(cfg_lines) - 1 : i + 1 \in 1 .. Len(cfg_lines) /\ i \in 1 .. Len(cfg_lines)
  BY Lines
<1>7. c \in Command /\ d \in Command
  BY <1>1, <1>5, <1>6, Commands DEF Follows
<1>8. CASE c \in {"stop", "warm", "blank", start}
  BY <1>3, <1>4, <1>7, <1>8 DEF Follows
<1>9. CASE \E i \in 1 .. Len(cfg_lines) - 1 : c = cfg_lines[i] /\ d = cfg_lines[i + 1]
  BY <1>2, <1>3, <1>4, <1>6, <1>7, <1>9
<1> QED  BY <1>8, <1>9 DEF Follows

LEMMA SentWhat ==
  ASSUME NEW s, NEW c, NEW d, Sent(s, c), Sent(s, d)
  PROVE  c = d /\ c \in Command
BY Commands DEF Sent

-----------------------------------------------------------------------------
(* The steps.                                                              *)

\* cli_line puts one command behind the others, and how long it takes is not
\* late but where an answer may be.
Sends(cmd, timeout) ==
  \E t \in Nat :
    /\ todo' = Append(todo, [cmd |-> cmd, left |-> t])
    /\ stage' = cmd /\ writing' \in 0 .. WriteTime /\ timer' = timeout /\ ring' = <<>>
    /\ faults' \in 0 .. MaxFaults /\ struck' \in 0 .. faults'
    /\ InTime => t <= Latency /\ UNCHANGED wrong

Timeouts == {StopTimeout, LineTimeout, StartTimeout, BlankTimeout}

TimeoutFor(cmd) ==
  IF cmd \in {"stop", "warm"} THEN StopTimeout ELSE IF cmd = "blank" THEN BlankTimeout
  ELSE IF cmd = start THEN StartTimeout ELSE LineTimeout

\* It is what follows the last, and the thread waited for that.
SendsNext ==
  /\ \E cmd, p : Sent(stage, p) /\ Follows(p, cmd) /\ Sends(cmd, TimeoutFor(cmd))
  /\ stage # "warm" /\ stage # start
  /\ IF stage \in Command THEN CliWaitEnds ELSE timer = 0
  /\ UNCHANGED <<sensor, used, profile, main>>

\* What goes wrong is counted.
LEMMA Counted ==
  ASSUME TypeOK, NEW n \in {0, 1}, n = 1 => faults < MaxFaults, Goes(n)
  PROVE  /\ faults' \in 0 .. MaxFaults /\ struck' \in 0 .. faults'
         /\ n = 0 => UNCHANGED wrong
<1>1. /\ MaxFaults \in Nat /\ faults \in 0 .. MaxFaults /\ struck \in 0 .. faults
      /\ faults' = faults + n /\ struck' = struck + n
  BY SitesAssumption DEF TypeOK, Goes
<1>2. faults' \in 0 .. MaxFaults  BY <1>1
<1>3. struck' \in 0 .. faults'  BY <1>1
<1>4. n = 0 => faults' = faults /\ struck' = struck  BY <1>1
<1> QED  BY <1>2, <1>3, <1>4 DEF wrong

LEMMA SendIsOne ==
  ASSUME TypeOK, NEW cmd, NEW timeout, Send(cmd, timeout)
  PROVE  Sends(cmd, timeout)
<1>1. PICK t \in Times : /\ todo' = Append(todo, [cmd |-> cmd, left |-> t])
                         /\ Goes(Late(t))
  BY DEF Send
<1>2. Latency \in Nat /\ LateBy \in Nat
  BY TimesAssumption
<1>3. t \in Nat /\ (InTime => t <= Latency)
  BY <1>1, <1>2 DEF Times, InTime
<1>4. Late(t) \in {0, 1} /\ (Late(t) = 1 => faults < MaxFaults) /\ (InTime => Late(t) = 0)
  BY <1>1, <1>2, <1>3 DEF Late, Times
<1>5. /\ faults' \in 0 .. MaxFaults /\ struck' \in 0 .. faults'
      /\ InTime => UNCHANGED wrong
  BY <1>1, <1>4, Counted
<1> QED  BY <1>1, <1>3, <1>5 DEF Send, Sends

LEMMA TimeoutIs == \A cmd : TimeoutFor(cmd) \in Timeouts
BY DEF TimeoutFor, Timeouts

LEMMA SendSteps ==
  ASSUME TypeOK, StopAnswered \/ BootWaited \/ BlankAnswered \/ LineAnswered \/ Restart
  PROVE  SendsNext
<1>1. ASSUME NEW i \in 1 .. Len(cfg_lines), SendLine(i)
      PROVE  Sends(cfg_lines[i], TimeoutFor(cfg_lines[i]))
  <2>1. cfg_lines[i] \notin {"stop", "warm", "blank"}  BY NamesAssumption
  <2> QED  BY <1>1, <2>1, SendIsOne DEF SendLine, TimeoutFor
<1>2. CASE StopAnswered
  <2>1. Sends("warm", StopTimeout)  BY <1>2, SendIsOne DEF StopAnswered
  <2>2. Sent(stage, "stop") /\ Follows("stop", "warm")  BY <1>2, Commands DEF StopAnswered, Sent, Follows
  <2> QED  BY <1>2, <2>1, <2>2, Commands, LineNames DEF StopAnswered, SendsNext, TimeoutFor
<1>3. CASE BootWaited
  <2>1. Sends("blank", BlankTimeout)  BY <1>3, SendIsOne DEF BootWaited
  <2>2. Sent(stage, "warm") /\ Follows("warm", "blank")  BY <1>3, Commands DEF BootWaited, Sent, Follows
  <2> QED  BY <1>3, <2>1, <2>2, Commands, LineNames DEF BootWaited, SendsNext, TimeoutFor
<1>4. CASE BlankAnswered
  <2>1. Sends(cfg_lines[1], TimeoutFor(cfg_lines[1]))  BY <1>1, <1>4, Lines DEF BlankAnswered
  <2>2. Sent(stage, "blank") /\ Follows("blank", cfg_lines[1])
    BY <1>4, Commands DEF BlankAnswered, Sent, Follows
  <2> QED  BY <1>4, <2>1, <2>2, Commands, LineNames DEF BlankAnswered, SendsNext
<1>5. CASE LineAnswered
  <2>1. PICK i \in 1 .. Len(cfg_lines) - 1 : stage = cfg_lines[i] /\ SendLine(i + 1)
    BY <1>5 DEF LineAnswered
  <2>2. Sends(cfg_lines[i + 1], TimeoutFor(cfg_lines[i + 1]))  BY <1>1, <2>1, Lines
  <2>3. stage \in Command /\ stage # "warm" /\ stage # start
    BY <2>1, Lines, LineNames, StartIsNoLine, Commands
  <2>4. Sent(stage, cfg_lines[i]) /\ Follows(cfg_lines[i], cfg_lines[i + 1])
    BY <2>1, <2>3 DEF Sent, Follows
  <2> QED  BY <1>5, <2>2, <2>3, <2>4 DEF LineAnswered, SendsNext
<1>6. CASE Restart
  <2>1. Sends("stop", StopTimeout)  BY <1>6, SendIsOne DEF Restart
  <2>2. Sent(stage, start) /\ Follows(start, "stop")  BY <1>6 DEF Restart, Sent, Follows
  <2> QED  BY <1>6, <2>1, <2>2, Commands, LineNames DEF Restart, SendsNext, TimeoutFor
<1> QED  BY <1>2, <1>3, <1>4, <1>5, <1>6

-----------------------------------------------------------------------------
(* Types.                                                                  *)

LEMMA TimeFacts ==
  /\ Timeouts \subseteq Nat \ {0}
  /\ BootWait \in Nat \ {0} /\ RetryWait \in Nat \ {0}
  /\ RADAR_STALL_MS \in Nat \ {0} /\ STORE_PERIOD_S \in Nat \ {0}
BY TimesAssumption DEF Timeouts

LEMMA BannerIsJobs == Banner \in Seq(Job) /\ Len(Banner) = 1
                      /\ Banner[1].cmd = "banner" /\ Banner[1].left = 0
<1>1. [cmd |-> "banner", left |-> 0] \in Job  BY DEF Job
<1> QED  BY <1>1 DEF Banner

LEMMA SeqTail ==
  ASSUME NEW S, NEW q \in Seq(S), q # <<>>
  PROVE  /\ Len(q) \in Nat /\ Len(q) >= 1 /\ Head(q) = q[1] /\ Head(q) \in S
         /\ Tail(q) \in Seq(S) /\ Len(Tail(q)) = Len(q) - 1
         /\ \A i \in 1 .. Len(q) - 1 : Tail(q)[i] = q[i + 1]
OBVIOUS

\* A tick brings the sensor nearer to what it is at.
LEMMA TickJobs ==
  ASSUME TypeOK, Tick
  PROVE  /\ todo' \in Seq(Job) /\ Len(todo') = Len(todo)
         /\ \A i \in 1 .. Len(todo) : todo'[i].cmd = todo[i].cmd
         /\ todo # <<>> /\ Heard =>
              todo[1].left \in Nat \ {0} /\ todo'[1].left = todo[1].left - 1
         /\ todo # <<>> /\ ~Heard => todo' = todo
<1>1. CASE ~(todo # <<>> /\ Heard)
  <2>1. todo' = todo  BY <1>1 DEF Tick, SensorTime
  <2> QED  BY <1>1, <2>1 DEF TypeOK
<1>2. CASE todo # <<>> /\ Heard
  <2>1. todo \in Seq(Job) /\ 1 \in 1 .. Len(todo) /\ todo[1] \in Job /\ Head(todo) = todo[1]
    BY <1>2 DEF TypeOK
  <2>2. todo[1].left \in Nat /\ todo[1].cmd \in Command \cup {"banner"}  BY <2>1 DEF Job
  <2>3. todo[1].left # 0  BY <1>2, <2>1 DEF Tick, Due
  <2> DEFINE job == [todo[1] EXCEPT !.left = @ - 1]
  <2>4. todo' = [todo EXCEPT ![1] = job]  BY <1>2 DEF Tick, SensorTime
  <2>5. job.left = todo[1].left - 1 /\ job.cmd = todo[1].cmd  BY <2>1 DEF Job
  <2>6. todo[1].left - 1 \in Nat  BY <2>2, <2>3
  <2>7. job \in Job  BY <2>1, <2>2, <2>6 DEF Job
  <2> HIDE DEF job
  <2>8. todo' \in Seq(Job) /\ Len(todo') = Len(todo)
    BY <2>1, <2>4, <2>7
  <2>9. /\ todo'[1] = job
        /\ \A i \in 1 .. Len(todo) : i # 1 => todo'[i] = todo[i]
    BY <2>1, <2>4
  <2> QED  BY <1>2, <2>2, <2>3, <2>5, <2>8, <2>9
<1> QED  BY <1>1, <1>2

\* First the line is written, then the thread waits.
LEMMA TickTimes ==
  ASSUME TypeOK, Tick
  PROVE  /\ timer \in Nat /\ timer' \in Nat
         /\ writing \in 0 .. WriteTime /\ writing' \in 0 .. WriteTime
         /\ \/ writing > 0 /\ writing' = writing - 1 /\ timer' = timer
            \/ writing = 0 /\ writing' = 0 /\ timer > 0 /\ timer' = StallClock
<1>1. timer \in Nat /\ writing \in 0 .. WriteTime /\ WriteTime \in Nat
  BY TimesAssumption DEF TypeOK
<1>2. CASE writing > 0 /\ writing' = writing - 1 /\ timer' = timer
  <2>1. writing' \in 0 .. WriteTime  BY <1>1, <1>2
  <2> QED  BY <1>1, <1>2, <2>1
<1>3. CASE writing = 0 /\ timer > 0 /\ writing' = writing /\ timer' = StallClock
  <2>1. timer' \in Nat  BY <1>1, <1>3, TimeFacts DEF StallClock
  <2> QED  BY <1>1, <1>3, <2>1
<1> QED  BY <1>2, <1>3 DEF Tick, ThreadTime

\* The steps, one by one.
LEMMA Steps ==
  ASSUME TypeOK, [Next]_vars
  PROVE  /\ site' = site
         /\ \/ SendsNext
            \/ WarmAnswered \/ StartAccepted \/ StartFailed
            \/ Answer \/ StartFails \/ Hang
            \/ WindowTake \/ Tick
            \/ UNCHANGED vars
BY SendSteps DEF Next, vars

LEMMA LinkStart == Init => TypeOK
<1> SUFFICES ASSUME Init PROVE TypeOK
  OBVIOUS
<1>1. todo \in Seq(Job)
  <2>1. [cmd |-> "stop", left |-> 0] \in Job  BY Commands DEF Job
  <2> QED  BY <2>1 DEF Init
<1>2. /\ sensor \in {"cli", "streaming", "hung", "mute"} /\ used \in BOOLEAN
      /\ profile \subseteq Line /\ faults \in 0 .. MaxFaults /\ struck \in 0 .. faults
  <2>1. MaxFaults \in Nat  BY SitesAssumption
  <2>2. (faults = 0 \/ (faults = 1 /\ faults <= MaxFaults)) /\ struck = faults  BY DEF Init
  <2>3. faults \in 0 .. MaxFaults /\ struck \in 0 .. faults  BY <2>1, <2>2
  <2>4. Line \ Rejected \subseteq Line  OBVIOUS
  <2> QED  BY <2>3, <2>4 DEF Init
<1>3. /\ stage \in Stage /\ timer \in Nat /\ ring \in Seq(Reply) /\ writing \in 0 .. WriteTime
  BY Commands, TimeFacts DEF Init, Stage, Timeouts
<1>4. window \in 0 .. STORE_PERIOD_S  BY TimeFacts DEF Init
<1>5. site \in Sites /\ frames = FALSE /\ silent = 0  BY DEF Init
<1>6. frames \in BOOLEAN /\ silent \in 0 .. 2
  <2>1. frames \in BOOLEAN  BY <1>5
  <2>2. silent \in 0 .. 2  BY <1>5
  <2> QED  BY <2>1, <2>2
<1> QED  BY <1>1, <1>2, <1>3, <1>4, <1>5, <1>6 DEF TypeOK

\* The sensor's part, whatever it takes.
LEMMA AnswerTypes ==
  ASSUME TypeOK, Answer \/ StartFails
  PROVE  /\ ring' \in Seq(Reply) /\ sensor' \in {"cli", "streaming", "hung", "mute"}
         /\ used' \in BOOLEAN /\ profile' \subseteq Line /\ todo' \in Seq(Job)
         /\ faults' \in 0 .. MaxFaults /\ struck' \in 0 .. faults'
         /\ UNCHANGED <<stage, writing, timer, main>>
<1>0. /\ ring \in Seq(Reply) /\ todo \in Seq(Job) /\ used \in BOOLEAN /\ profile \subseteq Line
      /\ sensor \in {"cli", "streaming", "hung", "mute"} /\ faults \in 0 .. MaxFaults
      /\ struck \in 0 .. faults
  BY DEF TypeOK
<1>1. todo # <<>>  BY DEF Answer, StartFails, Due
<1>2. Tail(todo) \in Seq(Job)  BY <1>0, <1>1
<1>3. \A reply \in Reply : Says(reply) => ring' \in Seq(Reply) /\ todo' \in Seq(Job)
  BY <1>0, <1>2 DEF Says
<1>4. SaysNothing => ring' \in Seq(Reply) /\ todo' \in Seq(Job)
  BY <1>0, <1>2 DEF SaysNothing
<1>5. "done" \in Reply /\ "error" \in Reply /\ "prompt" \in Reply  BY DEF Reply
<1>6. CASE Answer
  <2> DEFINE cmd == Head(todo).cmd
  <2>1. TakeLine(cmd) /\ UNCHANGED <<stage, writing, timer, main>>  BY <1>6 DEF Answer
  <2> HIDE DEF cmd
  <2>2. CASE cmd \in Line /\ Says(IF cmd \in Rejected THEN "error" ELSE "done")
             /\ profile' = profile \cup ({cmd} \ Rejected) /\ UNCHANGED <<sensor, used, wrong>>
    BY <1>0, <1>3, <1>5, <2>1, <2>2 DEF wrong
  <2>3. CASE ~(cmd \in Line /\ Says(IF cmd \in Rejected THEN "error" ELSE "done")
               /\ profile' = profile \cup ({cmd} \ Rejected) /\ UNCHANGED <<sensor, used, wrong>>)
    BY <1>0, <1>3, <1>4, <1>5, <2>1, <2>3, BannerIsJobs DEF TakeLine, wrong
  <2> QED  BY <2>2, <2>3
<1>7. CASE StartFails
  <2>1. faults' \in 0 .. MaxFaults /\ struck' \in 0 .. faults'
    BY <1>7, Counted DEF StartFails
  <2> QED  BY <1>0, <1>3, <1>4, <1>5, <1>7, <2>1 DEF StartFails
<1> QED  BY <1>6, <1>7

LEMMA LinkTypes == TypeOK /\ [Next]_vars => TypeOK'
<1> SUFFICES ASSUME TypeOK, [Next]_vars PROVE TypeOK'
  OBVIOUS
<1>0. site' = site /\ site \in Sites  BY Steps DEF TypeOK
<1>1. CASE SendsNext
  <2>1. PICK cmd \in Command : \E timeout \in Nat : Sends(cmd, timeout)
    <3>1. PICK cmd, p : Follows(p, cmd) /\ \E timeout \in Timeouts : Sends(cmd, timeout)
      BY <1>1, TimeoutIs DEF SendsNext
    <3> QED  BY <3>1, FollowsWhat, TimeFacts
  <2>2. PICK t \in Nat : /\ todo' = Append(todo, [cmd |-> cmd, left |-> t])
                         /\ stage' = cmd /\ timer' \in Nat /\ ring' = <<>>
                         /\ writing' \in 0 .. WriteTime
                         /\ faults' \in 0 .. MaxFaults /\ struck' \in 0 .. faults'
    BY <2>1 DEF Sends
  <2>3. [cmd |-> cmd, left |-> t] \in Job  BY <2>1 DEF Job
  <2>4. todo' \in Seq(Job)  BY <2>2, <2>3 DEF TypeOK
  <2>5. stage' \in Stage /\ ring' \in Seq(Reply)  BY <2>1, <2>2 DEF Stage
  <2>6. UNCHANGED <<sensor, used, profile, window, frames, silent>>
    BY <1>1 DEF SendsNext, main
  <2> QED  BY <1>0, <2>1, <2>2, <2>4, <2>5, <2>6 DEF TypeOK
<1>2. CASE WarmAnswered
  <2>1. stage' = "boot" /\ timer' = BootWait /\ UNCHANGED <<writing, ring, main, wrong>>
    BY <1>2 DEF WarmAnswered, Wait
  <2>2. /\ sensor' \in {"cli", "streaming", "hung", "mute"} /\ used' \in BOOLEAN
        /\ profile' \subseteq Line /\ todo' \in Seq(Job)
    <3>1. CASE site.wired
      BY <1>2, <3>1, BannerIsJobs DEF WarmAnswered, NrstPulse
    <3>2. CASE ~site.wired
      BY <1>2, <3>2 DEF WarmAnswered, NrstPulse, radar, TypeOK
    <3> QED  BY <3>1, <3>2
  <2> QED  BY <1>0, <2>1, <2>2, TimeFacts DEF TypeOK, Stage, main, wrong
<1>3. CASE StartAccepted \/ StartFailed
  <2>1. /\ stage' \in {"stream", "retry"} /\ timer' \in {RADAR_STALL_MS, RetryWait}
        /\ UNCHANGED <<writing, ring, radar, main, wrong>>
    BY <1>3 DEF StartAccepted, StartFailed, Wait
  <2> QED  BY <1>0, <2>1, TimeFacts DEF TypeOK, Stage, main, radar, wrong
<1>4. CASE Answer \/ StartFails
  BY <1>0, <1>4, AnswerTypes DEF TypeOK, main
<1>5. CASE Hang
  <2>2. faults' \in 0 .. MaxFaults /\ struck' \in 0 .. faults'
    BY <1>5, Counted DEF Hang
  <2> QED  BY <1>0, <1>5, <2>2 DEF Hang, TypeOK, thread, main
<1>6. CASE WindowTake
  <2>1. silent \in 0 .. 2  BY DEF TypeOK
  <2>2. silent' \in 0 .. 2  BY <1>6, <2>1 DEF WindowTake
  <2>3. window' = STORE_PERIOD_S /\ frames' = FALSE  BY <1>6 DEF WindowTake
  <2>4. window' \in 0 .. STORE_PERIOD_S  BY <2>3, TimeFacts
  <2> QED  BY <1>0, <1>6, <2>2, <2>3, <2>4 DEF WindowTake, TypeOK, thread, radar, wrong
<1>7. CASE Tick
  <2>1. window > 0 /\ window \in 0 .. STORE_PERIOD_S
    BY <1>7 DEF Tick, TypeOK
  <2>2. timer' \in Nat /\ writing' \in 0 .. WriteTime  BY <1>7, TickTimes
  <2>3. window' \in 0 .. STORE_PERIOD_S  BY <1>7, <2>1, TimeFacts DEF Tick
  <2>4. frames' \in BOOLEAN
    <3>1. frames \in BOOLEAN /\ Frame \in BOOLEAN  BY DEF TypeOK, Frame
    <3> QED  BY <1>7, <3>1 DEF Tick
  <2>5. silent' \in 0 .. 2  BY <1>7 DEF Tick, TypeOK
  <2>6. todo' \in Seq(Job)  BY <1>7, TickJobs
  <2>7. faults' \in 0 .. MaxFaults /\ struck' \in 0 .. faults'
    <3>1. faults' = faults /\ struck' \in {0, struck} /\ faults \in Nat
      BY <1>7, SitesAssumption DEF Tick, TypeOK
    <3> QED  BY <3>1 DEF TypeOK
  <2> QED  BY <1>0, <1>7, <2>2, <2>3, <2>4, <2>5, <2>6, <2>7 DEF Tick, TypeOK
<1>8. CASE UNCHANGED vars
  BY <1>8 DEF vars, moving, thread, radar, main, wrong, TypeOK
<1> QED  BY <1>1, <1>2, <1>3, <1>4, <1>5, <1>6, <1>7, <1>8, Steps

\* The link's state keeps to its types.
THEOREM LinkTypeOK == Spec => []TypeOK
BY LinkStart, LinkTypes, PTL DEF Spec

-----------------------------------------------------------------------------
(* The order of what is sent.                                              *)

\* What the sensor has not taken comes in the order of the rounds, up to the
\* last command sent; the banner of a boot is before all.
InOrder(q, s) ==
  /\ \A i \in 1 .. Len(q) - 1 :
       q[i + 1].cmd # "banner" /\ (q[i].cmd = "banner" \/ Follows(q[i].cmd, q[i + 1].cmd))
  /\ q # <<>> => q[Len(q)].cmd = "banner" \/ Sent(s, q[Len(q)].cmd)

\* The next command it will take.
Coming(q, s, c) ==
  \/ \E k \in 1 .. Len(q) :
       q[k].cmd = c /\ c # "banner" /\ \A j \in 1 .. k - 1 : q[j].cmd = "banner"
  \/ /\ \A j \in 1 .. Len(q) : q[j].cmd = "banner"
     /\ \E p : Sent(s, p) /\ Follows(p, c)

LEMMA OrderAppend ==
  ASSUME NEW q \in Seq(Job), NEW s, NEW p, NEW d, NEW t \in Nat,
         InOrder(q, s), Sent(s, p), Follows(p, d)
  PROVE  /\ InOrder(Append(q, [cmd |-> d, left |-> t]), d)
         /\ \A c : Coming(Append(q, [cmd |-> d, left |-> t]), d, c) => Coming(q, s, c)
<1> DEFINE job == [cmd |-> d, left |-> t]
           r == Append(q, job)
<1>1. d \in Command /\ d # "banner"  BY FollowsWhat, Commands
<1>2. job \in Job /\ job.cmd = d  BY <1>1 DEF Job
<1>3. /\ r \in Seq(Job) /\ Len(r) = Len(q) + 1 /\ r[Len(q) + 1] = job /\ Len(q) \in Nat
      /\ \A i \in 1 .. Len(q) : r[i] = q[i]
  BY <1>2, AppendProperties
<1>4. r # <<>>  BY <1>2, AppendProperties
<1> HIDE DEF job, r
<1>5. InOrder(r, d)
  <2>1. r[Len(r)].cmd = d /\ Sent(d, d)  BY <1>1, <1>2, <1>3 DEF Sent
  <2>2. ASSUME NEW i \in 1 .. Len(r) - 1
        PROVE  r[i + 1].cmd # "banner" /\ (r[i].cmd = "banner" \/ Follows(r[i].cmd, r[i + 1].cmd))
    <3>1. i \in 1 .. Len(q) /\ r[i] = q[i]  BY <1>3
    <3>2. CASE i = Len(q)
      <4>1. r[i + 1].cmd = d  BY <1>2, <1>3, <3>2
      <4>2. q # <<>>  BY <3>1
      <4>3. q[i].cmd = "banner" \/ q[i].cmd = p  BY <3>2, <4>2, SentWhat DEF InOrder
      <4> QED  BY <1>1, <3>1, <4>1, <4>3
    <3>3. CASE i # Len(q)
      <4>1. i \in 1 .. Len(q) - 1 /\ i + 1 \in 1 .. Len(q)  BY <1>3, <3>1, <3>3
      <4> QED  BY <1>3, <3>1, <4>1 DEF InOrder
    <3> QED  BY <3>2, <3>3
  <2> QED  BY <2>1, <2>2 DEF InOrder
<1>6. ASSUME NEW c, Coming(r, d, c) PROVE Coming(q, s, c)
  <2>1. ~(\A j \in 1 .. Len(r) : r[j].cmd = "banner")
    <3>1. Len(q) + 1 \in 1 .. Len(r)  BY <1>3
    <3> QED  BY <1>1, <1>2, <1>3, <3>1
  <2>2. PICK k \in 1 .. Len(r) :
          r[k].cmd = c /\ c # "banner" /\ \A j \in 1 .. k - 1 : r[j].cmd = "banner"
    BY <1>6, <2>1 DEF Coming
  <2>3. CASE k = Len(q) + 1
    <3>1. c = d  BY <1>2, <1>3, <2>2, <2>3
    <3>2. \A j \in 1 .. Len(q) : j \in 1 .. k - 1  BY <1>3, <2>3
    <3>3. \A j \in 1 .. Len(q) : q[j].cmd = "banner"  BY <1>3, <2>2, <3>2
    <3> QED  BY <3>1, <3>3 DEF Coming
  <2>4. CASE k # Len(q) + 1
    <3>1. k \in 1 .. Len(q) /\ \A j \in 1 .. k - 1 : j \in 1 .. Len(q)  BY <1>3, <2>4
    <3> QED  BY <1>3, <2>2, <3>1 DEF Coming
  <2> QED  BY <2>3, <2>4
<1> QED  BY <1>5, <1>6 DEF r, job

LEMMA OrderTail ==
  ASSUME NEW q \in Seq(Job), NEW s, q # <<>>, InOrder(q, s)
  PROVE  /\ InOrder(Tail(q), s)
         /\ Head(q).cmd # "banner" => Coming(q, s, Head(q).cmd)
         /\ \A c : Coming(Tail(q), s, c) =>
              IF Head(q).cmd = "banner" THEN Coming(q, s, c) ELSE Follows(Head(q).cmd, c)
<1> DEFINE r == Tail(q)
<1>1. /\ Len(q) \in Nat /\ Len(q) >= 1 /\ Head(q) = q[1]
      /\ r \in Seq(Job) /\ Len(r) = Len(q) - 1
      /\ \A i \in 1 .. Len(q) - 1 : r[i] = q[i + 1]
  BY SeqTail
<1> HIDE DEF r
<1>2. PICK n \in Nat : Len(q) = n + 1 /\ Len(r) = n
  <2>1. Len(q) - 1 \in Nat /\ Len(q) = (Len(q) - 1) + 1  BY <1>1
  <2> QED  BY <1>1, <2>1
<1>3. /\ \A i \in 1 .. n : r[i] = q[i + 1]
      /\ \A i \in 1 .. n : q[i + 1].cmd # "banner" /\ (q[i].cmd = "banner" \/ Follows(q[i].cmd, q[i + 1].cmd))
      /\ q[n + 1].cmd = "banner" \/ Sent(s, q[n + 1].cmd)
  <2>1. Len(q) - 1 = n  BY <1>2
  <2> QED  BY <1>1, <1>2, <2>1 DEF InOrder
<1>4. InOrder(r, s)
  <2>1. \A i \in 1 .. n - 1 : i \in 1 .. n /\ i + 1 \in 1 .. n  OBVIOUS
  <2>2. r # <<>> => n \in 1 .. n
    <3>1. r # <<>> => n # 0  BY <1>1, <1>2, EmptySeq
    <3> QED  BY <3>1
  <2> QED  BY <1>2, <1>3, <2>1, <2>2 DEF InOrder
<1>5. Head(q).cmd # "banner" => Coming(q, s, Head(q).cmd)
  <2>1. 1 \in 1 .. Len(q) /\ \A j \in 1 .. 1 - 1 : FALSE  BY <1>1
  <2> QED  BY <1>1, <2>1 DEF Coming
<1>6. ASSUME NEW c, Coming(r, s, c), Head(q).cmd = "banner" PROVE Coming(q, s, c)
  <2>1. q[1].cmd = "banner"  BY <1>1, <1>6
  <2>2. CASE \E k \in 1 .. n : r[k].cmd = c /\ c # "banner" /\ \A j \in 1 .. k - 1 : r[j].cmd = "banner"
    <3>1. PICK k \in 1 .. n :
            r[k].cmd = c /\ c # "banner" /\ \A j \in 1 .. k - 1 : r[j].cmd = "banner"
      BY <2>2
    <3>2. k + 1 \in 1 .. n + 1 /\ q[k + 1].cmd = c  BY <1>3, <3>1
    <3>3. ASSUME NEW j \in 1 .. (k + 1) - 1 PROVE q[j].cmd = "banner"
      <4>1. CASE j = 1
        BY <2>1, <4>1
      <4>2. CASE j # 1
        <5>1. j - 1 \in 1 .. k - 1 /\ j - 1 \in 1 .. n /\ (j - 1) + 1 = j  BY <4>2
        <5> QED  BY <1>3, <3>1, <5>1
      <4> QED  BY <4>1, <4>2
    <3> QED  BY <1>2, <3>1, <3>2, <3>3 DEF Coming
  <2>3. CASE (\A j \in 1 .. n : r[j].cmd = "banner") /\ \E p : Sent(s, p) /\ Follows(p, c)
    <3>1. ASSUME NEW j \in 1 .. n + 1 PROVE q[j].cmd = "banner"
      <4>1. CASE j = 1
        BY <2>1, <4>1
      <4>2. CASE j # 1
        <5>1. j - 1 \in 1 .. n /\ (j - 1) + 1 = j  BY <4>2
        <5> QED  BY <1>3, <2>3, <5>1
      <4> QED  BY <4>1, <4>2
    <3> QED  BY <1>2, <2>3, <3>1 DEF Coming
  <2> QED  BY <1>2, <1>6, <2>2, <2>3 DEF Coming
<1>7. ASSUME NEW c, Coming(r, s, c), Head(q).cmd # "banner" PROVE Follows(Head(q).cmd, c)
  <2>1. CASE n = 0
    <3>1. Sent(s, q[1].cmd)  BY <1>1, <1>3, <1>7, <2>1
    <3>2. ~(\E k \in 1 .. Len(r) : TRUE)  BY <1>2, <2>1
    <3>3. \E p : Sent(s, p) /\ Follows(p, c)  BY <1>7, <3>2 DEF Coming
    <3> QED  BY <1>1, <3>1, <3>3, SentWhat
  <2>2. CASE n # 0
    <3>1. 1 \in 1 .. n /\ \A j \in 1 .. n : j = 1 \/ 1 \in 1 .. j - 1  BY <2>2
    <3>2. r[1] = q[1 + 1] /\ r[1].cmd # "banner"  BY <1>3, <3>1
    <3>3. r[1].cmd = c  BY <1>2, <1>7, <3>1, <3>2 DEF Coming
    <3> QED  BY <1>1, <1>3, <1>7, <3>1, <3>2, <3>3
  <2> QED  BY <2>1, <2>2
<1> QED  BY <1>4, <1>5, <1>6, <1>7 DEF r

LEMMA OrderBanner ==
  ASSUME NEW s
  PROVE  /\ InOrder(Banner, s)
         /\ \A c : Coming(Banner, s, c) => \E p : Sent(s, p) /\ Follows(p, c)
<1>1. \A k \in 1 .. Len(Banner) : Banner[k].cmd = "banner"  BY BannerIsJobs
<1>2. Len(Banner) = 1 /\ Banner[1].cmd = "banner"  BY BannerIsJobs
<1>3. InOrder(Banner, s)  BY <1>2 DEF InOrder
<1> QED  BY <1>1, <1>3 DEF Coming

\* The order does not depend on how long a command takes, nor on a stage that
\* sends nothing.
LEMMA OrderSame ==
  ASSUME NEW q \in Seq(Job), NEW r \in Seq(Job), NEW s, NEW z, InOrder(q, s),
         Len(r) = Len(q), \A i \in 1 .. Len(q) : r[i].cmd = q[i].cmd,
         \A p : Sent(z, p) <=> Sent(s, p)
  PROVE  /\ InOrder(r, z)
         /\ \A c : Coming(r, z, c) => Coming(q, s, c)
<1>1. Len(q) \in Nat  OBVIOUS
<1>2. \A i \in 1 .. Len(q) - 1 : i \in 1 .. Len(q) /\ i + 1 \in 1 .. Len(q)  BY <1>1
<1>3. \A k \in 1 .. Len(q) : \A j \in 1 .. k - 1 : j \in 1 .. Len(q)  BY <1>1
<1>4. q # <<>> => Len(q) \in 1 .. Len(q)  BY <1>1, EmptySeq
<1>5. r # <<>> => q # <<>>  BY <1>1, EmptySeq
<1>6. InOrder(r, z)  BY <1>2, <1>4, <1>5 DEF InOrder
<1>7. \A c : Coming(r, z, c) => Coming(q, s, c)  BY <1>3 DEF Coming
<1> QED  BY <1>6, <1>7

-----------------------------------------------------------------------------
(* Never configured in place.                                              *)

\* How the sensor must stand when this command comes to it, unless it is dead.
Fit(c) ==
  sensor # "hung" =>
    /\ c = "warm" => sensor = "cli"
    /\ c \in Line \cup {start, "blank"} => sensor = "cli" /\ used = FALSE

RoundInv ==
  /\ InOrder(todo, stage)
  /\ sensor # "mute"
  /\ \A c : Coming(todo, stage, c) => Fit(c)

\* What follows a line is a line or sensorStart.
LEMMA AfterLine ==
  ASSUME NEW c, NEW d, Follows(c, d)
  PROVE  /\ c \in Command
         /\ d \in Line \cup {start, "blank"} => c \in Line \cup {"warm", "blank"}
         /\ d = "warm" => c = "stop"
<1>1. CASE c \in {"stop", "warm", "blank", start} \cup Line
  <2>1. /\ c \in Command
        /\ c = "stop" => d = "warm"
        /\ c = start => d = "stop"
        /\ c = "warm" => d = "blank"
        /\ c = "blank" => d = cfg_lines[1]
        /\ \A i \in 1 .. Len(cfg_lines) - 1 : c = cfg_lines[i] => d = cfg_lines[i + 1]
    BY FollowsWhat
  <2>2. "stop" \notin Line \cup {start, "blank"} /\ "warm" \notin Line \cup {start, "blank"}
    BY LineNames
  <2>3. cfg_lines[1] # "warm" /\ \A i \in 1 .. Len(cfg_lines) - 1 : cfg_lines[i + 1] # "warm"
    BY NamesAssumption, Lines
  <2>4. c \in Line => \E i \in 1 .. Len(cfg_lines) - 1 : c = cfg_lines[i]  BY Lines
  <2> QED  BY <1>1, <2>1, <2>2, <2>3, <2>4
<1> QED  BY <1>1, FollowsWhat DEF Command

LEMMA RoundStart == Init => RoundInv
<1> SUFFICES ASSUME Init PROVE RoundInv
  OBVIOUS
<1>1. todo = <<[cmd |-> "stop", left |-> 0]>> /\ stage = "stop"  BY DEF Init
<1>2. Len(todo) = 1 /\ todo[1].cmd = "stop"  BY <1>1
<1>3. Sent(stage, "stop")  BY <1>1, Commands DEF Sent
<1>4. InOrder(todo, stage)  BY <1>2, <1>3 DEF InOrder
<1>5. ASSUME NEW c, Coming(todo, stage, c) PROVE c = "stop"
  <2>1. ~(\A j \in 1 .. Len(todo) : todo[j].cmd = "banner")  BY <1>2
  <2> QED  BY <1>2, <1>5, <2>1 DEF Coming
<1>6. Fit("stop")  BY LineNames DEF Fit
<1> QED  BY <1>4, <1>5, <1>6 DEF RoundInv, Init

\* The sensor takes what comes.
LEMMA RoundTake ==
  ASSUME TypeOK, RoundInv, Answer \/ StartFails
  PROVE  RoundInv'
<1>0. todo # <<>> /\ todo \in Seq(Job) /\ stage' = stage
  BY DEF Answer, StartFails, Due, TypeOK
<1> DEFINE h == Head(todo).cmd
<1>1. /\ InOrder(Tail(todo), stage)
      /\ h # "banner" => Coming(todo, stage, h)
      /\ \A c : Coming(Tail(todo), stage, c) =>
           IF h = "banner" THEN Coming(todo, stage, c) ELSE Follows(h, c)
  BY <1>0, OrderTail DEF RoundInv
<1>2. h # "banner" => Fit(h)  BY <1>1 DEF RoundInv
<1>3. \A c : Coming(todo, stage, c) => Fit(c)  BY DEF RoundInv
<1>4. h \in Command \cup {"banner"}
  <2>1. Head(todo) \in Job  BY <1>0
  <2> QED  BY <2>1 DEF Job
<1>n. Answer => TakeLine(h)  BY DEF Answer
<1>s. StartFails => h = start /\ sensor = "cli"  BY DEF StartFails
<1> HIDE DEF h
<1>5. CASE todo' = Banner
  <2>1. h = "warm" /\ sensor' = "cli" /\ used' = FALSE
    <3>1. \/ Answer /\ h = "warm" /\ sensor' = "cli" /\ used' = FALSE
          \/ todo' = Tail(todo)
      BY <1>n DEF TakeLine, StartFails, Says, SaysNothing
    <3>2. CASE todo' = Tail(todo)
      \* a banner is sent by nothing but a boot, so none is behind the first
      <4>1. /\ Len(Tail(todo)) = 1 /\ Tail(todo)[1].cmd = "banner" /\ Len(todo) = 2
            /\ Tail(todo)[1] = todo[2]
        <5>1. Tail(todo) = Banner  BY <1>5, <3>2
        <5>2. /\ Len(todo) \in Nat /\ Len(Tail(todo)) = Len(todo) - 1
              /\ \A i \in 1 .. Len(todo) - 1 : Tail(todo)[i] = todo[i + 1]
          BY <1>0, SeqTail
        <5>3. Len(Tail(todo)) = 1 /\ Tail(todo)[1].cmd = "banner"  BY <5>1, BannerIsJobs
        <5>4. Len(todo) = 2  BY <5>2, <5>3
        <5> QED  BY <5>2, <5>3, <5>4
      <4>2. todo[1 + 1].cmd # "banner"  BY <4>1 DEF RoundInv, InOrder
      <4> QED  BY <4>1, <4>2
    <3> QED  BY <3>1, <3>2
  <2>2. InOrder(todo', stage')  BY <1>5, OrderBanner
  <2>3. ASSUME NEW c, Coming(todo', stage', c) PROVE Fit(c)'
    BY <2>1 DEF Fit
  <2> QED  BY <2>1, <2>2, <2>3 DEF RoundInv
<1>6. CASE todo' # Banner
  <2>1. todo' = Tail(todo)
    BY <1>6, <1>n DEF TakeLine, StartFails, Says, SaysNothing
  <2>2. InOrder(todo', stage')  BY <1>0, <1>1, <2>1
  <2>3. CASE sensor = "hung"
    <3>1. sensor' = "hung" /\ used' = used
      BY <1>6, <1>n, <1>s, <2>3 DEF TakeLine, Ignored
    <3> QED  BY <2>2, <3>1 DEF RoundInv, Fit
  <2>4. CASE sensor # "hung" /\ h = "banner"
    <3>1. sensor' = sensor /\ used' = used
      BY <1>n, <1>s, <2>4, LineNames DEF TakeLine
    <3>2. \A c : Coming(todo', stage', c) => Coming(todo, stage, c)  BY <1>0, <1>1, <2>1, <2>4
    <3> QED  BY <1>3, <2>2, <3>1, <3>2 DEF RoundInv, Fit
  <2>5. CASE sensor # "hung" /\ h # "banner"
    <3>1. \A c : Coming(todo', stage', c) => Follows(h, c)  BY <1>0, <1>1, <2>1, <2>5
    <3>2. sensor' # "mute" /\ \A c : Follows(h, c) => Fit(c)'
      <4>1. CASE h = "stop"
        <5>1. sensor' = "cli" /\ Answer
          BY <1>n, <1>s, <2>5, <4>1, LineNames DEF TakeLine, Ignored
        <5>2. \A c : Follows(h, c) => c = "warm"  BY <4>1, FollowsWhat
        <5> QED  BY <5>1, <5>2, LineNames DEF Fit
      <4>2. CASE h = "warm"
        <5>1. sensor = "cli"  BY <1>2, <2>5, <4>2 DEF Fit
        <5>2. FALSE  BY <1>6, <1>n, <1>s, <4>2, <5>1, LineNames DEF TakeLine, Ignored
        <5> QED  BY <5>2
      <4>3. CASE h = start
        <5>1. sensor = "cli" /\ used = FALSE  BY <1>2, <2>5, <4>3 DEF Fit
        <5>2. CASE Answer
          <6>1. sensor' = "streaming"
            BY <1>n, <4>3, <5>1, <5>2, LineNames, StartIsNoLine DEF TakeLine, Ignored
          <6>2. \A c : Follows(h, c) => c = "stop"  BY <4>3, FollowsWhat
          <6> QED  BY <6>1, <6>2, LineNames DEF Fit
        <5>3. CASE StartFails
          <6>1. sensor' \in {"cli", "hung"}  BY <5>1, <5>3 DEF StartFails
          <6>2. \A c : Follows(h, c) => c = "stop"  BY <4>3, FollowsWhat
          <6> QED  BY <6>1, <6>2, LineNames DEF Fit
        <5> QED  BY <5>2, <5>3
      <4>4. CASE h \in Line \cup {"blank"}
        <5>1. sensor = "cli" /\ used = FALSE  BY <1>2, <2>5, <4>4 DEF Fit
        <5>2. sensor' = "cli" /\ used' = FALSE
          BY <1>n, <1>s, <4>4, <5>1, LineNames, StartIsNoLine DEF TakeLine, Ignored
        <5> QED  BY <5>2 DEF Fit
      <4> QED  BY <1>4, <2>5, <4>1, <4>2, <4>3, <4>4 DEF Command
    <3> QED  BY <2>2, <3>1, <3>2 DEF RoundInv
  <2> QED  BY <2>3, <2>4, <2>5
<1> QED  BY <1>5, <1>6

\* A step that sends and takes nothing, of the thread or of time.
LEMMA RoundSame ==
  ASSUME TypeOK, TypeOK', RoundInv,
         Len(todo') = Len(todo), \A i \in 1 .. Len(todo) : todo'[i].cmd = todo[i].cmd,
         \A p : Sent(stage', p) <=> Sent(stage, p),
         sensor' = sensor \/ sensor' = "hung", used' = used
  PROVE  RoundInv'
<1>1. todo \in Seq(Job) /\ todo' \in Seq(Job)  BY DEF TypeOK
<1>2. InOrder(todo', stage') /\ \A c : Coming(todo', stage', c) => Coming(todo, stage, c)
  BY <1>1, OrderSame DEF RoundInv
<1> QED  BY <1>2 DEF RoundInv, Fit

LEMMA RoundStep == TypeOK /\ TypeOK' /\ RoundInv /\ [Next]_vars => RoundInv'
<1> SUFFICES ASSUME TypeOK, TypeOK', RoundInv, [Next]_vars PROVE RoundInv'
  OBVIOUS
<1>0. todo \in Seq(Job)  BY DEF TypeOK
<1>1. CASE SendsNext
  <2>1. PICK cmd, p : Sent(stage, p) /\ Follows(p, cmd) /\ \E timeout \in Timeouts : Sends(cmd, timeout)
    BY <1>1, TimeoutIs DEF SendsNext
  <2>2. PICK t \in Nat : todo' = Append(todo, [cmd |-> cmd, left |-> t]) /\ stage' = cmd
    BY <2>1 DEF Sends
  <2>3. InOrder(todo', stage') /\ \A c : Coming(todo', stage', c) => Coming(todo, stage, c)
    BY <1>0, <2>1, <2>2, OrderAppend DEF RoundInv
  <2>4. UNCHANGED <<sensor, used>>  BY <1>1 DEF SendsNext
  <2> QED  BY <2>3, <2>4 DEF RoundInv, Fit
<1>2. CASE WarmAnswered
  <2>1. stage = "warm" /\ stage' = "boot"  BY <1>2 DEF WarmAnswered, Wait
  <2>2. CASE site.wired
    <3>1. sensor' = "cli" /\ used' = FALSE /\ todo' = Banner
      BY <1>2, <2>2 DEF WarmAnswered, NrstPulse
    <3>2. InOrder(todo', stage')  BY <3>1, OrderBanner
    <3> QED  BY <3>1, <3>2 DEF RoundInv, Fit
  <2>3. CASE ~site.wired
    <3>1. UNCHANGED radar  BY <1>2, <2>3 DEF WarmAnswered, NrstPulse
    <3>2. \A p : Sent(stage', p) <=> Sent(stage, p)  BY <2>1, Commands DEF Sent
    <3> QED  BY <3>1, <3>2, RoundSame DEF radar
  <2> QED  BY <2>2, <2>3
<1>3. CASE StartAccepted \/ StartFailed
  <2>1. stage = start /\ stage' \in {"stream", "retry"} /\ UNCHANGED radar
    BY <1>3 DEF StartAccepted, StartFailed, Wait
  <2>2. \A p : Sent(stage', p) <=> Sent(stage, p)
    BY <2>1, Commands, LineNames DEF Sent
  <2> QED  BY <2>1, <2>2, RoundSame DEF radar
<1>4. CASE Answer \/ StartFails
  BY <1>4, RoundTake
<1>5. CASE Hang \/ WindowTake \/ UNCHANGED vars
  <2>1. UNCHANGED <<todo, stage, used>> /\ (sensor' = sensor \/ sensor' = "hung")
    BY <1>5 DEF Hang, WindowTake, vars, moving, thread, radar
  <2> QED  BY <2>1, RoundSame
<1>6. CASE Tick
  <2>1. UNCHANGED <<stage, sensor, used>>  BY <1>6 DEF Tick
  <2>2. Len(todo') = Len(todo) /\ \A i \in 1 .. Len(todo) : todo'[i].cmd = todo[i].cmd
    BY <1>6, TickJobs
  <2> QED  BY <2>1, <2>2, RoundSame
<1> QED  BY <1>1, <1>2, <1>3, <1>4, <1>5, <1>6, Steps

\* Whatever goes wrong and however late the sensor answers, it hears no line of
\* the profile between a sensorStart it accepted and the reset after: it is
\* never configured a second time in place (radar.c:13-14).
THEOREM NeverConfiguredInPlace == Spec => []NeverMute
<1>1. Spec => [](TypeOK /\ RoundInv)
  BY LinkStart, LinkTypes, RoundStart, RoundStep, PTL DEF Spec
<1>2. RoundInv => NeverMute  BY DEF RoundInv, NeverMute
<1> QED  BY <1>1, <1>2, PTL

-----------------------------------------------------------------------------
(* Answered in time.                                                       *)

\* The sensor answers, if at all, before cli_wait gives up on it.
Timely == \A timeout \in Timeouts : Latency < timeout

\* What it has not taken is what the thread writes or waits for, or the banner of
\* a boot.
OnTime ==
  /\ writing > 0 => stage \in Command /\ todo # <<>> /\ todo[1].cmd = stage /\ ring = <<>>
  /\ todo # <<>> =>
    /\ Len(todo) = 1 /\ todo[1].left < timer
    /\ \/ todo[1].cmd = stage /\ ring = <<>>
       \/ todo[1].cmd = "banner" /\ stage = "warm" /\ ring = <<>>
       \/ todo[1].cmd = "banner" /\ stage = "boot"

Started ==
  /\ stage = start /\ CliOk => used = TRUE
  /\ stage = "stream" => used = TRUE

TimelyInv == InTime => OnTime /\ Started

\* When the thread goes on, nothing is on its way.
LEMMA Waited ==
  ASSUME TypeOK, OnTime, IF stage \in Command THEN CliWaitEnds ELSE timer = 0
  PROVE  todo = <<>> /\ writing = 0
<1>0. todo = <<>> => writing = 0
  <2>1. writing \in Nat  BY TimesAssumption DEF TypeOK
  <2> QED  BY <2>1 DEF OnTime
<1> SUFFICES ASSUME todo # <<>> PROVE FALSE
  BY <1>0
<1>1. todo[1] \in Job /\ timer \in Nat
  <2>1. todo \in Seq(Job) /\ 1 \in 1 .. Len(todo)  BY DEF TypeOK, OnTime
  <2> QED  BY <2>1 DEF TypeOK
<1>2. todo[1].left \in Nat /\ todo[1].cmd \in Command \cup {"banner"}  BY <1>1 DEF Job
<1>3. todo[1].left < timer  BY DEF OnTime
<1>4. timer # 0  BY <1>1, <1>2, <1>3
<1>5. CASE stage \in Command
  <2>1. ring # <<>>  BY <1>4, <1>5 DEF CliWaitEnds
  <2> QED  BY <1>5, <2>1, Commands DEF OnTime
<1>6. CASE stage \notin Command
  BY <1>4, <1>6
<1> QED  BY <1>5, <1>6

LEMMA TimelyStart == Init => TimelyInv
<1> SUFFICES ASSUME Init PROVE TimelyInv
  OBVIOUS
<1>1. Len(todo) = 1 /\ todo[1].cmd = "stop" /\ todo[1].left = 0 /\ stage = "stop" /\ ring = <<>>
      /\ timer = StopTimeout /\ todo # <<>>
  BY DEF Init
<1>2. start # "stop" /\ "stop" \in Command  BY LineNames, Commands
<1>3. timer > 0  BY <1>1, TimeFacts DEF Timeouts
<1> QED  BY <1>1, <1>2, <1>3 DEF TimelyInv, OnTime, Started

LEMMA TimelyStep == Timely /\ TypeOK /\ TimelyInv /\ [Next]_vars => TimelyInv'
<1> SUFFICES ASSUME Timely, TypeOK, TimelyInv, [Next]_vars PROVE TimelyInv'
  OBVIOUS
<1> SUFFICES ASSUME InTime PROVE OnTime' /\ Started'
  <2>1. site' = site  BY Steps
  <2> QED  BY <2>1 DEF TimelyInv, InTime
<1>0. OnTime /\ Started  BY DEF TimelyInv
<1>a. stage # "warm" \/ stage # start  BY LineNames
<1>w. writing \in Nat  BY TimesAssumption DEF TypeOK
<1>1. CASE SendsNext
  <2>1. todo = <<>>  BY <1>0, <1>1, Waited DEF SendsNext
  <2>2. PICK cmd, p : Sent(stage, p) /\ Follows(p, cmd) /\ \E timeout \in Timeouts : Sends(cmd, timeout)
    BY <1>1, TimeoutIs DEF SendsNext
  <2>3. PICK timeout \in Timeouts : Sends(cmd, timeout)  BY <2>2
  <2>4. PICK t \in Nat : /\ todo' = Append(todo, [cmd |-> cmd, left |-> t])
                         /\ stage' = cmd /\ timer' = timeout /\ ring' = <<>> /\ t <= Latency
    BY <2>3 DEF Sends
  <2>5. todo' = <<[cmd |-> cmd, left |-> t]>>  BY <2>1, <2>4
  <2>6. Len(todo') = 1 /\ todo'[1].cmd = cmd /\ todo'[1].left = t /\ todo' # <<>>  BY <2>5
  <2>7. t < timeout
    <3>1. Latency \in Nat /\ timeout \in Nat /\ Latency < timeout  BY TimesAssumption DEF Timely, Timeouts
    <3> QED  BY <2>4, <3>1
  <2>8. cmd # "stream" /\ cmd \in Command  BY <2>2, FollowsWhat, Commands
  <2> QED  BY <2>4, <2>6, <2>7, <2>8 DEF OnTime, Started, CliOk
<1>2. CASE WarmAnswered
  <2>1. stage = "warm" /\ CliWaitEnds /\ stage' = "boot" /\ timer' = BootWait
        /\ writing' = writing
    BY <1>2 DEF WarmAnswered, Wait
  <2>2. todo = <<>> /\ writing = 0  BY <1>0, <2>1, Waited, Commands
  <2>3. todo' = <<>> \/ todo' = Banner
    BY <1>2, <2>2 DEF WarmAnswered, NrstPulse, radar
  <2>4. BootWait > 0  BY TimeFacts
  <2>5. OnTime'  BY <2>1, <2>2, <2>3, <2>4, BannerIsJobs DEF OnTime
  <2> QED  BY <2>1, <2>5, LineNames DEF Started
<1>3. CASE StartAccepted \/ StartFailed
  <2>1. /\ stage = start /\ CliWaitEnds /\ stage' \in {"stream", "retry"}
        /\ UNCHANGED radar /\ (stage' = "stream" => CliOk) /\ writing' = writing
    BY <1>3 DEF StartAccepted, StartFailed, Wait
  <2>2. todo' = <<>> /\ writing' = 0  BY <1>0, <2>1, Waited, Commands DEF radar
  <2>3. stage' = "stream" => used' = TRUE  BY <1>0, <2>1 DEF Started, radar
  <2> QED  BY <2>1, <2>2, <2>3, LineNames DEF OnTime, Started
<1>4. CASE Answer \/ StartFails
  <2>0. /\ todo # <<>> /\ UNCHANGED <<stage, writing, timer>> /\ Heard
        /\ todo \in Seq(Job) /\ ring \in Seq(Reply)
    BY <1>4 DEF Answer, StartFails, Due, TypeOK
  <2> DEFINE h == Head(todo).cmd
  <2>1. /\ Len(todo) = 1 /\ Head(todo) = todo[1] /\ todo[1].left < timer /\ todo[1].left = 0
        /\ \/ h = stage /\ ring = <<>>
           \/ h = "banner" /\ stage = "warm" /\ ring = <<>>
           \/ h = "banner" /\ stage = "boot"
    <3>1. Head(todo) = todo[1] /\ Head(todo).left = 0  BY <1>4, <2>0 DEF Answer, StartFails, Due
    <3> QED  BY <1>0, <2>0, <3>1 DEF OnTime
  <2>w. writing' = 0
    <3>1. Head(todo) = todo[1]  BY <2>0
    <3> QED  BY <1>0, <1>w, <2>0, <3>1 DEF OnTime, Heard
  <2>2. Tail(todo) = <<>>
    <3>1. Tail(todo) \in Seq(Job) /\ Len(Tail(todo)) = 0  BY <2>0, <2>1, SeqTail
    <3> QED  BY <3>1, EmptySeq
  <2>n. Answer => TakeLine(h)  BY DEF Answer
  <2>s. StartFails => h = start  BY DEF StartFails
  <2> HIDE DEF h
  <2>3. OnTime'
    <3>1. CASE todo' = Tail(todo)
      BY <2>2, <2>w, <3>1 DEF OnTime
    <3>2. CASE todo' # Tail(todo)
      <4>1. h = "warm" /\ todo' = Banner /\ ring' = ring
        BY <1>4, <2>n, <3>2 DEF TakeLine, StartFails, Says, SaysNothing
      <4>2. ring' = <<>> /\ stage' = "warm"  BY <2>0, <2>1, <4>1
      <4>3. 0 < timer'  BY <2>0, <2>1
      <4> QED  BY <2>w, <4>1, <4>2, <4>3, BannerIsJobs DEF OnTime
    <3> QED  BY <3>1, <3>2
  <2>4. Started'
    <3>1. CASE stage = start
      <4>1. h = start /\ ring = <<>>  BY <2>1, <3>1, LineNames
      <4>2. ASSUME CliOk' PROVE used' = TRUE
        <5>1. ring' # <<>> /\ Head(ring') = "done"  BY <4>2 DEF CliOk
        <5>2. ~StartFails
          <6>1. ASSUME StartFails PROVE ring' = <<>> \/ ring' = Append(<<>>, "error")
            BY <4>1, <6>1 DEF StartFails, Says, SaysNothing
          <6>2. Append(<<>>, "error") = <<"error">> /\ Head(<<"error">>) = "error"  OBVIOUS
          <6> QED  BY <5>1, <6>1, <6>2
        <5>3. TakeLine(start)  BY <1>4, <2>n, <4>1, <5>2
        <5>4. ~(SaysNothing)  BY <4>1, <5>1 DEF SaysNothing
        <5> QED  BY <5>3, <5>4, LineNames, StartIsNoLine DEF TakeLine
      <4> QED  BY <2>0, <3>1, <4>2, LineNames DEF Started
    <3>2. CASE stage # start
      <4>1. stage # "stream"
        <5>1. h \in Command \cup {"banner"}
          <6>1. Head(todo) \in Job  BY <2>0
          <6> QED  BY <6>1 DEF Job, h
        <5> QED  BY <2>1, <5>1, Commands
      <4> QED  BY <2>0, <3>2, <4>1 DEF Started
    <3> QED  BY <3>1, <3>2
  <2> QED  BY <2>3, <2>4
<1>5. CASE Hang \/ WindowTake \/ UNCHANGED vars
  <2>1. UNCHANGED <<todo, stage, writing, timer, ring, used>>
    BY <1>5 DEF Hang, WindowTake, vars, moving, thread, radar
  <2> QED  BY <1>0, <2>1 DEF OnTime, Started, CliOk
<1>6. CASE Tick
  <2>1. UNCHANGED <<stage, ring, used>>  BY <1>6 DEF Tick
  <2>2. Started'  BY <1>0, <2>1 DEF Started, CliOk
  <2>t. \/ writing > 0 /\ writing' = writing - 1 /\ timer' = timer
        \/ writing = 0 /\ writing' = 0 /\ timer' = StallClock
    BY <1>6, TickTimes
  <2>3. CASE todo = <<>>
    <3>1. todo' = <<>>  BY <1>6, <2>3 DEF Tick, SensorTime
    <3>2. writing' = 0  BY <1>0, <1>w, <2>3, <2>t DEF OnTime
    <3> QED  BY <2>2, <3>1, <3>2 DEF OnTime
  <2>4. CASE todo # <<>>
    <3>0. /\ Len(todo) = 1 /\ todo[1].left < timer /\ 1 \in 1 .. Len(todo)
          /\ Head(todo) = todo[1]
      BY <1>0, <2>4 DEF OnTime, TypeOK
    <3>1. Len(todo') = 1 /\ todo'[1].cmd = todo[1].cmd /\ todo' # <<>>
      <4>1. Len(todo') = 1 /\ todo'[1].cmd = todo[1].cmd
        BY <1>6, <2>4, <3>0, TickJobs
      <4>2. todo' # <<>>  BY <4>1
      <4> QED  BY <4>1, <4>2
    <3>2. CASE writing > 0
      <4>1. ~Heard  BY <1>0, <1>w, <3>0, <3>2 DEF OnTime, Heard
      <4>2. todo' = todo /\ timer' = timer  BY <1>6, <2>4, <2>t, <3>2, <4>1, TickJobs
      <4>3. stage \in Command /\ todo[1].cmd = stage /\ ring = <<>>  BY <1>0, <3>2 DEF OnTime
      <4> QED  BY <2>1, <2>2, <3>0, <3>1, <4>2, <4>3 DEF OnTime
    <3>3. CASE ~(writing > 0)
      <4>1. stage # "stream"
        <5>1. todo[1] \in Job
          <6>1. todo \in Seq(Job)  BY DEF TypeOK
          <6> QED  BY <3>0, <6>1
        <5>2. todo[1].cmd \in Command \cup {"banner"}  BY <5>1 DEF Job
        <5> QED  BY <1>0, <2>4, <5>2, Commands DEF OnTime
      <4>2. timer' = timer - 1 /\ writing' = 0
        BY <2>t, <3>3, <4>1 DEF StallClock, Frame
      <4>3. todo[1].left \in Nat \ {0} /\ todo'[1].left = todo[1].left - 1
        BY <1>6, <2>4, <2>t, <3>3, TickJobs DEF Heard
      <4>4. timer \in Nat  BY DEF TypeOK
      <4>5. todo'[1].left < timer'  BY <3>0, <4>2, <4>3, <4>4
      <4> QED  BY <1>0, <2>1, <2>2, <2>4, <3>1, <4>2, <4>5 DEF OnTime
    <3> QED  BY <3>2, <3>3
  <2> QED  BY <2>3, <2>4
<1> QED  BY <1>1, <1>2, <1>3, <1>4, <1>5, <1>6, Steps

\* A sensor that answers within every wait: the thread streams only from one that
\* has accepted sensorStart since its last reset (radar.c:389), and no answer to
\* another line is taken for that.
THEOREM NoAnswerForAnother ==
  ASSUME Timely
  PROVE  Spec => []StreamMeansStarted
<1>1. Spec => [](TypeOK /\ TimelyInv)
  BY LinkStart, LinkTypes, TimelyStart, TimelyStep, PTL DEF Spec
<1>2. TimelyInv => StreamMeansStarted  BY DEF TimelyInv, Started, StreamMeansStarted
<1> QED  BY <1>1, <1>2, PTL

-----------------------------------------------------------------------------
(* The whole profile.                                                      *)

\* What a sensor that has taken the first i - 1 lines has accepted.
Before(i) == {cfg_lines[j] : j \in 1 .. i - 1} \ Rejected

\* A reset wipes out what was sent behind it: nothing may be.
WarmIsLast ==
  \A k \in 1 .. Len(todo) : todo[k].cmd = "warm" => k = Len(todo) /\ stage = "warm"

\* What the sensor has accepted when this command comes to it.
Has(c) ==
  sensor # "hung" =>
    /\ c = "blank" => profile = {}
    /\ \A i \in 1 .. Len(cfg_lines) : c = cfg_lines[i] => profile = Before(i)

ProfileInv ==
  /\ WarmIsLast
  /\ \A c : Coming(todo, stage, c) => Has(c)
  /\ WholeProfile

\* A bench whose sensor may answer late has the wire that resets it for good.
WiredOrInTime == \A s \in Sites : s.wired \/ "late" \notin s.kinds

LEMMA BeforeIs ==
  /\ Before(1) = {}
  /\ Before(Len(cfg_lines)) = Line \ Rejected
  /\ \A i \in 1 .. Len(cfg_lines) - 1 : Before(i + 1) = Before(i) \cup ({cfg_lines[i]} \ Rejected)
<1>1. Before(1) = {}  BY DEF Before
<1>2. Before(Len(cfg_lines)) = Line \ Rejected  BY DEF Before, Line
<1>3. ASSUME NEW i \in 1 .. Len(cfg_lines) - 1
      PROVE  Before(i + 1) = Before(i) \cup ({cfg_lines[i]} \ Rejected)
  <2>1. \A j : j \in 1 .. (i + 1) - 1 <=> j \in 1 .. i - 1 \/ j = i  BY Lines
  <2> QED  BY <2>1 DEF Before
<1> QED  BY <1>1, <1>2, <1>3

\* Nothing is asked of a sensor that is told to stop or to reset.
LEMMA StopHas ==
  \A c \in {"stop", "warm"} : c # "blank" /\ \A i \in 1 .. Len(cfg_lines) : c # cfg_lines[i]
BY NamesAssumption

LEMMA ProfileStart == Init => ProfileInv
<1> SUFFICES ASSUME Init PROVE ProfileInv
  OBVIOUS
<1>1. Len(todo) = 1 /\ todo[1].cmd = "stop"  BY DEF Init
<1>2. WarmIsLast  BY <1>1 DEF WarmIsLast
<1>3. ASSUME NEW c, Coming(todo, stage, c) PROVE c = "stop"
  <2>1. ~(\A j \in 1 .. Len(todo) : todo[j].cmd = "banner")  BY <1>1
  <2> QED  BY <1>1, <1>3, <2>1 DEF Coming
<1>4. Has("stop")  BY StopHas DEF Has
<1>5. WholeProfile  BY DEF Init, WholeProfile
<1> QED  BY <1>2, <1>3, <1>4, <1>5 DEF ProfileInv

\* The sensor takes what comes.
LEMMA ProfileTake ==
  ASSUME TypeOK, RoundInv, ProfileInv, Answer \/ StartFails
  PROVE  ProfileInv'
<1>0. todo # <<>> /\ todo \in Seq(Job) /\ stage' = stage
  BY DEF Answer, StartFails, Due, TypeOK
<1> DEFINE h == Head(todo).cmd
<1>1. /\ h # "banner" => Coming(todo, stage, h)
      /\ \A c : Coming(Tail(todo), stage, c) =>
           IF h = "banner" THEN Coming(todo, stage, c) ELSE Follows(h, c)
  BY <1>0, OrderTail DEF RoundInv
<1>2. h # "banner" => Fit(h) /\ Has(h)  BY <1>1 DEF RoundInv, ProfileInv
<1>3. \A c : Coming(todo, stage, c) => Has(c)  BY DEF ProfileInv
<1>4. h \in Command \cup {"banner"} /\ h = todo[1].cmd
  <2>1. Head(todo) \in Job /\ Head(todo) = todo[1]  BY <1>0
  <2> QED  BY <2>1 DEF Job
<1>5. /\ Len(todo) \in Nat /\ Len(todo) >= 1 /\ Len(Tail(todo)) = Len(todo) - 1
      /\ \A i \in 1 .. Len(todo) - 1 : Tail(todo)[i] = todo[i + 1]
  BY <1>0, SeqTail
<1>n. Answer => TakeLine(h)  BY DEF Answer
<1>s. StartFails => h = start /\ sensor = "cli"  BY DEF StartFails
<1> HIDE DEF h
<1>6. CASE Answer /\ h = "warm" /\ sensor' = "cli" /\ profile' = {} /\ todo' = Banner
  <2>1. 1 \in 1 .. Len(todo)  BY <1>5
  <2>2. stage' = "warm"  BY <1>0, <1>4, <1>6, <2>1 DEF ProfileInv, WarmIsLast
  <2>3. ASSUME NEW c, Coming(todo', stage', c) PROVE c = "blank"
    <3>1. PICK p : Sent("warm", p) /\ Follows(p, c)  BY <1>6, <2>2, <2>3, OrderBanner
    <3>2. p = "warm"  BY <3>1 DEF Sent
    <3> QED  BY <3>1, <3>2, FollowsWhat
  <2>4. \A i \in 1 .. Len(cfg_lines) : cfg_lines[i] # "blank"  BY NamesAssumption
  <2>5. Has("blank")'  BY <1>6, <2>4 DEF Has
  <2>6. WarmIsLast'  BY <1>6, BannerIsJobs DEF WarmIsLast
  <2>7. WholeProfile'  BY <1>6 DEF WholeProfile
  <2> QED  BY <2>3, <2>5, <2>6, <2>7 DEF ProfileInv
<1>7. CASE ~(Answer /\ h = "warm" /\ sensor' = "cli" /\ profile' = {} /\ todo' = Banner)
  <2>1. todo' = Tail(todo)
    BY <1>7, <1>n DEF TakeLine, StartFails, Says, SaysNothing
  <2>2. WarmIsLast'
    <3>1. ASSUME NEW k \in 1 .. Len(todo) - 1, todo'[k].cmd = "warm"
          PROVE  k = Len(todo) - 1 /\ stage' = "warm"
      <4>1. todo'[k] = todo[k + 1] /\ k + 1 \in 1 .. Len(todo)  BY <1>5, <2>1
      <4>2. k + 1 = Len(todo) /\ stage = "warm"  BY <3>1, <4>1 DEF ProfileInv, WarmIsLast
      <4>3. \A z \in Nat : \A y \in 1 .. z - 1 : y + 1 = z => y = z - 1  OBVIOUS
      <4>4. Len(todo) \in Nat /\ stage' = stage  BY <1>0, <1>5
      <4> QED  BY <4>2, <4>3, <4>4
    <3>2. Len(todo') = Len(todo) - 1  BY <1>5, <2>1
    <3> QED  BY <3>1, <3>2 DEF WarmIsLast
  <2>3. CASE sensor = "hung"
    <3>1. sensor' = "hung"
      BY <1>7, <1>n, <1>s, <2>3 DEF TakeLine, Ignored
    <3> QED  BY <2>2, <3>1 DEF ProfileInv, Has, WholeProfile
  <2>4. CASE sensor # "hung" /\ h = "banner"
    <3>1. sensor' = sensor /\ profile' = profile
      BY <1>n, <1>s, <2>4, LineNames DEF TakeLine
    <3>2. \A c : Coming(todo', stage', c) => Coming(todo, stage, c)  BY <1>0, <1>1, <2>1, <2>4
    <3> QED  BY <1>3, <2>2, <3>1, <3>2 DEF ProfileInv, Has, WholeProfile
  <2>5. CASE sensor # "hung" /\ h # "banner"
    <3>1. \A c : Coming(todo', stage', c) => Follows(h, c)  BY <1>0, <1>1, <2>1, <2>5
    <3>2. WholeProfile' /\ \A c : Follows(h, c) => Has(c)'
      <4>1. CASE h = "stop"
        <5>1. sensor' = "cli"
          BY <1>n, <1>s, <2>5, <4>1, LineNames DEF TakeLine, Ignored
        <5>2. \A c : Follows(h, c) => c = "warm"  BY <4>1, FollowsWhat
        <5> QED  BY <5>1, <5>2, StopHas DEF Has, WholeProfile
      <4>2. CASE h = "warm"
        <5>1. sensor = "cli"  BY <1>2, <2>5, <4>2 DEF Fit
        <5>2. FALSE  BY <1>7, <1>n, <1>s, <4>2, <5>1, LineNames DEF TakeLine, Ignored
        <5> QED  BY <5>2
      <4>3. CASE h = start
        <5>1. sensor = "cli" /\ used = FALSE  BY <1>2, <2>5, <4>3 DEF Fit
        <5>2. profile = Line \ Rejected
          <6>1. Len(cfg_lines) \in 1 .. Len(cfg_lines)  BY Lines
          <6> QED  BY <1>2, <2>5, <4>3, <6>1, BeforeIs DEF Has, start
        <5>3. profile' = profile
          <6>1. CASE Answer
            BY <1>n, <4>3, <5>1, <6>1, LineNames, StartIsNoLine DEF TakeLine, Ignored
          <6> QED  BY <6>1 DEF StartFails
        <5>4. \A c : Follows(h, c) => c = "stop"  BY <4>3, FollowsWhat
        <5> QED  BY <5>2, <5>3, <5>4, StopHas DEF Has, WholeProfile
      <4>4. CASE h = "blank"
        <5>1. sensor = "cli" /\ profile = {}  BY <1>2, <2>5, <4>4 DEF Fit, Has
        <5>2. sensor' = "cli" /\ profile' = {}
          BY <1>n, <1>s, <4>4, <5>1, LineNames, StartIsNoLine DEF TakeLine, Ignored
        <5>3. \A c : Follows(h, c) => c = cfg_lines[1]  BY <4>4, FollowsWhat
        <5>4. Has(cfg_lines[1])'
          <6>1. cfg_lines[1] # "blank" /\ 1 \in 1 .. Len(cfg_lines)  BY Lines, NamesAssumption
          <6>2. \A i \in 1 .. Len(cfg_lines) : cfg_lines[1] = cfg_lines[i] => i = 1
            BY <6>1, LinesAssumption
          <6> QED  BY <5>2, <6>1, <6>2, BeforeIs DEF Has
        <5> QED  BY <5>2, <5>3, <5>4 DEF WholeProfile
      <4>5. CASE h \in Line
        <5>1. PICK i \in 1 .. Len(cfg_lines) - 1 : h = cfg_lines[i]  BY <4>5, Lines
        <5>2. /\ i \in 1 .. Len(cfg_lines) /\ i + 1 \in 1 .. Len(cfg_lines)
              /\ cfg_lines[i + 1] # "blank"
          BY Lines, NamesAssumption
        <5>3. sensor = "cli" /\ profile = Before(i)
          BY <1>2, <2>5, <4>5, <5>1, <5>2 DEF Fit, Has
        <5>4. sensor' = "cli" /\ profile' = profile \cup ({h} \ Rejected)
          BY <1>n, <1>s, <4>5, <5>3, LineNames, StartIsNoLine DEF TakeLine, Ignored
        <5>5. profile' = Before(i + 1)  BY <5>1, <5>3, <5>4, BeforeIs
        <5>6. \A c : Follows(h, c) => c = cfg_lines[i + 1]  BY <5>1, FollowsWhat
        <5>7. \A j \in 1 .. Len(cfg_lines) : cfg_lines[i + 1] = cfg_lines[j] => j = i + 1
          BY <5>2, LinesAssumption
        <5>8. Has(cfg_lines[i + 1])'  BY <5>2, <5>5, <5>7 DEF Has
        <5> QED  BY <5>4, <5>6, <5>8 DEF WholeProfile
      <4> QED  BY <1>4, <2>5, <4>1, <4>2, <4>3, <4>4, <4>5 DEF Command
    <3> QED  BY <2>2, <3>1, <3>2 DEF ProfileInv
  <2> QED  BY <2>3, <2>4, <2>5
<1> QED  BY <1>6, <1>7

LEMMA ProfileSame ==
  ASSUME TypeOK, TypeOK', RoundInv, ProfileInv,
         Len(todo') = Len(todo), \A i \in 1 .. Len(todo) : todo'[i].cmd = todo[i].cmd,
         \A p : Sent(stage', p) <=> Sent(stage, p),
         stage' = stage \/ todo = <<>> \/ stage # "warm",
         sensor' = sensor \/ sensor' = "hung", profile' = profile
  PROVE  ProfileInv'
<1>1. todo \in Seq(Job) /\ todo' \in Seq(Job)  BY DEF TypeOK
<1>2. \A c : Coming(todo', stage', c) => Coming(todo, stage, c)
  BY <1>1, OrderSame DEF RoundInv
<1>3. WarmIsLast'
  <2>1. ASSUME todo = <<>> PROVE Len(todo') = 0  BY <2>1
  <2> QED  BY <2>1 DEF ProfileInv, WarmIsLast
<1> QED  BY <1>2, <1>3 DEF ProfileInv, Has, WholeProfile

LEMMA ProfileStep ==
  WiredOrInTime /\ TypeOK /\ TypeOK' /\ RoundInv /\ TimelyInv /\ ProfileInv /\ [Next]_vars
    => ProfileInv'
<1> SUFFICES ASSUME WiredOrInTime, TypeOK, TypeOK', RoundInv, TimelyInv, ProfileInv, [Next]_vars
             PROVE  ProfileInv'
  OBVIOUS
<1>0. todo \in Seq(Job) /\ (site.wired \/ OnTime)
  BY DEF TypeOK, WiredOrInTime, TimelyInv, InTime
<1>1. CASE SendsNext
  <2>1. PICK cmd, p : Sent(stage, p) /\ Follows(p, cmd) /\ \E timeout \in Timeouts : Sends(cmd, timeout)
    BY <1>1, TimeoutIs DEF SendsNext
  <2>2. PICK t \in Nat : todo' = Append(todo, [cmd |-> cmd, left |-> t]) /\ stage' = cmd
    BY <2>1 DEF Sends
  <2>3. \A c : Coming(todo', stage', c) => Coming(todo, stage, c)
    BY <1>0, <2>1, <2>2, OrderAppend DEF RoundInv
  <2>4. UNCHANGED <<sensor, profile>> /\ stage # "warm"  BY <1>1 DEF SendsNext
  <2>5. [cmd |-> cmd, left |-> t] \in Job  BY <2>1, FollowsWhat DEF Job
  <2>6. /\ Len(todo) \in Nat /\ Len(todo') = Len(todo) + 1
        /\ todo'[Len(todo) + 1] = [cmd |-> cmd, left |-> t]
        /\ \A k \in 1 .. Len(todo) : todo'[k] = todo[k]
    BY <1>0, <2>2, <2>5, AppendProperties
  <2>7. WarmIsLast'
    <3>1. ASSUME NEW k \in 1 .. Len(todo) + 1, todo'[k].cmd = "warm"
          PROVE  k = Len(todo) + 1 /\ stage' = "warm"
      <4>1. CASE k = Len(todo) + 1
        BY <2>2, <2>6, <3>1, <4>1
      <4>2. CASE k # Len(todo) + 1
        <5>1. k \in 1 .. Len(todo)  BY <2>6, <4>2
        <5> QED  BY <2>4, <2>6, <3>1, <5>1 DEF ProfileInv, WarmIsLast
      <4> QED  BY <4>1, <4>2
    <3> QED  BY <2>6, <3>1 DEF WarmIsLast
  <2> QED  BY <2>3, <2>4, <2>7 DEF ProfileInv, Has, WholeProfile
<1>2. CASE WarmAnswered
  <2>1. stage = "warm" /\ CliWaitEnds /\ stage' = "boot"  BY <1>2 DEF WarmAnswered, Wait
  <2>2. CASE site.wired
    <3>1. sensor' = "cli" /\ profile' = {} /\ todo' = Banner
      BY <1>2, <2>2 DEF WarmAnswered, NrstPulse
    <3>2. ASSUME NEW c, Coming(todo', stage', c) PROVE c = "blank"
      <4>1. PICK p : Sent("boot", p) /\ Follows(p, c)  BY <2>1, <3>1, <3>2, OrderBanner
      <4>2. p = "warm"  BY <4>1, Commands DEF Sent
      <4> QED  BY <4>1, <4>2, FollowsWhat
    <3>3. \A i \in 1 .. Len(cfg_lines) : cfg_lines[i] # "blank"  BY NamesAssumption
    <3>4. Has("blank")'  BY <3>1, <3>3 DEF Has
    <3>5. WarmIsLast'  BY <3>1, BannerIsJobs DEF WarmIsLast
    <3> QED  BY <3>1, <3>2, <3>4, <3>5 DEF ProfileInv, WholeProfile
  <2>3. CASE ~site.wired
    <3>1. UNCHANGED radar  BY <1>2, <2>3 DEF WarmAnswered, NrstPulse
    <3>2. \A p : Sent(stage', p) <=> Sent(stage, p)  BY <2>1, Commands DEF Sent
    <3>3. todo = <<>>  BY <1>0, <2>1, <2>3, Waited, Commands
    <3> QED  BY <3>1, <3>2, <3>3, ProfileSame DEF radar
  <2> QED  BY <2>2, <2>3
<1>3. CASE StartAccepted \/ StartFailed
  <2>1. stage = start /\ stage' \in {"stream", "retry"} /\ UNCHANGED radar
    BY <1>3 DEF StartAccepted, StartFailed, Wait
  <2>2. \A p : Sent(stage', p) <=> Sent(stage, p)
    BY <2>1, Commands, LineNames DEF Sent
  <2>3. stage # "warm"  BY <2>1, LineNames
  <2> QED  BY <2>1, <2>2, <2>3, ProfileSame DEF radar
<1>4. CASE Answer \/ StartFails
  BY <1>4, ProfileTake
<1>5. CASE Hang \/ WindowTake \/ UNCHANGED vars
  <2>1. UNCHANGED <<todo, stage, profile>> /\ (sensor' = sensor \/ sensor' = "hung")
    BY <1>5 DEF Hang, WindowTake, vars, moving, thread, radar
  <2> QED  BY <2>1, ProfileSame
<1>6. CASE Tick
  <2>1. UNCHANGED <<stage, sensor, profile>>  BY <1>6 DEF Tick
  <2>2. Len(todo') = Len(todo) /\ \A i \in 1 .. Len(todo) : todo'[i].cmd = todo[i].cmd
    BY <1>6, TickJobs
  <2> QED  BY <2>1, <2>2, ProfileSame
<1> QED  BY <1>1, <1>2, <1>3, <1>4, <1>5, <1>6, Steps

\* However the sensor hangs or refuses to start, and late as it may answer where
\* NRST is wired, one that streams has accepted every line of the profile its
\* image does not reject: none went to a sensor that was reset after it.
THEOREM StreamsTheWholeProfile ==
  ASSUME Timely, WiredOrInTime
  PROVE  Spec => []WholeProfile
<1>1. Spec => [](TypeOK /\ RoundInv /\ TimelyInv /\ ProfileInv)
  BY LinkStart, LinkTypes, RoundStart, RoundStep, TimelyStart, TimelyStep,
     ProfileStart, ProfileStep, PTL DEF Spec
<1>2. ProfileInv => WholeProfile  BY DEF ProfileInv
<1> QED  BY <1>1, <1>2, PTL

-----------------------------------------------------------------------------
(* What the sensor does while the thread waits.                            *)

\* A sensor that can stop dead has the wire that brings it back.
DeadIsWired == \A s \in Sites : s.wired \/ s.kinds \cap {"hang", "startFails"} = {}

\* What the sensor does, at each stage, and how much longer the thread waits.
Modes ==
  /\ sensor = "hung" => /\ site.wired
                        /\ stage \in {"stop", "warm", start, "retry", "stream"}
                        /\ stage = start => todo = <<>>
  /\ sensor = "streaming" => \/ stage = "stop" /\ todo # <<>>
                             \/ stage = start /\ CliOk /\ todo = <<>>
                             \/ stage = "stream" /\ timer = RADAR_STALL_MS
  /\ sensor # "hung" /\ stage \in Command /\ todo = <<>> => ring # <<>>
  /\ stage \in {"stop", "warm"} => timer <= StopTimeout
  /\ stage = start => timer <= StartTimeout
  /\ stage = "stream" => timer <= RADAR_STALL_MS

LEMMA StageNames ==
  /\ start \notin {"stop", "warm", "blank", "banner", "boot", "retry", "stream"}
  /\ start \notin Line
  /\ \A c \in Line : c \notin {"stop", "warm", "blank", "banner", "boot", "retry", "stream"}
BY LineNames, StartIsNoLine

LEMMA ModesStart == DeadIsWired /\ Init => Modes
<1> SUFFICES ASSUME DeadIsWired, Init PROVE Modes
  OBVIOUS
<1>1. stage = "stop" /\ timer = StopTimeout /\ todo = <<[cmd |-> "stop", left |-> 0]>>
  BY DEF Init
<1>2. todo # <<>>  BY <1>1
<1>3. sensor = "hung" => site.wired
  BY DEF Init, DeadIsWired
<1>4. timer <= StopTimeout  BY <1>1, TimeFacts DEF Timeouts
<1> QED  BY <1>1, <1>2, <1>3, <1>4, StageNames DEF Modes

\* The sensor takes what the thread waits for.
LEMMA TakesInTime ==
  ASSUME TypeOK, RoundInv, OnTime, Modes, Answer
  PROVE  /\ UNCHANGED <<stage, writing, timer, main, wrong>>
         /\ sensor = "hung" => sensor' = "hung" /\ todo' = <<>> /\ ring' = ring
         /\ sensor # "hung" => /\ sensor' # "hung"
                               /\ todo' = <<>> => ring' # <<>>
                               /\ todo' # <<>> => todo' = Banner
         /\ stage \in Command \cup {"boot"}
         /\ stage = start => sensor' = "streaming" /\ CliOk' /\ todo' = <<>>
         /\ stage # start => sensor' # "streaming"
<1>0. /\ todo # <<>> /\ UNCHANGED <<stage, writing, timer, main>> /\ todo \in Seq(Job) /\ ring \in Seq(Reply)
      /\ sensor \in {"cli", "streaming", "hung"}
  BY DEF Answer, Due, TypeOK, RoundInv
<1> DEFINE h == Head(todo).cmd
<1>1. /\ Head(todo) = todo[1] /\ Len(todo) = 1
      /\ \/ h = stage /\ ring = <<>>
         \/ h = "banner" /\ stage = "warm" /\ ring = <<>>
         \/ h = "banner" /\ stage = "boot"
  <2>1. Head(todo) = todo[1]  BY <1>0
  <2> QED  BY <1>0, <2>1 DEF OnTime
<1>2. Tail(todo) = <<>>
  <2>1. Tail(todo) \in Seq(Job) /\ Len(Tail(todo)) = 0  BY <1>0, <1>1, SeqTail
  <2> QED  BY <2>1, EmptySeq
<1>3. h \in Command \cup {"banner"}
  <2>1. Head(todo) \in Job  BY <1>0
  <2> QED  BY <2>1 DEF Job
<1>4. TakeLine(h)  BY DEF Answer
<1>5. h # "banner" => Fit(h)
  <2>1. h # "banner" => Coming(todo, stage, h)  BY <1>0, OrderTail DEF RoundInv
  <2> QED  BY <2>1 DEF RoundInv
<1> HIDE DEF h
<1>6. \A reply : Append(ring, reply) # <<>>
  BY <1>0
<1>7. stage \in Command \cup {"boot"}
  <2>1. stage # "banner"  BY Commands DEF TypeOK, Stage
  <2> QED  BY <1>1, <1>3, <2>1, Commands
<1>8. CASE sensor = "hung"
  <2>1. SaysNothing /\ UNCHANGED <<sensor, wrong>>
    BY <1>4, <1>8 DEF TakeLine, Ignored
  <2>2. stage # start  BY <1>0, <1>8 DEF Modes
  <2> QED  BY <1>0, <1>2, <1>7, <1>8, <2>1, <2>2 DEF SaysNothing
<1>9. CASE sensor = "streaming"
  <2>1. stage = "stop"  BY <1>0, <1>7, <1>9, Commands DEF Modes
  <2>2. h = "stop"  BY <1>1, <2>1
  <2>3. Says("done") /\ sensor' = "cli" /\ UNCHANGED wrong
    BY <1>4, <1>9, <2>2, StageNames DEF TakeLine, Ignored
  <2> QED  BY <1>0, <1>2, <1>6, <1>7, <1>9, <2>1, <2>3, StageNames DEF Says
<1>10. CASE sensor = "cli"
  <2>1. CASE h = "stop"
    <3>1. Says("done") /\ sensor' = "cli" /\ UNCHANGED wrong
      BY <1>4, <1>10, <2>1, StageNames DEF TakeLine, Ignored
    <3>2. stage # start  BY <1>1, <2>1, StageNames
    <3> QED  BY <1>0, <1>2, <1>6, <1>7, <1>10, <3>1, <3>2 DEF Says
  <2>2. CASE h = "warm"
    <3>1. todo' = Banner /\ sensor' = "cli" /\ UNCHANGED <<ring, wrong>>
      BY <1>4, <1>10, <2>2, StageNames DEF TakeLine, Ignored
    <3>2. stage # start  BY <1>1, <2>2, StageNames
    <3>3. todo' # <<>>  BY <3>1 DEF Banner
    <3> QED  BY <1>0, <1>7, <1>10, <3>1, <3>2, <3>3
  <2>3. CASE h \in {"blank", "banner"}
    <3>1. Says("prompt") /\ UNCHANGED <<sensor, wrong>>
      BY <1>4, <1>10, <2>3, StageNames DEF TakeLine, Ignored
    <3>2. stage # start  BY <1>1, <2>3, StageNames
    <3> QED  BY <1>0, <1>2, <1>6, <1>7, <1>10, <3>1, <3>2 DEF Says
  <2>4. CASE h \in Line
    <3>1. /\ Says(IF h \in Rejected THEN "error" ELSE "done")
          /\ UNCHANGED <<sensor, wrong>>
      BY <1>4, <1>10, <2>4, StageNames DEF TakeLine, Ignored
    <3>2. stage # start  BY <1>1, <2>4, StageNames
    <3> QED  BY <1>0, <1>2, <1>6, <1>7, <1>10, <3>1, <3>2 DEF Says
  <2>5. CASE h = start
    <3>1. used = FALSE  BY <1>5, <1>10, <2>5, StageNames DEF Fit
    <3>2. Says("done") /\ sensor' = "streaming" /\ UNCHANGED wrong
      BY <1>4, <1>10, <2>5, <3>1, StageNames DEF TakeLine, Ignored
    <3>3. stage = start /\ ring = <<>>  BY <1>1, <2>5, StageNames
    <3>4. ring' = <<"done">> /\ todo' = <<>>  BY <1>2, <3>2, <3>3 DEF Says
    <3>5. CliOk' /\ ring' # <<>>  BY <3>4 DEF CliOk
    <3> QED  BY <1>0, <1>7, <1>10, <3>2, <3>3, <3>4, <3>5
  <2> QED  BY <1>3, <2>1, <2>2, <2>3, <2>4, <2>5 DEF Command
<1> QED  BY <1>0, <1>8, <1>9, <1>10

LEMMA ModesStep ==
  ASSUME DeadIsWired, TypeOK, RoundInv, OnTime, Modes, InTime, [Next]_vars
  PROVE  Modes'
<1>0. /\ timer \in Nat /\ site' = site /\ site \in Sites
      /\ StopTimeout \in Nat \ {0} /\ StartTimeout \in Nat \ {0} /\ RADAR_STALL_MS \in Nat \ {0}
  BY Steps, TimeFacts DEF TypeOK, Timeouts
<1>1. CASE SendsNext
  <2>1. todo = <<>>  BY <1>1, Waited DEF SendsNext
  <2>2. PICK cmd, p : Sent(stage, p) /\ Follows(p, cmd) /\ Sends(cmd, TimeoutFor(cmd))
    BY <1>1 DEF SendsNext
  <2>3. PICK t \in Nat : /\ todo' = Append(todo, [cmd |-> cmd, left |-> t])
                         /\ stage' = cmd /\ timer' = TimeoutFor(cmd) /\ ring' = <<>>
    BY <2>2 DEF Sends
  <2>4. todo' # <<>>  BY <2>1, <2>3
  <2>5. UNCHANGED <<sensor>> /\ stage # "warm" /\ stage # start  BY <1>1 DEF SendsNext
  <2>6. sensor = "hung" => cmd \in {"warm", "stop"} /\ site.wired
    <3>1. ASSUME sensor = "hung" PROVE stage \in {"stop", "retry", "stream"} /\ site.wired
      BY <2>5, <3>1 DEF Modes
    <3>2. ASSUME stage \in {"stop", "retry", "stream"} PROVE p \in {"stop", start}
      BY <2>2, <3>2, Commands DEF Sent
    <3>3. ASSUME p \in {"stop", start} PROVE cmd \in {"warm", "stop"}
      BY <2>2, <3>3, FollowsWhat
    <3> QED  BY <3>1, <3>2, <3>3
  <2>7. sensor # "streaming"
    <3>1. ASSUME sensor = "streaming" PROVE stage = "stream" /\ timer = RADAR_STALL_MS
      BY <2>1, <2>5, <3>1 DEF Modes
    <3>2. stage = "stream" => timer = 0  BY <1>1, Commands DEF SendsNext
    <3> QED  BY <1>0, <3>1, <3>2
  <2>8. /\ cmd \in {"stop", "warm"} => timer' = StopTimeout
        /\ cmd = start => timer' = StartTimeout
        /\ cmd # "stream"
    <3>1. cmd # "stream"  BY <2>2, FollowsWhat, Commands
    <3> QED  BY <2>3, <3>1, StageNames DEF TimeoutFor
  <2> QED  BY <1>0, <2>3, <2>4, <2>5, <2>6, <2>7, <2>8, StageNames DEF Modes
<1>2. CASE WarmAnswered
  <2>1. stage = "warm" /\ stage' = "boot"  BY <1>2 DEF WarmAnswered, Wait
  <2>2. sensor # "streaming"  BY <2>1, StageNames DEF Modes
  <2>3. sensor' # "hung" /\ sensor' # "streaming"
    <3>1. CASE site.wired
      BY <1>2, <3>1 DEF WarmAnswered, NrstPulse
    <3>2. CASE ~site.wired
      BY <1>2, <2>2, <3>2 DEF WarmAnswered, NrstPulse, Modes, radar
    <3> QED  BY <3>1, <3>2
  <2> QED  BY <2>1, <2>3, StageNames, Commands DEF Modes
<1>3. CASE StartAccepted \/ StartFailed
  <2>1. /\ stage = start /\ UNCHANGED radar
        /\ \/ stage' = "stream" /\ timer' = RADAR_STALL_MS
           \/ stage' = "retry" /\ ~CliOk
    BY <1>3 DEF StartAccepted, StartFailed, Wait
  <2>2. stage' = "retry" => sensor' # "streaming"
    BY <2>1, StageNames DEF Modes, radar
  <2> QED  BY <1>0, <2>1, <2>2, StageNames, Commands DEF Modes, radar
<1>4. CASE Answer
  <2>1. /\ UNCHANGED <<stage, timer>>
        /\ sensor = "hung" => sensor' = "hung" /\ todo' = <<>> /\ ring' = ring
        /\ sensor # "hung" => /\ sensor' # "hung"
                              /\ todo' = <<>> => ring' # <<>>
        /\ stage = start => sensor' = "streaming" /\ CliOk' /\ todo' = <<>>
        /\ stage # start => sensor' # "streaming"
    BY <1>4, TakesInTime
  <2> QED  BY <1>0, <2>1 DEF Modes
<1>5. CASE StartFails
  <2>1. stage = start /\ ring = <<>> /\ todo' = Tail(todo) /\ Len(todo) = 1
    <3>1. todo # <<>> /\ todo \in Seq(Job) /\ Head(todo).cmd = start /\ Head(todo) = todo[1]
      BY <1>5 DEF StartFails, Due, TypeOK
    <3> QED  BY <1>5, <3>1, StageNames DEF OnTime, StartFails, Says, SaysNothing
  <2>2. todo' = <<>>
    <3>1. todo # <<>> /\ todo \in Seq(Job)  BY <1>5 DEF StartFails, Due, TypeOK
    <3>2. Tail(todo) \in Seq(Job) /\ Len(Tail(todo)) = 0  BY <2>1, <3>1, SeqTail
    <3> QED  BY <2>1, <3>2, EmptySeq
  <2>3. stage' = start /\ timer' = timer  BY <1>5, <2>1 DEF StartFails
  <2>4. \/ sensor' = "hung" /\ site.wired
        \/ sensor' = "cli" /\ ring' # <<>>
    <3>1. CASE SaysNothing /\ sensor' = "hung" /\ "startFails" \in site.kinds
      <4>1. site.wired  BY <1>0, <3>1 DEF DeadIsWired
      <4> QED  BY <3>1, <4>1
    <3>2. CASE Says("error") /\ UNCHANGED sensor
      <4>1. ring' = <<"error">>  BY <2>1, <3>2 DEF Says
      <4> QED  BY <1>5, <3>2, <4>1 DEF StartFails
    <3> QED  BY <1>5, <3>1, <3>2 DEF StartFails
  <2> QED  BY <1>0, <2>1, <2>2, <2>3, <2>4, StageNames DEF Modes
<1>6. CASE Hang
  <2>1. sensor = "streaming" /\ sensor' = "hung" /\ UNCHANGED <<stage, timer, ring, todo>>
    BY <1>6 DEF Hang, thread
  <2>2. site.wired  BY <1>0, <1>6 DEF Hang, DeadIsWired
  <2> QED  BY <1>0, <2>1, <2>2, StageNames DEF Modes
<1>7. CASE WindowTake \/ UNCHANGED vars
  <2>1. UNCHANGED <<stage, timer, ring, todo, sensor>>
    BY <1>7 DEF WindowTake, vars, moving, thread, radar
  <2> QED  BY <1>0, <2>1 DEF Modes, CliOk
<1>8. CASE Tick
  <2>1. UNCHANGED <<stage, ring, sensor>>  BY <1>8 DEF Tick
  <2>t. timer' = timer \/ (timer > 0 /\ timer' = StallClock)  BY <1>8, TickTimes
  <2>2. todo' = <<>> <=> todo = <<>>
    <3>1. Len(todo') = Len(todo) /\ todo \in Seq(Job) /\ todo' \in Seq(Job)
      BY <1>8, TickJobs DEF TypeOK
    <3> QED  BY <3>1, EmptySeq
  <2>3. timer' <= timer \/ (stage = "stream" /\ timer' = RADAR_STALL_MS)
    BY <1>0, <2>t DEF StallClock, Frame
  <2>4. stage = "stream" /\ sensor = "streaming" => timer' = RADAR_STALL_MS
    <3>1. stage = "stream" /\ sensor = "streaming" => timer = RADAR_STALL_MS
      BY StageNames DEF Modes
    <3> QED  BY <2>t, <3>1 DEF StallClock, Frame
  <2>5. timer' \in Nat  BY <1>8, TickTimes
  <2>6. CliOk' = CliOk  BY <2>1 DEF CliOk
  <2>7. /\ stage' \in {"stop", "warm"} => timer' <= StopTimeout
        /\ stage' = start => timer' <= StartTimeout
        /\ stage' = "stream" => timer' <= RADAR_STALL_MS
    BY <1>0, <2>1, <2>3, <2>5, StageNames DEF Modes
  <2>8. /\ sensor' = "hung" => /\ site'.wired
                               /\ stage' \in {"stop", "warm", start, "retry", "stream"}
                               /\ stage' = start => todo' = <<>>
        /\ sensor' # "hung" /\ stage' \in Command /\ todo' = <<>> => ring' # <<>>
    BY <1>0, <2>1, <2>2 DEF Modes
  <2>9. sensor' = "streaming" => \/ stage' = "stop" /\ todo' # <<>>
                                 \/ stage' = start /\ CliOk' /\ todo' = <<>>
                                 \/ stage' = "stream" /\ timer' = RADAR_STALL_MS
    BY <2>1, <2>2, <2>4, <2>6 DEF Modes
  <2> QED  BY <2>7, <2>8, <2>9 DEF Modes
<1> QED  BY <1>1, <1>2, <1>3, <1>4, <1>5, <1>6, <1>7, <1>8, Steps

-----------------------------------------------------------------------------
(* The time a restart takes.                                               *)

\* A line is written and answered; a dead sensor lets sensorStop and the warm
\* reset time out.
Takes    == WriteTime + Latency
StopTime == WriteTime + (IF sensor = "hung" THEN StopTimeout ELSE Latency)

Cmds(k) == k * Takes

\* From the pulse of NRST to the answer to sensorStart, and from "stop" on.
Bring   == BootWait + Cmds(Len(cfg_lines) + 1)
Round   == StopTime + StopTime + Bring
Healthy == Takes + Takes + Bring
Dead    == (WriteTime + StopTimeout) + (WriteTime + StopTimeout) + Bring

\* What a fault adds at most: sensorStart times out, and a round more, the
\* sensor dead; a stall is noticed no later.
FaultCost == StartTimeout + RetryWait + Dead

\* Until cli_wait returns.
AnswerIn ==
  writing + (IF sensor = "hung" THEN timer ELSE IF todo = <<>> THEN 0 ELSE todo[1].left)

\* A frame is due within b, if nothing more goes wrong.
Within(b) ==
  \/ stage = "stop" /\ AnswerIn + StopTime + Bring <= b
  \/ stage = "warm" /\ AnswerIn + Bring <= b
  \/ stage = "boot" /\ timer + Cmds(Len(cfg_lines) + 1) <= b
  \/ stage = "blank" /\ AnswerIn + Cmds(Len(cfg_lines)) <= b
  \/ \E i \in 1 .. Len(cfg_lines) - 1 :
       stage = cfg_lines[i] /\ AnswerIn + Cmds(Len(cfg_lines) - i) <= b
  \/ stage = start /\ todo # <<>> /\ AnswerIn <= b
  \/ stage = start /\ todo = <<>> /\ CliOk
     /\ (sensor # "streaming" => RADAR_STALL_MS + Round <= b)
  \/ stage = start /\ todo = <<>> /\ ~CliOk
     /\ (IF ring = <<>> THEN timer ELSE 0) + RetryWait + Round <= b
  \/ stage = "retry" /\ timer + Round <= b
  \/ stage = "stream" /\ (sensor # "streaming" => timer + Round <= b)

LEMMA Multiples ==
  ASSUME NEW m \in Nat, NEW k \in Nat
  PROVE  k * m \in Nat /\ (k + 1) * m = k * m + m
OBVIOUS

LEMMA CmdsAre == Takes \in Nat /\ \A k \in Nat : Cmds(k) \in Nat /\ Cmds(k + 1) = Cmds(k) + Takes
<1>1. Takes \in Nat  BY TimesAssumption DEF Takes
<1> QED  BY <1>1, Multiples DEF Cmds

LEMMA BudgetTypes ==
  /\ WriteTime \in Nat /\ Takes \in Nat /\ Takes = WriteTime + Latency
  /\ Latency \in Nat /\ StopTimeout \in Nat /\ StartTimeout \in Nat
  /\ BootWait \in Nat /\ RetryWait \in Nat /\ RADAR_STALL_MS \in Nat
  /\ Bring \in Nat /\ Bring = BootWait + Cmds(Len(cfg_lines) + 1)
  /\ Healthy \in Nat /\ Dead \in Nat /\ FaultCost \in Nat
  /\ Len(cfg_lines) \in Nat /\ Cmds(Len(cfg_lines)) \in Nat
  /\ Cmds(Len(cfg_lines) + 1) = Cmds(Len(cfg_lines)) + Takes
<1>1. /\ Latency \in Nat /\ StopTimeout \in Nat /\ StartTimeout \in Nat
      /\ BootWait \in Nat /\ RetryWait \in Nat /\ RADAR_STALL_MS \in Nat
      /\ WriteTime \in Nat /\ Takes \in Nat /\ Takes = WriteTime + Latency
  BY TimesAssumption DEF Takes
<1>2. /\ Len(cfg_lines) \in Nat /\ Cmds(Len(cfg_lines)) \in Nat
      /\ Cmds(Len(cfg_lines) + 1) = Cmds(Len(cfg_lines)) + Takes
  BY Lines, CmdsAre
<1>3. Bring \in Nat  BY <1>1, <1>2 DEF Bring
<1>4. Dead \in Nat  BY <1>1, <1>3 DEF Dead
<1> QED  BY <1>1, <1>2, <1>3, <1>4 DEF Bring, Healthy, FaultCost

LEMMA WaitTypes ==
  ASSUME TypeOK
  PROVE  /\ timer \in Nat /\ writing \in Nat /\ AnswerIn \in Nat /\ StopTime \in Nat
         /\ Round \in Nat /\ Round = StopTime + StopTime + Bring
<1>1. timer \in Nat /\ todo \in Seq(Job) /\ writing \in Nat  BY BudgetTypes DEF TypeOK
<1>2. StopTime \in Nat  BY BudgetTypes DEF StopTime
<1>3. AnswerIn \in Nat
  <2>1. ASSUME todo # <<>> PROVE todo[1].left \in Nat
    <3>1. todo[1] \in Job  BY <1>1, <2>1
    <3> QED  BY <3>1 DEF Job
  <2> QED  BY <1>1, <2>1 DEF AnswerIn
<1> QED  BY <1>1, <1>2, <1>3, BudgetTypes DEF Round

\* What it says of each stage.
LEMMA WithinIs ==
  ASSUME NEW b \in Nat, Within(b)
  PROVE  /\ stage = "stop" => AnswerIn + StopTime + Bring <= b
         /\ stage = "warm" => AnswerIn + Bring <= b
         /\ stage = "boot" => timer + Cmds(Len(cfg_lines) + 1) <= b
         /\ stage = "blank" => AnswerIn + Cmds(Len(cfg_lines)) <= b
         /\ \A i \in 1 .. Len(cfg_lines) - 1 :
              stage = cfg_lines[i] => AnswerIn + Cmds(Len(cfg_lines) - i) <= b
         /\ stage = start =>
              /\ todo # <<>> => AnswerIn <= b
              /\ todo = <<>> /\ CliOk /\ sensor # "streaming" => RADAR_STALL_MS + Round <= b
              /\ todo = <<>> /\ ~CliOk =>
                   (IF ring = <<>> THEN timer ELSE 0) + RetryWait + Round <= b
         /\ stage = "retry" => timer + Round <= b
         /\ stage = "stream" => (sensor # "streaming" => timer + Round <= b)
         /\ stage \in {"stop", "warm", "boot", "blank", start, "retry", "stream"} \cup Line
<1>1. \A i \in 1 .. Len(cfg_lines) - 1 :
        /\ cfg_lines[i] \notin {"stop", "warm", "boot", "blank", start, "retry", "stream"}
        /\ cfg_lines[i] \in Line
  BY Lines, StageNames
<1>2. \A i, j \in 1 .. Len(cfg_lines) - 1 : cfg_lines[i] = cfg_lines[j] => i = j
  BY Lines, LinesAssumption
<1>3. CASE \E i \in 1 .. Len(cfg_lines) - 1 :
             stage = cfg_lines[i] /\ AnswerIn + Cmds(Len(cfg_lines) - i) <= b
  <2>1. PICK i \in 1 .. Len(cfg_lines) - 1 :
          stage = cfg_lines[i] /\ AnswerIn + Cmds(Len(cfg_lines) - i) <= b
    BY <1>3
  <2> QED  BY <1>1, <1>2, <2>1
<1>4. CASE ~\E i \in 1 .. Len(cfg_lines) - 1 :
             stage = cfg_lines[i] /\ AnswerIn + Cmds(Len(cfg_lines) - i) <= b
  BY <1>1, <1>4, StageNames DEF Within
<1> QED  BY <1>3, <1>4

\* The next command goes out when the last is answered.
LEMMA SendWithin ==
  ASSUME Timely, TypeOK, OnTime, Modes, InTime, SendsNext, NEW b \in Nat, Within(b)
  PROVE  Within(b)' /\ UNCHANGED <<wrong, main>>
<1>0. /\ timer \in Nat /\ AnswerIn \in Nat /\ StopTime \in Nat
      /\ Round = StopTime + StopTime + Bring
  BY WaitTypes
<1>1. todo = <<>> /\ UNCHANGED <<sensor, main>> /\ stage # "warm" /\ stage # start
  BY Waited DEF SendsNext
<1>2. PICK cmd, p : Sent(stage, p) /\ Follows(p, cmd) /\ Sends(cmd, TimeoutFor(cmd))
  BY DEF SendsNext
<1>3. PICK t \in Nat : /\ todo' = Append(todo, [cmd |-> cmd, left |-> t])
                       /\ stage' = cmd /\ timer' = TimeoutFor(cmd)
                       /\ writing' \in 0 .. WriteTime
                       /\ t <= Latency /\ UNCHANGED wrong
  BY <1>2 DEF Sends
<1> SUFFICES Within(b)'
  BY <1>1, <1>3
<1>4. todo' # <<>> /\ todo'[1].left = t  BY <1>1, <1>3
<1>5. AnswerIn' = writing' + (IF sensor = "hung" THEN TimeoutFor(cmd) ELSE t)
  BY <1>1, <1>3, <1>4 DEF AnswerIn
<1>6. StopTime' = StopTime  BY <1>1 DEF StopTime
<1>w. \A u, v \in Nat : v <= u => writing' + v \in Nat /\ writing' + v <= WriteTime + u
  <2>1. \A m \in Nat : \A n \in 0 .. m : \A u, v \in Nat :
          v <= u => n + v \in Nat /\ n + v <= m + u
    OBVIOUS
  <2> QED  BY <1>3, <2>1, BudgetTypes
<1>7. cmd \in {"stop", "warm"} => AnswerIn' \in Nat /\ AnswerIn' <= StopTime
  <2> SUFFICES ASSUME cmd \in {"stop", "warm"} PROVE AnswerIn' \in Nat /\ AnswerIn' <= StopTime
    OBVIOUS
  <2>1. CASE sensor = "hung"
    <3>1. AnswerIn' = writing' + StopTimeout /\ StopTime = WriteTime + StopTimeout
      BY <1>5, <2>1 DEF TimeoutFor, StopTime
    <3> QED  BY <1>w, <3>1, BudgetTypes
  <2>2. CASE sensor # "hung"
    <3>1. AnswerIn' = writing' + t /\ StopTime = WriteTime + Latency
      BY <1>5, <2>2 DEF StopTime
    <3> QED  BY <1>3, <1>w, <3>1, BudgetTypes
  <2> QED  BY <2>1, <2>2
<1>8. sensor # "hung" => AnswerIn' \in Nat /\ AnswerIn' <= Takes
  <2> SUFFICES ASSUME sensor # "hung" PROVE AnswerIn' \in Nat /\ AnswerIn' <= Takes
    OBVIOUS
  <2>1. AnswerIn' = writing' + t  BY <1>5
  <2> QED  BY <1>3, <1>w, <2>1, BudgetTypes
<1>9. CASE stage = "stop"
  <2>1. cmd = "warm"
    <3>1. p = "stop"  BY <1>2, <1>9, Commands DEF Sent
    <3> QED  BY <1>2, <3>1, FollowsWhat
  <2>2. AnswerIn + StopTime + Bring <= b  BY <1>9, WithinIs
  <2>3. AnswerIn' + Bring <= b
    <3>1. \A u, v, w, c \in Nat : w <= v /\ u + v + c <= b => w + c <= b  OBVIOUS
    <3>2. AnswerIn' \in Nat /\ AnswerIn' <= StopTime  BY <1>7, <2>1
    <3>3. Bring \in Nat  BY BudgetTypes
    <3> QED  BY <1>0, <2>2, <3>1, <3>2, <3>3
  <2> QED  BY <1>3, <2>1, <2>3 DEF Within
<1>10. CASE stage = "boot"
  <2>1. cmd = "blank"
    <3>1. p = "warm"  BY <1>2, <1>10, Commands DEF Sent
    <3> QED  BY <1>2, <3>1, FollowsWhat
  <2>2. timer + Cmds(Len(cfg_lines) + 1) <= b  BY <1>10, WithinIs
  <2>3. sensor # "hung"  BY <1>10, StageNames DEF Modes
  <2>4. AnswerIn' + Cmds(Len(cfg_lines)) <= b
    <3>1. \A v, w, c, l \in Nat : v + (c + l) <= b /\ w <= l => w + c <= b  OBVIOUS
    <3>2. timer + (Cmds(Len(cfg_lines)) + Takes) <= b  BY <2>2, BudgetTypes
    <3>3. AnswerIn' \in Nat /\ AnswerIn' <= Takes  BY <1>8, <2>3
    <3>4. Cmds(Len(cfg_lines)) \in Nat /\ Takes \in Nat  BY BudgetTypes
    <3> QED  BY <1>0, <3>1, <3>2, <3>3, <3>4
  <2> QED  BY <1>3, <2>1, <2>4 DEF Within
<1>11. CASE stage = "blank"
  <2>1. cmd = cfg_lines[1]
    <3>1. p = "blank"  BY <1>2, <1>11, Commands DEF Sent
    <3> QED  BY <1>2, <3>1, FollowsWhat
  <2>2. AnswerIn + Cmds(Len(cfg_lines)) <= b  BY <1>11, WithinIs
  <2>3. sensor # "hung"  BY <1>11, StageNames DEF Modes
  <2> DEFINE k == Len(cfg_lines) - 1
  <2>4. k \in Nat /\ Len(cfg_lines) = k + 1 /\ Len(cfg_lines) - 1 = k  BY Lines
  <2> HIDE DEF k
  <2>5. Cmds(k) \in Nat /\ Cmds(Len(cfg_lines)) = Cmds(k) + Takes  BY <2>4, CmdsAre
  <2>6. AnswerIn' + Cmds(k) <= b
    <3>1. \A v, w, c, l \in Nat : v + (c + l) <= b /\ w <= l => w + c <= b  OBVIOUS
    <3>2. AnswerIn + (Cmds(k) + Takes) <= b  BY <2>2, <2>5
    <3>3. AnswerIn' \in Nat /\ AnswerIn' <= Takes /\ Takes \in Nat
      BY <1>8, <2>3, BudgetTypes
    <3> QED  BY <1>0, <2>5, <3>1, <3>2, <3>3
  <2>7. 1 \in 1 .. Len(cfg_lines) - 1  BY Lines
  <2> QED  BY <1>3, <2>1, <2>4, <2>6, <2>7 DEF Within
<1>12. CASE stage \in Line
  <2>1. PICK i \in 1 .. Len(cfg_lines) - 1 : stage = cfg_lines[i]  BY <1>12, Lines
  <2>2. cmd = cfg_lines[i + 1]
    <3>1. p = stage  BY <1>2, <1>12, StageNames DEF Sent
    <3> QED  BY <1>2, <2>1, <3>1, FollowsWhat
  <2>3. sensor # "hung"  BY <1>12, StageNames DEF Modes
  <2> DEFINE k == Len(cfg_lines) - (i + 1)
  <2>4. k \in Nat /\ Len(cfg_lines) - i = k + 1 /\ Len(cfg_lines) - (i + 1) = k  BY Lines
  <2> HIDE DEF k
  <2>5. AnswerIn + Cmds(k + 1) <= b  BY <2>1, <2>4, WithinIs
  <2>6. Cmds(k) \in Nat /\ Cmds(k + 1) = Cmds(k) + Takes  BY <2>4, CmdsAre
  <2>7. AnswerIn' + Cmds(k) <= b /\ AnswerIn' <= b
    <3>1. \A v, w, c, l \in Nat : v + (c + l) <= b /\ w <= l => w + c <= b /\ w <= b
      OBVIOUS
    <3>2. AnswerIn + (Cmds(k) + Takes) <= b  BY <2>5, <2>6
    <3>3. AnswerIn' \in Nat /\ AnswerIn' <= Takes /\ Takes \in Nat
      BY <1>8, <2>3, BudgetTypes
    <3> QED  BY <1>0, <2>6, <3>1, <3>2, <3>3
  <2>8. CASE i + 1 \in 1 .. Len(cfg_lines) - 1
    BY <1>3, <2>2, <2>4, <2>7, <2>8 DEF Within
  <2>9. CASE i + 1 \notin 1 .. Len(cfg_lines) - 1
    <3>1. i + 1 = Len(cfg_lines)  BY <2>9, Lines
    <3>2. cmd = start  BY <2>2, <3>1 DEF start
    <3> QED  BY <1>3, <1>4, <2>7, <3>2 DEF Within
  <2> QED  BY <2>8, <2>9
<1>13. CASE stage \in {"retry", "stream"}
  <2>1. cmd = "stop" /\ timer = 0
    <3>1. p = start  BY <1>2, <1>13, Commands DEF Sent
    <3> QED  BY <1>2, <1>13, <3>1, FollowsWhat, Commands DEF SendsNext
  <2>2. stage = "stream" => sensor # "streaming"
    BY <1>13, <2>1, StageNames, TimeFacts DEF Modes
  <2>3. timer + Round <= b  BY <1>13, <2>2, WithinIs
  <2>4. AnswerIn' + StopTime + Bring <= b
    <3>1. \A v, w, c \in Nat : w <= v /\ 0 + (v + v + c) <= b => w + v + c <= b  OBVIOUS
    <3>2. AnswerIn' \in Nat /\ AnswerIn' <= StopTime  BY <1>7, <2>1
    <3>3. 0 + (StopTime + StopTime + Bring) <= b  BY <1>0, <2>1, <2>3
    <3> QED  BY <1>0, <3>1, <3>2, <3>3, BudgetTypes
  <2> QED  BY <1>3, <1>6, <2>1, <2>4 DEF Within
<1>14. stage \in {"stop", "boot", "blank", "retry", "stream"} \cup Line
  BY <1>1, WithinIs
<1> QED  BY <1>1, <1>3, <1>9, <1>10, <1>11, <1>12, <1>13, <1>14

\* NRST is pulsed, or sensorStart's answer is in.
LEMMA WaitWithin ==
  ASSUME Timely, TypeOK, OnTime, Modes, WarmAnswered \/ StartAccepted \/ StartFailed,
         NEW b \in Nat, Within(b)
  PROVE  Within(b)' /\ UNCHANGED <<wrong, main>>
<1>0. /\ timer \in Nat /\ AnswerIn \in Nat /\ Round \in Nat  BY WaitTypes
<1>1. todo = <<>>
  BY Waited, Commands DEF WarmAnswered, StartAccepted, StartFailed
<1>2. CASE WarmAnswered
  <2>1. stage = "warm" /\ stage' = "boot" /\ timer' = BootWait /\ UNCHANGED <<wrong, main>>
    BY <1>2 DEF WarmAnswered, Wait
  <2>2. AnswerIn + Bring <= b  BY <2>1, WithinIs
  <2>3. BootWait + Cmds(Len(cfg_lines) + 1) <= b  BY <1>0, <2>2, BudgetTypes
  <2> QED  BY <2>1, <2>3 DEF Within
<1>3. CASE StartAccepted
  <2>1. /\ stage = start /\ CliOk /\ stage' = "stream" /\ timer' = RADAR_STALL_MS
        /\ UNCHANGED <<sensor, wrong, main>>
    BY <1>3 DEF StartAccepted, Wait, radar
  <2>2. sensor # "streaming" => RADAR_STALL_MS + Round <= b  BY <1>1, <2>1, WithinIs
  <2>3. Round' = Round  BY <2>1 DEF Round, StopTime
  <2> QED  BY <2>1, <2>2, <2>3 DEF Within
<1>4. CASE StartFailed
  <2>1. /\ stage = start /\ ~CliOk /\ stage' = "retry" /\ timer' = RetryWait
        /\ UNCHANGED <<sensor, wrong, main>>
    BY <1>4 DEF StartFailed, Wait, radar
  <2>2. (IF ring = <<>> THEN timer ELSE 0) + RetryWait + Round <= b  BY <1>1, <2>1, WithinIs
  <2>3. RetryWait + Round <= b  BY <1>0, <2>2, BudgetTypes
  <2>4. Round' = Round  BY <2>1 DEF Round, StopTime
  <2> QED  BY <2>1, <2>3, <2>4 DEF Within
<1> QED  BY <1>2, <1>3, <1>4

\* The sensor takes what it was sent.
LEMMA AnswerWithin ==
  ASSUME TypeOK, RoundInv, OnTime, Modes, Answer, NEW b \in Nat, Within(b)
  PROVE  Within(b)' /\ UNCHANGED <<wrong, main>>
<1>0. /\ timer \in Nat /\ AnswerIn \in Nat /\ Round \in Nat /\ StopTime \in Nat /\ writing \in Nat
  BY WaitTypes
<1>1. /\ UNCHANGED <<stage, writing, timer, main, wrong>>
      /\ sensor = "hung" => sensor' = "hung" /\ todo' = <<>> /\ ring' = ring
      /\ sensor # "hung" => sensor' # "hung" /\ (todo' # <<>> => todo' = Banner)
      /\ stage \in Command \cup {"boot"}
      /\ stage = start => sensor' = "streaming" /\ CliOk' /\ todo' = <<>>
  BY TakesInTime
<1> SUFFICES Within(b)'
  BY <1>1
<1>2. StopTime' = StopTime  BY <1>1 DEF StopTime
<1>3. AnswerIn' <= AnswerIn /\ AnswerIn' \in Nat
  <2>1. CASE sensor = "hung"
    BY <1>0, <1>1, <2>1 DEF AnswerIn
  <2>2. CASE sensor # "hung"
    <3>1. AnswerIn' = writing + 0  BY <1>1, <2>2, BannerIsJobs DEF AnswerIn
    <3>2. todo # <<>> => todo[1].left \in Nat
      <4>1. todo # <<>> => todo[1] \in Job  BY DEF TypeOK
      <4> QED  BY <4>1 DEF Job
    <3> QED  BY <1>0, <2>2, <3>1, <3>2 DEF AnswerIn
  <2> QED  BY <2>1, <2>2
<1>4. stage # "retry" /\ stage # "stream"  BY <1>1, Commands
<1>5. CASE stage = start
  BY <1>1, <1>5 DEF Within
<1>6. CASE stage \in {"stop", "warm", "boot", "blank"}
  <2>1. \A v, w, c \in Nat : v <= w /\ w + c <= b => v + c <= b  OBVIOUS
  <2>2. stage = "stop" => AnswerIn' + StopTime + Bring <= b
    <3>1. \A v, w, c, d \in Nat : v <= w /\ w + c + d <= b => v + c + d <= b  OBVIOUS
    <3> QED  BY <1>0, <1>3, <3>1, WithinIs, BudgetTypes
  <2>3. stage = "warm" => AnswerIn' + Bring <= b
    BY <1>0, <1>3, <2>1, WithinIs, BudgetTypes
  <2>4. stage = "blank" => AnswerIn' + Cmds(Len(cfg_lines)) <= b
    BY <1>0, <1>3, <2>1, WithinIs, BudgetTypes
  <2>5. stage = "boot" => timer + Cmds(Len(cfg_lines) + 1) <= b  BY WithinIs
  <2> QED  BY <1>1, <1>2, <1>6, <2>2, <2>3, <2>4, <2>5 DEF Within
<1>7. CASE stage \in Line
  <2>1. PICK i \in 1 .. Len(cfg_lines) - 1 : stage = cfg_lines[i]  BY <1>7, Lines
  <2>2. AnswerIn + Cmds(Len(cfg_lines) - i) <= b  BY <2>1, WithinIs
  <2>3. Cmds(Len(cfg_lines) - i) \in Nat
    <3>1. Len(cfg_lines) - i \in Nat  BY Lines
    <3> QED  BY <3>1, CmdsAre
  <2>4. AnswerIn' + Cmds(Len(cfg_lines) - i) <= b
    <3>1. \A v, w, c \in Nat : v <= w /\ w + c <= b => v + c <= b  OBVIOUS
    <3> QED  BY <1>0, <1>3, <2>2, <2>3, <3>1
  <2> QED  BY <1>1, <2>1, <2>4 DEF Within
<1> QED  BY <1>4, <1>5, <1>6, <1>7, WithinIs

\* Something goes wrong: the time a fault costs, and no more, is added.
LEMMA FaultWithin ==
  ASSUME Timely, RADAR_STALL_MS <= StartTimeout + RetryWait,
         TypeOK, RoundInv, OnTime, Modes, StartFails \/ Hang, NEW b \in Nat
  PROVE  /\ Within(b + FaultCost)' /\ UNCHANGED main
         /\ Goes(1)
<1>0. timer \in Nat /\ StopTime \in Nat /\ writing \in 0 .. WriteTime  BY WaitTypes DEF TypeOK
<1> DEFINE stop == WriteTime + StopTimeout
<1>s. stop \in Nat /\ stop = WriteTime + StopTimeout  BY BudgetTypes
<1> HIDE DEF stop
<1>1. /\ Dead \in Nat /\ Dead = stop + stop + Bring
      /\ FaultCost \in Nat /\ FaultCost = StartTimeout + RetryWait + Dead
      /\ Bring \in Nat /\ Latency < StopTimeout
  BY <1>s, BudgetTypes DEF Dead, FaultCost, Timely, Timeouts
<1> SUFFICES Within(b + FaultCost)'
  BY DEF StartFails, Hang
<1>2. Round' \in Nat /\ Round' <= Dead
  <2>1. StopTime' \in Nat /\ StopTime' <= stop  BY <1>1, <1>s, BudgetTypes DEF StopTime
  <2>2. Round' = StopTime' + StopTime' + Bring  BY DEF Round
  <2>3. \A v, w, c \in Nat : v <= w => v + v + c \in Nat /\ v + v + c <= w + w + c  OBVIOUS
  <2> QED  BY <1>1, <1>s, <2>1, <2>2, <2>3, BudgetTypes
<1>3. CASE StartFails
  <2>1. stage = start /\ ring = <<>> /\ todo' = Tail(todo) /\ Len(todo) = 1
    <3>1. todo # <<>> /\ todo \in Seq(Job) /\ Head(todo).cmd = start /\ Head(todo) = todo[1]
      BY <1>3 DEF StartFails, Due, TypeOK
    <3> QED  BY <1>3, <3>1, StageNames DEF OnTime, StartFails, Says, SaysNothing
  <2>2. todo' = <<>>
    <3>1. todo # <<>> /\ todo \in Seq(Job)  BY <1>3 DEF StartFails, Due, TypeOK
    <3>2. Tail(todo) \in Seq(Job) /\ Len(Tail(todo)) = 0  BY <2>1, <3>1, SeqTail
    <3> QED  BY <2>1, <3>2, EmptySeq
  <2>3. stage' = start /\ timer' = timer  BY <1>3, <2>1 DEF StartFails
  <2>4. ~CliOk'
    <3>1. ring' = <<>> \/ ring' = <<"error">>
      BY <1>3, <2>1 DEF StartFails, Says, SaysNothing
    <3> QED  BY <3>1 DEF CliOk
  <2>5. timer <= StartTimeout  BY <2>1, StageNames DEF Modes
  <2>6. (IF ring' = <<>> THEN timer' ELSE 0) + RetryWait + Round' <= b + FaultCost
    <3>1. \A w, v, s, r, d \in Nat :
            v <= s /\ w <= d => v + r + w <= b + (s + r + d) /\ 0 + r + w <= b + (s + r + d)
      OBVIOUS
    <3> QED  BY <1>0, <1>1, <1>2, <2>3, <2>5, <3>1, BudgetTypes
  <2> QED  BY <2>2, <2>3, <2>4, <2>6 DEF Within
<1>4. CASE Hang
  <2>1. /\ sensor = "streaming" /\ sensor' = "hung"
        /\ UNCHANGED <<stage, writing, timer, ring, todo>>
    BY <1>4 DEF Hang, thread
  <2>2. RADAR_STALL_MS + Round' <= b + FaultCost
    <3>1. \A w, v, s, r, d \in Nat : v <= s + r /\ w <= d => v + w <= b + (s + r + d)  OBVIOUS
    <3> QED  BY <1>1, <1>2, <3>1, BudgetTypes
  <2>3. CASE stage = "stop"
    <3>1. AnswerIn' = writing + timer /\ StopTime' = stop
      BY <1>s, <2>1 DEF AnswerIn, StopTime
    <3>2. writing + timer \in Nat /\ writing + timer <= stop
      <4>1. timer <= StopTimeout  BY <2>3 DEF Modes
      <4> QED  BY <1>0, <1>s, <4>1, BudgetTypes
    <3>3. AnswerIn' + StopTime' + Bring <= b + FaultCost
      <4>1. \A w, v, s, r, c \in Nat : v <= w => v + w + c <= b + (s + r + (w + w + c))
        OBVIOUS
      <4> QED  BY <1>1, <1>s, <3>1, <3>2, <4>1, BudgetTypes
    <3> QED  BY <2>1, <2>3, <3>3 DEF Within
  <2>4. CASE stage = start /\ CliOk /\ todo = <<>>
    <3>1. CliOk'  BY <2>1, <2>4 DEF CliOk
    <3> QED  BY <2>1, <2>2, <2>4, <3>1 DEF Within
  <2>5. CASE stage = "stream" /\ timer = RADAR_STALL_MS
    BY <2>1, <2>2, <2>5 DEF Within
  <2> QED  BY <2>1, <2>3, <2>4, <2>5 DEF Modes
<1> QED  BY <1>3, <1>4

\* A tick with a frame: the next is as near as can be.
LEMMA FrameWithin ==
  ASSUME Tick, Frame
  PROVE  Within(0)'
BY DEF Tick, Frame, Within

\* A tick without one brings it nearer.
LEMMA TickWithin ==
  ASSUME TypeOK, OnTime, Modes, Tick, ~Frame, NEW b \in Nat, Within(b)
  PROVE  b >= 1 /\ Within(b - 1)'
<1>0. /\ timer \in Nat /\ AnswerIn \in Nat /\ Round \in Nat /\ StopTime \in Nat
      /\ RADAR_STALL_MS \in Nat \ {0} /\ writing \in Nat
  BY WaitTypes, TimeFacts
<1>1. UNCHANGED <<stage, ring, sensor>>
  BY DEF Tick
<1>2. StopTime' = StopTime /\ Round' = Round /\ CliOk' = CliOk
  BY <1>1 DEF StopTime, Round, CliOk
<1>3. todo' = <<>> <=> todo = <<>>
  <2>1. Len(todo') = Len(todo) /\ todo \in Seq(Job) /\ todo' \in Seq(Job)
    BY TickJobs DEF TypeOK
  <2> QED  BY <2>1, EmptySeq
<1>4. \/ writing > 0 /\ writing' = writing - 1 /\ timer' = timer
      \/ writing = 0 /\ writing' = 0 /\ timer # 0 /\ timer' = timer - 1
  BY TickTimes DEF StallClock
<1>t. stage \notin Command \/ todo = <<>> => timer # 0 /\ timer' = timer - 1
  BY <1>0, <1>4 DEF OnTime
<1>5. b >= 1 /\ Within(b - 1)'
  <2>2. ASSUME stage \in Command, todo # <<>> \/ sensor = "hung"
        PROVE  AnswerIn \in Nat \ {0} /\ AnswerIn' = AnswerIn - 1
    <3>1. CASE sensor = "hung"
      <4>1. AnswerIn = writing + timer /\ AnswerIn' = writing' + timer'
        BY <1>1, <3>1 DEF AnswerIn
      <4>2. \A u, v \in Nat : /\ u > 0 => u + v \in Nat \ {0} /\ (u - 1) + v = (u + v) - 1
                             /\ v # 0 => u + v \in Nat \ {0} /\ u + (v - 1) = (u + v) - 1
        OBVIOUS
      <4> QED  BY <1>0, <1>4, <4>1, <4>2
    <3>2. CASE sensor # "hung"
      <4>1. todo # <<>> /\ todo' # <<>>  BY <1>3, <2>2, <3>2
      <4>2. AnswerIn = writing + todo[1].left /\ AnswerIn' = writing' + todo'[1].left
        BY <1>1, <3>2, <4>1 DEF AnswerIn
      <4>3. todo[1].left \in Nat /\ Head(todo) = todo[1]
        <5>1. todo[1] \in Job /\ Head(todo) = todo[1]  BY <4>1 DEF TypeOK
        <5> QED  BY <5>1 DEF Job
      <4>4. CASE writing > 0
        <5>1. ~Heard  BY <1>0, <4>3, <4>4 DEF OnTime, Heard
        <5>2. todo' = todo  BY <4>1, <5>1, TickJobs
        <5>3. \A u, v \in Nat : u > 0 => u + v \in Nat \ {0} /\ (u - 1) + v = (u + v) - 1
          OBVIOUS
        <5> QED  BY <1>0, <1>4, <4>2, <4>3, <4>4, <5>2, <5>3
      <4>5. CASE writing = 0
        <5>1. todo[1].left \in Nat \ {0} /\ todo'[1].left = todo[1].left - 1
          BY <4>1, <4>5, TickJobs DEF Heard
        <5> QED  BY <1>4, <4>2, <4>5, <5>1
      <4> QED  BY <1>0, <4>4, <4>5
    <3> QED  BY <3>1, <3>2
  <2>n. ASSUME stage \in Command, stage # start
        PROVE  AnswerIn \in Nat \ {0} /\ AnswerIn' = AnswerIn - 1
    <3>1. todo # <<>> \/ sensor = "hung"
      <4> SUFFICES ASSUME todo = <<>>, sensor # "hung" PROVE FALSE
        OBVIOUS
      <4>1. writing = 0  BY <1>0 DEF OnTime
      <4>2. ring # <<>>  BY <2>n DEF Modes
      <4> QED  BY <2>n, <4>1, <4>2 DEF Tick, CliWaitEnds
    <3> QED  BY <2>2, <2>n, <3>1
  <2>3. \A v, c \in Nat : v # 0 /\ v + c <= b => b >= 1 /\ (v - 1) + c <= b - 1  OBVIOUS
  <2>4. CASE stage = "stop"
    <3>1. \A v, w, c \in Nat : v # 0 /\ v + w + c <= b => b >= 1 /\ (v - 1) + w + c <= b - 1
      OBVIOUS
    <3>2. AnswerIn \in Nat \ {0} /\ AnswerIn' = AnswerIn - 1  BY <2>n, <2>4, Commands, StageNames
    <3>3. AnswerIn + StopTime + Bring <= b  BY <2>4, WithinIs
    <3>4. b >= 1 /\ AnswerIn' + StopTime + Bring <= b - 1
      BY <1>0, <3>1, <3>2, <3>3, BudgetTypes
    <3> QED  BY <1>1, <1>2, <2>4, <3>4 DEF Within
  <2>5. CASE stage = "warm"
    <3>1. AnswerIn \in Nat \ {0} /\ AnswerIn' = AnswerIn - 1  BY <2>n, <2>5, Commands, StageNames
    <3>2. AnswerIn + Bring <= b  BY <2>5, WithinIs
    <3>3. b >= 1 /\ AnswerIn' + Bring <= b - 1  BY <1>0, <2>3, <3>1, <3>2, BudgetTypes
    <3> QED  BY <1>1, <2>5, <3>3 DEF Within
  <2>6. CASE stage = "boot"
    <3>1. timer + Cmds(Len(cfg_lines) + 1) <= b  BY <2>6, WithinIs
    <3>2. Cmds(Len(cfg_lines) + 1) \in Nat
      <4>1. Len(cfg_lines) + 1 \in Nat  BY Lines
      <4> QED  BY <4>1, CmdsAre
    <3>3. b >= 1 /\ timer' + Cmds(Len(cfg_lines) + 1) <= b - 1
      BY <1>0, <1>t, <2>3, <2>6, <3>1, <3>2, Commands
    <3> QED  BY <1>1, <2>6, <3>3 DEF Within
  <2>7. CASE stage = "blank"
    <3>1. AnswerIn \in Nat \ {0} /\ AnswerIn' = AnswerIn - 1  BY <2>n, <2>7, Commands, StageNames
    <3>2. AnswerIn + Cmds(Len(cfg_lines)) <= b  BY <2>7, WithinIs
    <3>3. b >= 1 /\ AnswerIn' + Cmds(Len(cfg_lines)) <= b - 1
      BY <1>0, <2>3, <3>1, <3>2, BudgetTypes
    <3> QED  BY <1>1, <2>7, <3>3 DEF Within
  <2>8. CASE stage \in Line
    <3>1. PICK i \in 1 .. Len(cfg_lines) - 1 : stage = cfg_lines[i]  BY <2>8, Lines
    <3>2. AnswerIn \in Nat \ {0} /\ AnswerIn' = AnswerIn - 1  BY <2>n, <2>8, Commands, StageNames
    <3>3. AnswerIn + Cmds(Len(cfg_lines) - i) <= b  BY <3>1, WithinIs
    <3>4. Cmds(Len(cfg_lines) - i) \in Nat
      <4>1. Len(cfg_lines) - i \in Nat  BY Lines
      <4> QED  BY <4>1, CmdsAre
    <3>5. b >= 1 /\ AnswerIn' + Cmds(Len(cfg_lines) - i) <= b - 1
      BY <1>0, <2>3, <3>2, <3>3, <3>4
    <3> QED  BY <1>1, <3>1, <3>5 DEF Within
  <2>9. CASE stage = start
    <3>3. CASE todo # <<>>
      <4>1. AnswerIn \in Nat \ {0} /\ AnswerIn' = AnswerIn - 1  BY <2>2, <2>9, <3>3, Commands
      <4>2. AnswerIn <= b  BY <2>9, <3>3, WithinIs
      <4>3. \A v \in Nat : v # 0 /\ v <= b => b >= 1 /\ v - 1 <= b - 1  OBVIOUS
      <4>4. b >= 1 /\ AnswerIn' <= b - 1  BY <4>1, <4>2, <4>3
      <4> QED  BY <1>1, <1>3, <2>9, <3>3, <4>4 DEF Within
    <3>4. CASE todo = <<>>
      <4>1. writing = 0 /\ timer # 0 /\ timer' = timer - 1  BY <1>0, <1>t, <3>4 DEF OnTime
      <4>2. ring = <<>> /\ ~CliOk  BY <2>9, <4>1, Commands DEF Tick, CliWaitEnds, CliOk
      <4>3. timer + RetryWait + Round <= b  BY <2>9, <3>4, <4>2, WithinIs
      <4>4. \A v, w, c \in Nat : v # 0 /\ v + w + c <= b => b >= 1 /\ (v - 1) + w + c <= b - 1
        OBVIOUS
      <4>5. b >= 1 /\ timer' + RetryWait + Round <= b - 1
        BY <1>0, <4>1, <4>3, <4>4, BudgetTypes
      <4>6. ring' = <<>> /\ ~CliOk'  BY <1>1, <1>2, <4>2
      <4> QED  BY <1>1, <1>2, <1>3, <2>9, <3>4, <4>5, <4>6 DEF Within
    <3> QED  BY <3>3, <3>4
  <2>10. CASE stage \in {"retry", "stream"}
    <3>1. timer + Round <= b
      BY <2>10, WithinIs DEF Frame
    <3>2. timer # 0 /\ timer' = timer - 1
      <4>1. stage \notin Command  BY <2>10, Commands
      <4> QED  BY <1>t, <4>1
    <3>3. b >= 1 /\ timer' + Round <= b - 1  BY <1>0, <2>3, <3>1, <3>2
    <3> QED  BY <1>1, <1>2, <2>10, <3>3 DEF Within
  <2> QED  BY <2>4, <2>5, <2>6, <2>7, <2>8, <2>9, <2>10, WithinIs
<1> QED  BY <1>5

\* The main loop's windows are nothing to the thread.
LEMMA SameWithin ==
  ASSUME UNCHANGED <<thread, radar>>, NEW b \in Nat, Within(b)
  PROVE  Within(b)'
<1>1. UNCHANGED <<stage, writing, timer, ring, sensor, todo>>  BY DEF thread, radar
<1>2. AnswerIn' = AnswerIn /\ StopTime' = StopTime /\ Round' = Round /\ CliOk' = CliOk
  BY <1>1 DEF AnswerIn, StopTime, Round, CliOk
<1> QED  BY <1>1, <1>2 DEF Within

-----------------------------------------------------------------------------
(* A restart costs one record.                                             *)

\* Since the last frame, or the boot.
Elapsed == (IF silent = 0 THEN 0 ELSE STORE_PERIOD_S)
           + (IF frames THEN 0 ELSE STORE_PERIOD_S - window)

\* A round and a fault are over before a second window is.
TwoWindows == Healthy + FaultCost < 2 * STORE_PERIOD_S

\* What may still go wrong before it is more than once.
Left == IF struck = 0 THEN FaultCost ELSE 0

\* What has passed and what is to come are within what a fault costs.
CostInv ==
  /\ frames => silent = 0
  /\ struck <= 1 => /\ silent <= 1
                    /\ \E b \in Nat : Within(b) /\ b + Elapsed + Left <= Healthy + FaultCost

LEMMA ElapsedIs ==
  ASSUME TypeOK
  PROVE  Elapsed \in Nat
BY TimeFacts DEF TypeOK, Elapsed

LEMMA CostStart == Timely /\ Init => CostInv
<1> SUFFICES ASSUME Timely, Init PROVE CostInv
  OBVIOUS
<1>0. writing \in 0 .. WriteTime  BY DEF Init
<1>1. /\ stage = "stop" /\ timer = StopTimeout /\ todo = <<[cmd |-> "stop", left |-> 0]>>
      /\ window = STORE_PERIOD_S /\ frames = FALSE /\ silent = 0 /\ struck = faults
  BY DEF Init
<1>2. Elapsed = 0  BY <1>1, TimeFacts DEF Elapsed
<1>3. todo # <<>> /\ todo[1].left = 0  BY <1>1
<1>4. CASE sensor # "hung"
  <2>1. faults = 0  BY <1>4 DEF Init
  <2>2. AnswerIn = writing + 0 /\ StopTime = Takes  BY <1>3, <1>4 DEF AnswerIn, StopTime, Takes
  <2>3. AnswerIn + StopTime + Bring <= Healthy  BY <1>0, <2>2, BudgetTypes DEF Healthy
  <2>4. Within(Healthy)  BY <1>1, <2>3 DEF Within
  <2>5. Healthy + Elapsed + Left <= Healthy + FaultCost
    BY <1>1, <1>2, <2>1, BudgetTypes DEF Left
  <2> QED  BY <1>1, <2>4, <2>5, BudgetTypes DEF CostInv
<1>5. CASE sensor = "hung"
  <2>1. faults = 1  BY <1>5 DEF Init
  <2>2. AnswerIn = writing + StopTimeout /\ StopTime = WriteTime + StopTimeout
    BY <1>1, <1>5 DEF AnswerIn, StopTime
  <2>3. AnswerIn + StopTime + Bring <= FaultCost
    <3>1. \A u, v, s, w, c \in Nat : u <= v => u + v + c <= s + w + (v + v + c)  OBVIOUS
    <3>2. writing + StopTimeout <= WriteTime + StopTimeout /\ writing + StopTimeout \in Nat
          /\ WriteTime + StopTimeout \in Nat
      BY <1>0, BudgetTypes
    <3> QED  BY <2>2, <3>1, <3>2, BudgetTypes DEF FaultCost, Dead
  <2>4. Within(FaultCost)  BY <1>1, <2>3 DEF Within
  <2>5. FaultCost + Elapsed + Left <= Healthy + FaultCost
    BY <1>1, <1>2, <2>1, BudgetTypes DEF Left
  <2> QED  BY <1>1, <2>4, <2>5, BudgetTypes DEF CostInv
<1> QED  BY <1>4, <1>5

LEMMA CostStep ==
  ASSUME Timely, RADAR_STALL_MS <= StartTimeout + RetryWait, TwoWindows,
         TypeOK, TypeOK', RoundInv, OnTime, Modes, CostInv, InTime, [Next]_vars
  PROVE  CostInv'
<1>1. /\ Elapsed \in Nat /\ Elapsed' \in Nat /\ Healthy \in Nat /\ FaultCost \in Nat
      /\ Left \in Nat /\ struck \in Nat /\ frames \in BOOLEAN
  <2>1. Elapsed \in Nat /\ Elapsed' \in Nat
    <3>1. STORE_PERIOD_S \in Nat /\ \A w \in 0 .. STORE_PERIOD_S : STORE_PERIOD_S - w \in Nat
      BY TimeFacts
    <3>2. window' \in 0 .. STORE_PERIOD_S  BY DEF TypeOK
    <3>3. STORE_PERIOD_S - window' \in Nat  BY <3>1, <3>2
    <3> QED  BY <3>1, <3>3, ElapsedIs DEF Elapsed
  <2>2. frames \in BOOLEAN  BY DEF TypeOK
  <2>3. struck \in Nat  BY SitesAssumption DEF TypeOK
  <2> QED  BY <2>1, <2>2, <2>3, BudgetTypes DEF Left
<1>2. silent \in 0 .. 2 /\ (frames => silent = 0)  BY DEF TypeOK, CostInv
<1>3. ASSUME UNCHANGED <<wrong, main>>, \A b \in Nat : Within(b) => Within(b)' PROVE CostInv'
  <2>1. Elapsed' = Elapsed /\ Left' = Left  BY <1>3 DEF Elapsed, Left, main, wrong
  <2>2. UNCHANGED <<struck, silent, frames>>  BY <1>3 DEF main, wrong
  <2> QED  BY <1>3, <2>1, <2>2 DEF CostInv
<1>4. CASE \/ SendsNext \/ WarmAnswered \/ StartAccepted \/ StartFailed
           \/ Answer \/ UNCHANGED vars
  <2>1. ASSUME NEW b \in Nat, Within(b) PROVE Within(b)' /\ UNCHANGED <<wrong, main>>
    <3>1. CASE SendsNext
      BY <2>1, <3>1, SendWithin
    <3>2. CASE WarmAnswered \/ StartAccepted \/ StartFailed
      BY <2>1, <3>2, WaitWithin
    <3>3. CASE Answer
      BY <2>1, <3>3, AnswerWithin
    <3>4. CASE UNCHANGED vars
      <4>1. UNCHANGED <<thread, radar>> /\ UNCHANGED <<wrong, main>>
        BY <3>4 DEF vars, moving
      <4> QED  BY <2>1, <4>1, SameWithin
    <3> QED  BY <1>4, <3>1, <3>2, <3>3, <3>4
  <2>2. UNCHANGED <<wrong, main>>
    <3>1. CASE SendsNext
      <4>1. UNCHANGED main /\ \E cmd, timeout : Sends(cmd, timeout)  BY <3>1 DEF SendsNext
      <4> QED  BY <4>1 DEF Sends
    <3>2. CASE WarmAnswered \/ StartAccepted \/ StartFailed
      BY <3>2 DEF WarmAnswered, StartAccepted, StartFailed
    <3>3. CASE Answer
      BY <3>3, TakesInTime
    <3>4. CASE UNCHANGED vars
      BY <3>4 DEF vars, moving
    <3> QED  BY <1>4, <3>1, <3>2, <3>3, <3>4
  <2> QED  BY <1>3, <2>1, <2>2
<1>5. CASE StartFails \/ Hang
  <2>1. UNCHANGED main /\ struck' = struck + 1 /\ \A b \in Nat : Within(b + FaultCost)'
    <3>1. UNCHANGED main /\ Goes(1)  BY <1>5 DEF StartFails, Hang
    <3>2. \A b \in Nat : Within(b + FaultCost)'  BY <1>5, FaultWithin
    <3> QED  BY <3>1, <3>2 DEF Goes
  <2>2. Elapsed' = Elapsed /\ UNCHANGED <<silent, frames>>  BY <2>1 DEF Elapsed, main
  <2> SUFFICES ASSUME struck' <= 1
               PROVE  /\ silent' <= 1
                      /\ \E b \in Nat : Within(b)' /\ b + Elapsed' + Left' <= Healthy + FaultCost
    BY <1>2, <2>2 DEF CostInv
  <2>3. struck = 0 /\ Left = FaultCost /\ Left' = 0  BY <1>1, <2>1 DEF Left
  <2>4. PICK b \in Nat : Within(b) /\ b + Elapsed + Left <= Healthy + FaultCost
    BY <2>3 DEF CostInv
  <2>5. (b + FaultCost) + Elapsed' + Left' <= Healthy + FaultCost
    <3>1. \A v, w, c, l \in Nat : v + w + c <= l => (v + c) + w + 0 <= l  OBVIOUS
    <3>2. b + Elapsed + FaultCost <= Healthy + FaultCost /\ Healthy + FaultCost \in Nat
      BY <1>1, <2>3, <2>4
    <3> QED  BY <1>1, <2>2, <2>3, <3>1, <3>2
  <2>6. b + FaultCost \in Nat /\ silent' <= 1  BY <1>1, <2>2, <2>3 DEF CostInv
  <2> QED  BY <2>1, <2>5, <2>6
<1>6. CASE WindowTake
  <2>1. /\ window = 0 /\ window' = STORE_PERIOD_S /\ frames' = FALSE
        /\ silent' = (IF frames THEN 0 ELSE IF silent = 2 THEN 2 ELSE silent + 1)
        /\ UNCHANGED <<thread, radar, wrong>>
    BY <1>6 DEF WindowTake
  <2>2. struck' = struck /\ Left' = Left  BY <2>1 DEF Left, wrong
  <2> SUFFICES ASSUME struck <= 1
               PROVE  /\ silent' <= 1
                      /\ \E b \in Nat : Within(b)' /\ b + Elapsed' + Left' <= Healthy + FaultCost
    BY <2>1, <2>2 DEF CostInv
  <2>3. PICK b \in Nat : Within(b) /\ b + Elapsed + Left <= Healthy + FaultCost
    BY DEF CostInv
  <2>4. silent \in {0, 1}  BY <1>2 DEF CostInv
  <2>5. ~frames => silent = 0
    <3> SUFFICES ASSUME ~frames, silent = 1 PROVE FALSE
      BY <2>4
    <3>1. Elapsed = STORE_PERIOD_S + STORE_PERIOD_S  BY <2>1, TimeFacts DEF Elapsed
    <3>2. \A v, w, c, l \in Nat : v + (w + w) + c <= l => ~(l < 2 * w)  OBVIOUS
    <3>3. b + (STORE_PERIOD_S + STORE_PERIOD_S) + Left <= Healthy + FaultCost
      BY <2>3, <3>1
    <3>4. Healthy + FaultCost \in Nat /\ STORE_PERIOD_S \in Nat  BY <1>1, TimeFacts
    <3> QED  BY <1>1, <3>2, <3>3, <3>4 DEF TwoWindows
  <2>6. silent' = IF frames THEN 0 ELSE 1
    BY <2>1, <2>5
  <2>7. Elapsed' = Elapsed
    BY <1>1, <1>2, <2>1, <2>5, <2>6, TimeFacts DEF Elapsed
  <2>8. silent' <= 1  BY <1>1, <2>6
  <2>9. Within(b)'  BY <2>1, <2>3, SameWithin
  <2>10. b + Elapsed' + Left' <= Healthy + FaultCost  BY <2>2, <2>3, <2>7
  <2> QED  BY <2>8, <2>9, <2>10
<1>7. CASE Tick
  <2>1. /\ window > 0 /\ window' = window - 1 /\ frames' = (frames \/ Frame)
        /\ silent' = (IF Frame THEN 0 ELSE silent)
        /\ struck' = (IF Frame THEN 0 ELSE struck)
        /\ window \in 0 .. STORE_PERIOD_S
    BY <1>7 DEF Tick, TypeOK
  <2>2. CASE Frame
    <3>1. Within(0)'  BY <1>7, <2>2, FrameWithin
    <3>2. frames' = TRUE /\ silent' = 0  BY <1>1, <2>1, <2>2
    <3>3. Elapsed' = 0  BY <3>2 DEF Elapsed
    <3>4. struck' = 0 /\ Left' = FaultCost  BY <2>1, <2>2 DEF Left
    <3>5. 0 + Elapsed' + Left' <= Healthy + FaultCost  BY <1>1, <3>3, <3>4
    <3> QED  BY <3>1, <3>2, <3>5 DEF CostInv
  <2>3. CASE ~Frame
    <3>1. frames' = frames /\ silent' = silent /\ struck' = struck /\ Left' = Left
      BY <1>1, <2>1, <2>3 DEF Left
    <3> SUFFICES ASSUME struck <= 1
                 PROVE  \E b \in Nat : Within(b)' /\ b + Elapsed' + Left' <= Healthy + FaultCost
      BY <1>2, <3>1 DEF CostInv
    <3>2. PICK b \in Nat : Within(b) /\ b + Elapsed + Left <= Healthy + FaultCost
      BY DEF CostInv
    <3>3. b >= 1 /\ Within(b - 1)'  BY <1>7, <2>3, <3>2, TickWithin
    <3>4. silent \in {0, 1}  BY <1>2 DEF CostInv
    <3>5. Elapsed' <= Elapsed + 1
      BY <1>1, <1>2, <2>1, <3>1, <3>4, TimeFacts DEF Elapsed
    <3>6. (b - 1) + Elapsed' + Left' <= Healthy + FaultCost
      <4>1. \A v, w, c, l \in Nat :
              b + w + c <= l /\ v <= w + 1 /\ b >= 1 => (b - 1) + v + c <= l
        OBVIOUS
      <4>2. Healthy + FaultCost \in Nat  BY <1>1
      <4>3. (b - 1) + Elapsed' + Left <= Healthy + FaultCost
        BY <1>1, <3>2, <3>3, <3>5, <4>1, <4>2
      <4> QED  BY <3>1, <4>3
    <3>7. b - 1 \in Nat  BY <3>3
    <3> QED  BY <3>3, <3>6, <3>7
  <2> QED  BY <2>2, <2>3
<1> QED  BY <1>4, <1>5, <1>6, <1>7, Steps

CostingInv == InTime => Modes /\ CostInv

\* A sensor that has hung, gone deaf at sensorStart or refused it once since its
\* last frame, or since the boot, streams again before a second window is over
\* without a frame, however often that happens: if it answers within every
\* timeout, one that can stop dead has NRST wired, a stall is noticed no later than
\* a refused start is tried again, and writing and answering the whole profile
\* twice, with all that times out on the way, takes less than two windows.
THEOREM RestartsInOneRecord ==
  ASSUME Timely, DeadIsWired, RADAR_STALL_MS <= StartTimeout + RetryWait, TwoWindows
  PROVE  Spec => []RestartCostsOneRecord
<1>1. Init => CostingInv
  BY ModesStart, CostStart DEF CostingInv
<1>2. TypeOK /\ TypeOK' /\ RoundInv /\ TimelyInv /\ CostingInv /\ [Next]_vars => CostingInv'
  <2> SUFFICES ASSUME TypeOK, TypeOK', RoundInv, TimelyInv, CostingInv, [Next]_vars, InTime'
               PROVE  Modes' /\ CostInv'
    BY DEF CostingInv
  <2>1. InTime  BY Steps DEF InTime
  <2>2. OnTime /\ Modes /\ CostInv  BY <2>1 DEF TimelyInv, CostingInv
  <2> QED  BY <2>1, <2>2, ModesStep, CostStep
<1>3. CostingInv => RestartCostsOneRecord
  BY DEF CostingInv, CostInv, RestartCostsOneRecord
<1> QED
  BY <1>1, <1>2, <1>3, LinkStart, LinkTypes, RoundStart, RoundStep, TimelyStart, TimelyStep,
     PTL DEF Spec
=============================================================================
