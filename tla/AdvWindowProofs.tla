--------------------------- MODULE AdvWindowProofs ---------------------------
(* Theorems about AdvWindow, for every length of the window and every bound. *)
EXTENDS AdvWindow, SequenceTheorems, TLAPS

-----------------------------------------------------------------------------
(* The work queue.                                                         *)

Items  == {"on", "off"}
Queues == {<<>>, <<"on">>, <<"off">>, <<"on", "off">>, <<"off", "on">>}

\* What waits in each of the queues there are.
LEMMA Waiting ==
  ASSUME NEW x
  PROVE  /\ ~Contains(<<>>, x)
         /\ \A a : Contains(<<a>>, x) <=> x = a
         /\ \A a, b : Contains(<<a, b>>, x) <=> x = a \/ x = b
BY DEF Contains

\* Appending to a queue of one.
LEMMA AppendToOne ==
  ASSUME NEW a, NEW x
  PROVE  Append(<<a>>, x) = <<a, x>>
<1> DEFINE s == <<a>>
           t == <<a, x>>
           u == Append(s, x)
<1>1. s \in Seq({a, x}) /\ t \in Seq({a, x}) /\ Len(s) = 1 /\ Len(t) = 2
  OBVIOUS
<1>2. u \in Seq({a, x}) /\ Len(u) = 2 /\ u[1] = a /\ u[2] = x
  BY <1>1
<1>3. t[1] = a /\ t[2] = x
  OBVIOUS
<1> HIDE DEF t, u
<1>4. \A i \in 1 .. Len(u) : u[i] = t[i]
  BY <1>2, <1>3
<1> QED BY <1>1, <1>2, <1>4, SeqEqual DEF t, u

\* k_work_submit (ble.c:202, ble.c:239): the item waits, once, and the other as
\* before.
LEMMA SubmitWaits ==
  ASSUME NEW q \in Queues, NEW x \in Items
  PROVE  /\ Submit(q, x) \in Queues
         /\ \A y \in Items : Contains(Submit(q, x), y) <=> Contains(q, y) \/ x = y
<1>1. CASE Contains(q, x)
  BY <1>1 DEF Submit
<1>2. CASE ~Contains(q, x)
  <2>1. Submit(q, x) = Append(q, x)
    BY <1>2 DEF Submit
  <2>2. CASE q = <<>>
    <3>1. Submit(q, x) = <<x>>
      BY <2>1, <2>2
    <3> QED BY <2>2, <3>1, Waiting DEF Items, Queues
  <2>3. ASSUME NEW a \in Items, q = <<a>> PROVE Submit(q, x) = <<a, x>> /\ x # a
    <3>1. Submit(q, x) = <<a, x>>
      BY <2>1, <2>3, AppendToOne
    <3>2. x # a
      BY <1>2, <2>3, Waiting
    <3> QED BY <3>1, <3>2
  <2>4. ASSUME NEW a \in Items, q = <<a>>
        PROVE  /\ Submit(q, x) \in Queues
               /\ \A y \in Items : Contains(Submit(q, x), y) <=> Contains(q, y) \/ x = y
    <3>1. Submit(q, x) \in Queues
      BY <2>3, <2>4 DEF Items, Queues
    <3>2. \A y \in Items : Contains(<<a, x>>, y) <=> a = y \/ x = y
      BY Waiting
    <3>3. \A y \in Items : Contains(<<a>>, y) <=> a = y
      BY Waiting
    <3> QED BY <2>3, <2>4, <3>1, <3>2, <3>3
  <2>5. q # <<"on", "off">> /\ q # <<"off", "on">>
    BY <1>2, Waiting DEF Items
  <2> QED BY <2>2, <2>4, <2>5 DEF Items, Queues
<1> QED BY <1>1, <1>2

\* The queue is served from its head, and no item waits twice.
LEMMA ServeHead ==
  ASSUME NEW q \in Queues, q # <<>>
  PROVE  /\ Head(q) \in Items /\ Tail(q) \in Queues
         /\ Contains(q, Head(q)) /\ ~Contains(Tail(q), Head(q))
         /\ \A y \in Items : y # Head(q) => (Contains(Tail(q), y) <=> Contains(q, y))
<1>1. ASSUME NEW a \in Items, q = <<a>>
      PROVE  Head(q) = a /\ Tail(q) = <<>>
  BY <1>1
<1>2. ASSUME NEW a \in Items, NEW b \in Items, q = <<a, b>>
      PROVE  Head(q) = a /\ Tail(q) = <<b>>
  BY <1>2
<1>3. CASE \E a \in Items : q = <<a>>
  BY <1>1, <1>3, Waiting DEF Queues
<1>4. CASE q \in {<<"on", "off">>, <<"off", "on">>}
  <2>1. PICK a \in Items, b \in Items : q = <<a, b>> /\ a # b
    BY <1>4 DEF Items
  <2> QED BY <1>2, <2>1, Waiting DEF Items, Queues
<1> QED BY <1>3, <1>4 DEF Queues, Items

-----------------------------------------------------------------------------
(* The invariant.                                                          *)

OnWaits  == Contains(queue, "on")
OffWaits == Contains(queue, "off")

\* What holds between the timer, the two items and the flag, but for a press
\* (lost) or a disconnect (late) between the timer's expiry and adv_off_fn.
Undisturbed ==
  /\ OffWaits => timer \in {Idle, BLE_ADV_WINDOW_S}
  /\ OnWaits => timer # Idle \/ queue = <<"on", "off">> \/ late
  /\ timer # Idle /\ OffWaits => lost
  /\ timer # Idle /\ closing => OnWaits \/ lost
  /\ timer # Idle => adv_window_open \/ lost

WindowInv ==
  TypeOK /\ FlagIsTemporary /\ Undisturbed /\ VisibleIsBounded /\ VisibleInWindow

LEMMA WindowInit == Init => WindowInv
<1> SUFFICES ASSUME Init PROVE WindowInv
  OBVIOUS
<1>1. TypeOK
  <2>1. queue \in Queues
    BY DEF Init, Queues
  <2>2. timer \in Idle .. BLE_ADV_WINDOW_S
    BY WindowAssumption DEF Init, Idle
  <2>3. presses \in 0 .. MaxPresses /\ sessions \in 0 .. MaxSessions /\ refusals \in 0 .. MaxRefusals
    BY BoundsAssumption DEF Init
  <2>4. {adv_window_open, adv, conn, closing, lost, late, refused} \subseteq BOOLEAN
    BY DEF Init
  <2> QED BY <2>1, <2>2, <2>3, <2>4 DEF TypeOK, Queues
<1>2. ~Contains(queue, "on") /\ ~Contains(queue, "off")
  BY Waiting DEF Init
<1> QED BY <1>1, <1>2
   DEF Init, WindowInv, FlagIsTemporary, Undisturbed, VisibleIsBounded, VisibleInWindow,
       VisibleOnlyInWindow, VisibleAllWindow, OnWaits, OffWaits

\* No step spoils the window, action by action.
LEMMA WindowStep == WindowInv /\ [Next]_vars => WindowInv'
<1> SUFFICES ASSUME WindowInv, [Next]_vars PROVE WindowInv'
  OBVIOUS
<1> USE WindowAssumption, BoundsAssumption
    DEF WindowInv, TypeOK, FlagIsTemporary, Undisturbed, VisibleIsBounded, VisibleInWindow,
        VisibleOnlyInWindow, VisibleAllWindow, OnWaits, OffWaits, Closing
<1>0. queue \in Queues /\ Idle = -1 /\ "on" \in Items /\ "off" \in Items
  BY DEF Queues, Idle, Items
<1>a. ASSUME queue' \in Queues PROVE queue' \in {<<>>, <<"on">>, <<"off">>, <<"on", "off">>, <<"off", "on">>}
  BY <1>a DEF Queues
<1>1. CASE ble_advertise_window
  <2>1. queue' \in Queues /\ Contains(queue', "on")
        /\ (Contains(queue', "off") <=> Contains(queue, "off"))
    BY <1>0, <1>1, SubmitWaits DEF ble_advertise_window
  <2>2. Contains(queue, "off") \in BOOLEAN
    BY DEF Contains
  <2>3. TypeOK'
    <3>1. lost' \in BOOLEAN
      BY <1>1, <2>2 DEF ble_advertise_window
    <3>2. /\ presses' \in 0 .. MaxPresses /\ timer' \in Idle .. BLE_ADV_WINDOW_S
          /\ adv_window_open' /\ ~late'
          /\ UNCHANGED <<adv, conn, closing, sessions, refused, refusals>>
      BY <1>0, <1>1 DEF ble_advertise_window
    <3> QED BY <1>a, <1>1, <2>1, <3>1, <3>2 DEF ble_advertise_window
  <2>4. /\ timer' = BLE_ADV_WINDOW_S /\ timer' # Idle /\ adv_window_open'
        /\ (lost' <=> Contains(queue', "off"))
    BY <1>0, <1>1, <2>1 DEF ble_advertise_window
  <2> QED BY <2>1, <2>3, <2>4
<1>2. CASE Tick
  <2>1. ~Contains(queue, "on") /\ ~Contains(queue, "off")
    BY <1>2, Waiting DEF Tick
  <2> QED BY <1>0, <1>2, <2>1 DEF Tick
<1>10. CASE TimerExpires
  <2>1. ~Contains(queue, "off")
    BY <1>0, <1>10 DEF TimerExpires
  <2>2. queue \in {<<>>, <<"on">>}
    BY <1>0, <2>1, Waiting DEF Queues
  <2>3. /\ queue' \in Queues /\ Contains(queue', "off")
        /\ (Contains(queue', "on") <=> Contains(queue, "on"))
    BY <1>0, <1>10, SubmitWaits DEF TimerExpires
  <2>4. Contains(queue', "on") => queue' = <<"on", "off">>
    <3>1. Contains(queue', "on") => queue = <<"on">>
      BY <2>2, <2>3, Waiting
    <3>2. queue' = Append(queue, "off")
      BY <1>10, <2>1 DEF TimerExpires, Submit
    <3> QED BY <3>1, <3>2, AppendToOne
  <2> QED BY <1>0, <1>a, <1>10, <2>1, <2>3, <2>4 DEF TimerExpires
<1>3. CASE adv_start
  <2>1. /\ queue' \in Queues /\ ~Contains(queue', "on") /\ Contains(queue, "on")
        /\ (Contains(queue', "off") <=> Contains(queue, "off"))
    BY <1>0, <1>3, ServeHead DEF adv_start
  <2>2. TypeOK'
    BY <1>0, <1>a, <1>3, <2>1 DEF adv_start
  <2>3. timer # Idle \/ Contains(queue, "off") \/ late
    BY <2>1, Waiting
  <2>4. /\ UNCHANGED <<adv_window_open, conn, closing, timer, lost, late>>
        /\ ~closing /\ (adv' <=> adv \/ ~conn)
    BY <1>3 DEF adv_start
  <2> QED BY <2>1, <2>2, <2>3, <2>4
<1>4. CASE AdvStartFails
  <2>1. /\ queue' \in Queues /\ ~Contains(queue', "on") /\ Contains(queue, "on")
        /\ (Contains(queue', "off") <=> Contains(queue, "off"))
    BY <1>0, <1>4, ServeHead DEF AdvStartFails
  <2> QED BY <1>0, <1>a, <1>4, <2>1 DEF AdvStartFails
<1>5. CASE adv_off_fn
  <2>1. /\ queue' \in Queues /\ ~Contains(queue', "off") /\ Contains(queue, "off")
        /\ (Contains(queue', "on") <=> Contains(queue, "on"))
    BY <1>0, <1>5, ServeHead DEF adv_off_fn
  <2>2. TypeOK'
    BY <1>0, <1>a, <1>5, <2>1 DEF adv_off_fn
  <2>3. queue # <<"on", "off">>
    <3>1. Head(queue) = "off"
      BY <1>5 DEF adv_off_fn
    <3> QED BY <3>1
  <2>4. UNCHANGED <<adv, conn, timer, lost, late, refused>> /\ closing' /\ ~adv_window_open'
    BY <1>5 DEF adv_off_fn
  <2> QED BY <2>1, <2>2, <2>3, <2>4
<1>6. CASE bt_le_adv_stop
  BY <1>0, <1>6 DEF bt_le_adv_stop
<1>7. CASE connected
  <2>1. TypeOK'
    <3>1. sessions' \in 0 .. MaxSessions
      BY <1>7 DEF connected
    <3>2. conn' \in BOOLEAN /\ adv' \in BOOLEAN
      BY <1>7 DEF connected
    <3>3. UNCHANGED <<adv_window_open, queue, closing, timer, lost, late, presses, refused, refusals>>
      BY <1>7 DEF connected
    <3> QED BY <3>1, <3>2, <3>3
  <2>2. adv /\ conn' /\ ~adv' /\ UNCHANGED <<adv_window_open, queue, closing, timer, lost, late, refused>>
    BY <1>7 DEF connected
  <2> QED BY <2>1, <2>2
<1>8. CASE disconnected
  <2>1. CASE adv_window_open
    <3>1. queue' \in Queues /\ Contains(queue', "on")
          /\ (Contains(queue', "off") <=> Contains(queue, "off"))
      BY <1>0, <1>8, <2>1, SubmitWaits DEF disconnected
    <3>2. UNCHANGED <<adv_window_open, adv, closing, timer, lost, refused, presses, sessions, refusals>>
          /\ conn' = FALSE /\ (late' <=> late \/ RestartIsLate)
      BY <1>8 DEF disconnected
    <3>3. late' \in BOOLEAN
      BY <1>8 DEF disconnected, RestartIsLate
    <3>4. TypeOK'
      BY <1>a, <3>1, <3>2, <3>3
    <3>5. timer # Idle \/ queue = <<"on", "off">> \/ late'
      <4>1. timer # Idle \/ Contains(queue, "off")
        BY <2>1
      <4>2. CASE queue # <<"on", "off">> /\ timer = Idle
        <5>1. queue = <<"off">> \/ queue = <<"off", "on">>
          <6>1. ~Contains(<<>>, "off") /\ ~Contains(<<"on">>, "off")
            BY Waiting
          <6> QED BY <1>0, <4>1, <4>2, <6>1 DEF Queues
        <5>2. queue # <<>> /\ Head(queue) = "off"
          BY <5>1
        <5> QED BY <2>1, <3>2, <4>2, <5>2 DEF RestartIsLate
      <4> QED BY <4>2
    <3>6. queue = <<"on", "off">> => queue' = queue
      <4>1. Contains(<<"on", "off">>, "on")
        BY Waiting
      <4> QED BY <1>8, <4>1 DEF disconnected, Submit
    <3> QED BY <3>1, <3>2, <3>4, <3>5, <3>6
  <2>2. CASE ~adv_window_open
    BY <1>0, <1>8, <2>2 DEF disconnected
  <2> QED BY <2>1, <2>2
<1>9. CASE UNCHANGED vars
  BY <1>9 DEF vars
<1> QED
  BY <1>1, <1>2, <1>3, <1>4, <1>5, <1>6, <1>7, <1>8, <1>9, <1>10
  DEF Next

LEMMA WindowInvariant == Spec => []WindowInv
BY WindowInit, WindowStep, PTL DEF Spec

-----------------------------------------------------------------------------
\* ble.c:216-221: the flag never outlives the window, for every window length.
THEOREM FlagEnds == Spec => []FlagIsTemporary
<1>1. WindowInv => FlagIsTemporary
  BY DEF WindowInv
<1> QED BY <1>1, WindowInvariant, PTL

\* ble.c:211 as far as it is true, for every window length: while the node
\* advertises, something is on its way that will stop it, unless a disconnect
\* came between the timer's expiry and adv_off_fn.
THEOREM VisibilityEnds == Spec => []VisibleIsBounded
<1>1. WindowInv => VisibleIsBounded
  BY DEF WindowInv
<1> QED BY <1>1, WindowInvariant, PTL

\* ble.h:28-29 as far as it is true, for every window length: inside the window
\* the node is connected, visible or about to be, unless the stack refused or
\* the press came between the timer's expiry and adv_off_fn.
THEOREM WindowIsServed == Spec => []VisibleInWindow
<1>1. WindowInv => VisibleInWindow
  BY DEF WindowInv
<1> QED BY <1>1, WindowInvariant, PTL
=============================================================================
