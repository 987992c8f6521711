----------------------------- MODULE AdvWindow -----------------------------
(***************************************************************************)
(* The advertising window of src/ble.c: Button 1 opens it from its isr, a  *)
(* delayable work item closes it, and a disconnect inside it advertises    *)
(* again.                                                                  *)
(*                                                                         *)
(* The two work items run on the system work queue, in the order they were *)
(* submitted; the button's isr, the timer and the stack's callbacks run    *)
(* beside it, and may come between the timer's expiry and its work.        *)
(*                                                                         *)
(* External: the stack.  Advertising stops by itself when a central        *)
(* connects, and cannot start while the one connection it allows is up.    *)
(***************************************************************************)
EXTENDS Integers, Sequences, SequencesExt

CONSTANTS
  BLE_ADV_WINDOW_S,
  MaxPresses,    \* bound: presses of the button
  MaxSessions,   \* bound: connections
  MaxRefusals    \* bound: failures of bt_le_adv_start

ASSUME WindowAssumption == BLE_ADV_WINDOW_S \in Nat \ {0}
ASSUME BoundsAssumption == MaxPresses \in Nat /\ MaxSessions \in Nat /\ MaxRefusals \in Nat

VARIABLES
  adv_window_open,
  adv,          \* the stack is advertising
  conn,         \* current_conn is set
  queue,        \* the work queue: adv_on_work and adv_off_work as "on", "off"
  closing,      \* adv_off_fn has cleared the flag, bt_le_adv_stop is to come
  timer,        \* adv_off_work's delay left, or Idle
  lost,         \* the last press came between the timer's expiry and adv_off_fn
  late,         \* since the last press, a disconnect did
  refused,      \* the stack would not advertise when it was last asked
  presses, sessions, refusals

vars == <<adv_window_open, adv, conn, queue, closing, timer, lost, late, refused,
          presses, sessions, refusals>>

Idle == -1

TypeOK ==
  /\ adv_window_open \in BOOLEAN /\ adv \in BOOLEAN /\ conn \in BOOLEAN
  /\ closing \in BOOLEAN /\ lost \in BOOLEAN /\ late \in BOOLEAN /\ refused \in BOOLEAN
  /\ queue \in {<<>>, <<"on">>, <<"off">>, <<"on", "off">>, <<"off", "on">>}
  /\ timer \in Idle .. BLE_ADV_WINDOW_S
  /\ presses \in 0 .. MaxPresses /\ sessions \in 0 .. MaxSessions
  /\ refusals \in 0 .. MaxRefusals

Init ==
  /\ adv_window_open = FALSE /\ adv = FALSE /\ conn = FALSE
  /\ queue = <<>> /\ closing = FALSE /\ timer = Idle /\ lost = FALSE
  /\ late = FALSE /\ refused = FALSE /\ presses = 0 /\ sessions = 0 /\ refusals = 0

\* k_work_submit: an item waits in the queue once.
Submit(q, item) == IF Contains(q, item) THEN q ELSE Append(q, item)

\* adv_off_fn is due or under way.
Closing == closing \/ Contains(queue, "off")

-----------------------------------------------------------------------------
\* Button 1.  k_work_reschedule moves the timer; an item that is queued stays
\* queued.
ble_advertise_window ==
  /\ presses < MaxPresses /\ presses' = presses + 1
  /\ adv_window_open' = TRUE
  /\ queue' = Submit(queue, "on")
  /\ timer' = BLE_ADV_WINDOW_S
  /\ lost' = Contains(queue, "off") /\ late' = FALSE
  /\ UNCHANGED <<adv, conn, closing, sessions, refused, refusals>>

\* A second passes; the work queue is served within it.
Tick ==
  /\ queue = <<>> /\ ~closing
  /\ timer > 0 /\ timer' = timer - 1
  /\ UNCHANGED <<adv_window_open, adv, conn, queue, closing, lost, late, refused,
                 presses, sessions, refusals>>

\* The delay is over, whatever the work queue is at.
TimerExpires ==
  /\ timer = 0 /\ timer' = Idle
  /\ queue' = Submit(queue, "off")
  /\ UNCHANGED <<adv_window_open, adv, conn, closing, lost, late, refused,
                 presses, sessions, refusals>>

\* adv_on_fn.  Nothing happens if the node advertises already, or is connected.
adv_start ==
  /\ ~closing /\ queue # <<>> /\ Head(queue) = "on"
  /\ queue' = Tail(queue)
  /\ adv' = (adv \/ ~conn)
  /\ refused' = FALSE
  /\ UNCHANGED <<adv_window_open, conn, closing, timer, lost, late, presses, sessions, refusals>>

\* bt_le_adv_start fails, as it does while the stack still holds the connection
\* that has just ended.  The error is printed, and that is all.
AdvStartFails ==
  /\ refusals < MaxRefusals /\ refusals' = refusals + 1
  /\ ~closing /\ queue # <<>> /\ Head(queue) = "on" /\ ~adv
  /\ queue' = Tail(queue)
  /\ refused' = TRUE
  /\ UNCHANGED <<adv_window_open, adv, conn, closing, timer, lost, late, presses, sessions>>

\* Mutant: closing the window leaves the flag.
adv_off_fn_KeepsFlag ==
  /\ ~closing /\ queue # <<>> /\ Head(queue) = "off"
  /\ queue' = Tail(queue)
  /\ closing' = TRUE
  /\ UNCHANGED <<adv_window_open, adv, conn, timer, lost, late, presses, sessions, refused, refusals>>

adv_off_fn ==
  /\ ~closing /\ queue # <<>> /\ Head(queue) = "off"
  /\ queue' = Tail(queue)
  /\ adv_window_open' = FALSE
  /\ closing' = TRUE
  /\ UNCHANGED <<adv, conn, timer, lost, late, presses, sessions, refused, refusals>>

bt_le_adv_stop ==
  /\ closing
  /\ closing' = FALSE
  /\ adv' = FALSE
  /\ UNCHANGED <<adv_window_open, conn, queue, timer, lost, late, presses, sessions, refused, refusals>>

connected ==
  /\ adv /\ ~conn
  /\ sessions < MaxSessions /\ sessions' = sessions + 1
  /\ conn' = TRUE /\ adv' = FALSE
  /\ UNCHANGED <<adv_window_open, queue, closing, timer, lost, late, presses, refused, refusals>>

\* The timer has expired, and adv_off_fn will be served before what is submitted
\* now: it will not stop that, and the flag is still set.
RestartIsLate ==
  adv_window_open /\ timer = Idle /\ queue # <<>> /\ Head(queue) = "off"

\* Mutant: the node is made visible again whatever the window.
disconnected_Always ==
  /\ conn /\ conn' = FALSE
  /\ late' = (late \/ RestartIsLate)
  /\ queue' = Submit(queue, "on")
  /\ UNCHANGED <<adv_window_open, adv, closing, timer, lost, presses, sessions, refused, refusals>>

\* Mutant: the stack is trusted to advertise again by itself.
disconnected_Dark ==
  /\ conn /\ conn' = FALSE
  /\ late' = (late \/ RestartIsLate)
  /\ UNCHANGED <<adv_window_open, adv, queue, closing, timer, lost, presses, sessions, refused,
                 refusals>>

disconnected ==
  /\ conn /\ conn' = FALSE
  /\ late' = (late \/ RestartIsLate)
  /\ queue' = IF adv_window_open THEN Submit(queue, "on") ELSE queue
  /\ UNCHANGED <<adv_window_open, adv, closing, timer, lost, presses, sessions, refused, refusals>>

Next ==
  \/ ble_advertise_window \/ Tick \/ TimerExpires \/ adv_start \/ adv_off_fn \/ bt_le_adv_stop
  \/ connected \/ disconnected \/ AdvStartFails

Spec == Init /\ [][Next]_vars

-----------------------------------------------------------------------------
(* What is claimed of the window.                                          *)

\* The flag never outlives the window: whoever finds it set, finds the close
\* still to come.
FlagIsTemporary == adv_window_open => timer # Idle \/ Contains(queue, "off")

\* ble.c:211 "The window bounds how long it stays visible": while the node
\* advertises, something is on its way that will stop it ...
VisibleOnlyInWindow == adv => timer # Idle \/ Closing

\* ... which holds but for one order of events: a disconnect between the timer's
\* expiry and adv_off_fn, and no press since.
VisibleIsBounded == VisibleOnlyInWindow \/ late

\* ble.h:28-29 "restarting after a disconnect until the window expires": as
\* long as the window has time left, the node is connected, visible, or about
\* to be, unless the stack refused the last time it was asked; being asked
\* again, after a press or a disconnect, mends that ...
VisibleAllWindow ==
  timer # Idle => adv \/ conn \/ Contains(queue, "on") \/ refused

\* ... which holds but for a press between the timer's expiry and adv_off_fn.
VisibleInWindow == VisibleAllWindow \/ lost

=============================================================================
