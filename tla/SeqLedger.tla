----------------------------- MODULE SeqLedger -----------------------------
(***************************************************************************)
(* What the record store promises the app and the server, which dedupe on  *)
(* (device_id, seq): store.h:4-6 and store.c:28-30.  A sequence number,     *)
(* once answered with a record, is answered with that record for ever, and *)
(* only numbers that have been used up are answered.  An answer pairs the   *)
(* number asked for with the record that came back.                         *)
(***************************************************************************)
EXTENDS Integers

VARIABLES
  used,       \* every seq below it has been handed to a record, for good
  delivered   \* the answers that have left the store

ledgerVars == <<used, delivered>>

LedgerInit ==
  /\ used \in Nat
  /\ \A a \in delivered : a.asked < used /\ a.rec.seq = a.asked

\* Appending uses up one number.
Issue == used' = used + 1 /\ UNCHANGED delivered

\* A reader is answered for a used number: the same record as last time.
Deliver ==
  /\ \E a \in delivered' :
       /\ delivered' = delivered \cup {a}
       /\ a.asked < used
       /\ a.rec.seq = a.asked
       /\ \A b \in delivered : b.asked = a.asked => b = a
  /\ UNCHANGED used

LedgerNext == Issue \/ Deliver

LedgerSpec == LedgerInit /\ [][LedgerNext]_ledgerVars
=============================================================================
