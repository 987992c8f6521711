-------------------------------- MODULE Ring --------------------------------
(***************************************************************************)
(* The record store as the dump sees it while the node is up: a range of    *)
(* sequence numbers, of which an append moves both ends, and the numbers a   *)
(* store_get is answered for.  Those are the whole range, the oldest number *)
(* excepted when an append was cut short, or is under way, over its slot.   *)
(* Store implements it, and Dump is built on it.                            *)
(***************************************************************************)
EXTENDS Integers

CONSTANT Capacity   \* STORE_CAPACITY

ASSUME CapacityAssumption == Capacity \in Nat \ {0}

VARIABLES
  up,         \* the store is initialised
  oldest,     \* store_oldest_seq()
  next_seq,   \* store_next_seq()
  held        \* the numbers a store_get finds

ringVars == <<up, oldest, next_seq, held>>

InRange == oldest .. next_seq - 1
Full == next_seq - oldest = Capacity

RingOK ==
  /\ next_seq - oldest \in 0 .. Capacity
  /\ \/ held = InRange
     \/ Full /\ held = InRange \ {oldest}

RingInit == up => RingOK

\* A boot finds a ring; how its numbers go on from the last boot's is what
\* SeqLedger is about.
Open == ~up /\ up' /\ RingOK'
Close == up /\ ~up'
Down == ~up /\ ~up'

\* The oldest record is being overwritten.
Tear ==
  /\ up /\ Full
  /\ held' = held \ {oldest}
  /\ UNCHANGED <<up, oldest, next_seq>>

AppendRecord ==
  /\ up
  /\ next_seq' = next_seq + 1
  /\ oldest' = IF Full THEN oldest + 1 ELSE oldest
  /\ held' = oldest' .. next_seq
  /\ UNCHANGED up

RingNext == Open \/ Close \/ Down \/ Tear \/ AppendRecord

RingSpec == RingInit /\ [][RingNext]_ringVars
=============================================================================
