---------------------------- MODULE StoreProofs ----------------------------
(* Theorems about Store, for every capacity, set of readers and bound: its  *)
(* types, one record per number and the ledger it implements, the clock of   *)
(* the records, and the ring that its readers see.                           *)
EXTENDS Store, TLAPS

-----------------------------------------------------------------------------
(* Helpers.                                                                *)

\* The slot of a sequence number is a slot: seq % STORE_CAPACITY (store.c:134).
LEMMA SlotIsSlot == \A seq \in Nat : SlotOf(seq) \in Slots
  BY CapacityAssumption DEF SlotOf, Slots

\* META as store_init uses it (store.c:72-75) is a pair of numbers.
LEMMA MetaReadType ==
  ASSUME nvsMeta \in Meta \cup {NoEntry}
  PROVE  MetaRead \in Meta
  BY DEF MetaRead, Meta, ZeroMeta

\* And so is what a read of it that may fail leaves; FLOOR's is a number.
LEMMA ReadsType ==
  ASSUME TypeOK
  PROVE  /\ \A m \in MetaReads : m \in Meta
         /\ \A f \in FloorReads : f \in Nat
<1>1. MetaRead \in Meta /\ ZeroMeta \in Meta
  BY MetaReadType DEF TypeOK, Meta, ZeroMeta
<1>2. FloorRead \in Nat
  BY DEF TypeOK, FloorRead
<1> QED BY <1>1, <1>2 DEF MetaReads, FloorReads

-----------------------------------------------------------------------------
(* Types.                                                                  *)

LEMMA TypeInit == Init => TypeOK
<1> SUFFICES ASSUME Init PROVE TypeOK
  OBVIOUS
<1>1. delivered \subseteq Answer
  <2>1. CASE nvsMeta = NoEntry /\ delivered = {}
    BY <2>1
  <2>2. CASE \E n \in 1 .. MaxOld :
               /\ nvsMeta = [next_seq |-> n, base_sec |-> 0]
               /\ delivered = {[asked |-> s, rec |-> [seq |-> s, ts |-> 0, val |-> OldValue]] :
                                 s \in 0 .. n - 1}
    BY <2>2, BoundsAssumption DEF Answer, Record
  <2> QED BY <2>1, <2>2 DEF Init
<1>2. nvsMeta \in Meta \cup {NoEntry}
  BY BoundsAssumption DEF Init, Meta
<1> QED BY <1>1, <1>2 DEF Init, TypeOK, ZeroMeta, Meta, Pcs, AppendPcs

LEMMA TypeStep == TypeOK /\ [Next]_vars => TypeOK'
<1> SUFFICES ASSUME TypeOK, [Next]_vars PROVE TypeOK'
  OBVIOUS
<1> USE DEF TypeOK, flash, ram, Pcs, InitPcs, AppendPcs
<1>0. MetaRead \in Meta
  BY MetaReadType
<1>1. CASE Boot
  <2>1. meta' \in Meta /\ meta'.base_sec \in Nat
    BY <1>1, ReadsType DEF Boot, Meta
  <2>2. floor_seq' \in Nat
    BY <1>1, ReadsType DEF Boot
  <2>3. behind' \in BOOLEAN
    BY <1>1 DEF Boot
  <2> QED BY <1>1, <2>1, <2>2, <2>3 DEF Boot
<1>2. CASE BootMountFails
  BY <1>2 DEF BootMountFails, InitFails
<1>3. CASE ClearAndMount
  BY <1>3 DEF ClearAndMount, AllErased, Meta
<1>4. CASE ClearFails
  BY <1>4 DEF ClearFails, InitFails, AllErased, PartlyErased
<1>5. CASE WriteFormat
  BY <1>5 DEF WriteFormat
<1>6. CASE WriteFloor
  BY <1>6 DEF WriteFloor
<1>7. CASE WriteMeta
  BY <1>7 DEF WriteMeta, Meta
<1>8. CASE InitWriteFails
  BY <1>8 DEF InitWriteFails, InitFails
<1>9. ASSUME NEW v \in Values, AppendBegin(v) PROVE TypeOK'
  BY <1>9 DEF AppendBegin, store_now, Record, Meta
<1>10. CASE AppendSlot
  BY <1>10, SlotIsSlot DEF AppendSlot, Record
<1>11. CASE AppendSlotFails
  BY <1>11 DEF AppendSlotFails
<1>12. CASE AppendBump
  BY <1>12 DEF AppendBump, Meta, Record
<1>13. CASE AppendCommit
  BY <1>13 DEF AppendCommit
<1>14. ASSUME NEW r \in Readers, NEW seq \in 0 .. MaxSeq, GetCheck(r, seq)
       PROVE TypeOK'
  BY <1>14 DEF GetCheck
<1>15. ASSUME NEW r \in Readers, GetRead(r) PROVE TypeOK'
  <2>1. get[r] \in Nat
    BY <1>15 DEF GetRead
  <2>2. CASE delivered' = delivered
    BY <1>15, <2>2 DEF GetRead
  <2>3. CASE Found(get[r]) /\ delivered' = delivered \cup
               {[asked |-> get[r], rec |-> nvsRec[SlotOf(get[r])]]}
    <3>1. nvsRec[SlotOf(get[r])] \in Record
      BY <2>1, <2>3, SlotIsSlot DEF Found
    <3> QED BY <1>15, <2>1, <2>3, <3>1 DEF GetRead, Answer
  <2> QED BY <1>15, <2>2, <2>3 DEF GetRead
<1>16. CASE Tick
  BY <1>16 DEF Tick
<1>17. CASE PowerLoss
  BY <1>17 DEF PowerLoss, PartlyErased, ZeroMeta, Meta
<1>18. CASE UNCHANGED vars
  BY <1>18 DEF vars
<1> QED
  BY <1>1, <1>2, <1>3, <1>4, <1>5, <1>6, <1>7, <1>8, <1>9, <1>10, <1>11, <1>12,
     <1>13, <1>14, <1>15, <1>16, <1>17, <1>18 DEF Next

\* The store's state stays well typed whatever fails and whenever the power
\* goes, for every capacity of the ring (store.c:39-42).
THEOREM StoreTypeCorrect == Spec => []TypeOK
<1>1. Init => TypeOK
  BY TypeInit
<1>2. TypeOK /\ [Next]_vars => TypeOK'
  BY TypeStep
<1> QED BY <1>1, <1>2, PTL DEF Spec

-----------------------------------------------------------------------------
(* One record per sequence number, when META is never lost: no read or write *)
(* of the META entry fails, and a format migration, once begun, is finished. *)

MetaIsKept ==
  Faults \cap {"metaRead", "clear", "initWrite", "metaWrite", "powerLossInInit"} = {}

\* Then a boot takes up the counter and the clock that flash has.
LEMMA BootTakesMeta ==
  ASSUME MetaIsKept, Boot
  PROVE  meta' = MetaRead
BY DEF MetaIsKept, Boot, MetaReads

LEMMA InvInit == Init => StoreInv
<1> SUFFICES ASSUME Init PROVE StoreInv
  OBVIOUS
<1>1. InSync /\ SlotsAgree /\ GetsInRange
  BY DEF Init, InSync, SlotsAgree, GetsInRange, InitPcs
<1>2. CASE nvsMeta = NoEntry /\ delivered = {}
  BY <1>1, <1>2 DEF StoreInv, AnswerMatchesRequest, AnsweredIsDurable, OneRecordPerSeq
<1>3. ASSUME NEW n \in 1 .. MaxOld,
             nvsMeta = [next_seq |-> n, base_sec |-> 0],
             delivered = {[asked |-> s, rec |-> [seq |-> s, ts |-> 0, val |-> OldValue]] :
                            s \in 0 .. n - 1}
      PROVE  StoreInv
  <2>1. nvsMeta # NoEntry /\ n \in Nat
    BY <1>3, NoEntryAssumption, BoundsAssumption DEF Meta
  <2>2. UsedSeq = n
    BY <1>3, <2>1 DEF UsedSeq, MetaRead, Init, InitPcs
  <2>3. \A a \in delivered : a.asked < UsedSeq /\ a.rec.seq = a.asked
    BY <1>3, <2>1, <2>2
  <2>4. OneRecordPerSeq
    BY <1>3 DEF OneRecordPerSeq
  <2> QED BY <1>1, <2>3, <2>4 DEF StoreInv, AnswerMatchesRequest, AnsweredIsDurable
<1> QED BY <1>2, <1>3 DEF Init

\* A step that gives no answer and takes no number back keeps what has been
\* answered consistent.
LEMMA NoAnswerStep ==
  ASSUME TypeOK, TypeOK', StoreInv, delivered' = delivered, UsedSeq' >= UsedSeq
  PROVE  AnswerMatchesRequest' /\ AnsweredIsDurable' /\ OneRecordPerSeq'
<1>1. UsedSeq \in Nat /\ UsedSeq' \in Nat
  BY MetaReadType DEF TypeOK, UsedSeq, MetaRead, Meta, ZeroMeta
<1> QED BY <1>1 DEF StoreInv, AnswerMatchesRequest, AnsweredIsDurable, OneRecordPerSeq,
                   TypeOK, Answer

\* The counter that survives moves only when store_append commits META, by one.
LEMMA UsedStep ==
  ASSUME MetaIsKept, TypeOK, InSync, [Next]_vars
  PROVE  \/ UsedSeq' = UsedSeq
         \/ AppendCommit /\ UsedSeq' = UsedSeq + 1
<1>0. MetaRead \in Meta /\ NoEntry \notin Meta
  BY MetaReadType, NoEntryAssumption DEF TypeOK
<1>1. CASE Boot
  BY <1>0, <1>1, BootTakesMeta DEF Boot, flash, UsedSeq, InitPcs, MetaRead
<1>2. CASE BootMountFails
  BY <1>2 DEF BootMountFails, InitFails, flash, UsedSeq, InitPcs, MetaRead
<1>3. CASE ClearAndMount
  BY <1>3 DEF ClearAndMount, UsedSeq, InitPcs
<1>4. ~ClearFails /\ ~InitWriteFails
  BY DEF MetaIsKept, ClearFails, InitWriteFails, InitFails
<1>5. CASE WriteFormat
  BY <1>5 DEF WriteFormat, ram, UsedSeq, InitPcs
<1>6. CASE WriteFloor
  BY <1>6 DEF WriteFloor, ram, UsedSeq, InitPcs
<1>7. CASE WriteMeta
  <2>1. MetaRead' = meta
    BY <1>0, <1>7 DEF WriteMeta, MetaRead, TypeOK
  <2> QED BY <1>7, <2>1 DEF WriteMeta, UsedSeq, InitPcs
<1>9. ASSUME NEW v \in Values, AppendBegin(v) PROVE UsedSeq' = UsedSeq
  BY <1>9 DEF AppendBegin, flash, ram, UsedSeq, InitPcs, MetaRead
<1>10. CASE AppendSlot
  BY <1>10 DEF AppendSlot, ram, UsedSeq, InitPcs, MetaRead
<1>11. CASE AppendSlotFails
  BY <1>11 DEF AppendSlotFails, flash, ram, UsedSeq, InitPcs, MetaRead
<1>12. CASE AppendBump
  BY <1>12 DEF AppendBump, flash, UsedSeq, InitPcs, MetaRead
<1>13. CASE AppendCommit
  <2>1. MetaRead' = meta
    BY <1>0, <1>13 DEF AppendCommit, MetaIsKept, MetaRead, TypeOK
  <2> QED BY <1>13, <2>1 DEF AppendCommit, InSync, UsedSeq, InitPcs
<1>14. ASSUME NEW r \in Readers, NEW seq \in 0 .. MaxSeq, GetCheck(r, seq)
       PROVE  UsedSeq' = UsedSeq
  BY <1>14 DEF GetCheck, flash, ram, UsedSeq, MetaRead
<1>15. ASSUME NEW r \in Readers, GetRead(r) PROVE UsedSeq' = UsedSeq
  BY <1>15 DEF GetRead, flash, ram, UsedSeq, MetaRead
<1>16. CASE Tick
  BY <1>16 DEF Tick, flash, ram, UsedSeq, MetaRead
<1>17. CASE PowerLoss
  <2>1. pc \notin InitPcs /\ UNCHANGED flash
    BY <1>17 DEF PowerLoss, MetaIsKept, InitPcs
  <2> QED BY <1>17, <2>1 DEF PowerLoss, flash, UsedSeq, InitPcs, MetaRead
<1>18. CASE UNCHANGED vars
  BY <1>18 DEF vars, flash, ram, UsedSeq, MetaRead
<1> QED
  BY <1>1, <1>2, <1>3, <1>4, <1>5, <1>6, <1>7, <1>9, <1>10, <1>11, <1>12, <1>13,
     <1>14, <1>15, <1>16, <1>17, <1>18 DEF Next

LEMMA InvStep ==
  ASSUME MetaIsKept
  PROVE  TypeOK /\ TypeOK' /\ StoreInv /\ [Next]_vars => StoreInv'
<1> SUFFICES ASSUME TypeOK, TypeOK', StoreInv, [Next]_vars PROVE StoreInv'
  OBVIOUS
<1>0. MetaRead \in Meta /\ MetaRead' \in Meta
  BY MetaReadType DEF TypeOK, MetaRead, Meta, ZeroMeta
<1>a. InSync /\ SlotsAgree /\ GetsInRange
  BY DEF StoreInv
<1>b. NoEntry \notin Meta
  BY NoEntryAssumption
<1> DEFINE Local == InSync' /\ SlotsAgree' /\ GetsInRange'
<1>d. UsedSeq' >= UsedSeq
  BY <1>a, <1>0, UsedStep DEF UsedSeq, TypeOK, Meta
<1>c. Local /\ delivered' = delivered => StoreInv'
  BY <1>d, NoAnswerStep DEF StoreInv
<1>1. CASE Boot
  <2>1. Local
    BY <1>a, <1>0, <1>1, BootTakesMeta
      DEF Boot, flash, ram, InSync, SlotsAgree, GetsInRange, InitPcs, MetaRead
  <2> QED BY <1>c, <1>1, <2>1 DEF Boot
<1>2. CASE BootMountFails
  <2>1. Local
    BY <1>a, <1>2 DEF BootMountFails, InitFails, flash, ram, InSync, SlotsAgree,
                      GetsInRange, InitPcs, TypeOK
  <2> QED BY <1>c, <1>2, <2>1 DEF BootMountFails, InitFails
<1>3. CASE ClearAndMount
  <2>1. Local
    BY <1>a, <1>3 DEF ClearAndMount, AllErased, InSync, SlotsAgree, GetsInRange, InitPcs
  <2> QED BY <1>c, <1>3, <2>1 DEF ClearAndMount
<1>4. ~ClearFails /\ ~InitWriteFails
  BY DEF MetaIsKept, ClearFails, InitWriteFails, InitFails
<1>5. CASE WriteFormat
  <2>1. Local
    BY <1>a, <1>5 DEF WriteFormat, ram, InSync, SlotsAgree, GetsInRange, InitPcs, MetaRead
  <2> QED BY <1>c, <1>5, <2>1 DEF WriteFormat
<1>6. CASE WriteFloor
  <2>1. Local
    BY <1>a, <1>6 DEF WriteFloor, ram, InSync, SlotsAgree, GetsInRange, InitPcs, MetaRead
  <2> QED BY <1>c, <1>6, <2>1 DEF WriteFloor
<1>7. CASE WriteMeta
  <2>0. MetaRead' = meta
    BY <1>7, <1>b DEF WriteMeta, MetaRead, TypeOK
  <2>1. Local
    BY <1>a, <1>7, <2>0 DEF WriteMeta, InSync, SlotsAgree, GetsInRange, InitPcs
  <2> QED BY <1>c, <1>7, <2>1 DEF WriteMeta
<1>9. ASSUME NEW v \in Values, AppendBegin(v) PROVE StoreInv'
  <2>1. Local
    BY <1>a, <1>9 DEF AppendBegin, flash, ram, InSync, SlotsAgree, GetsInRange, InitPcs, MetaRead
  <2> QED BY <1>c, <1>9, <2>1 DEF AppendBegin
<1>10. CASE AppendSlot
  <2>1. InSync' /\ GetsInRange'
    BY <1>a, <1>10 DEF AppendSlot, ram, InSync, GetsInRange, InitPcs, MetaRead
  <2>3. cur \in Record /\ cur.seq = UsedSeq /\ cur.seq \in Nat
    BY <1>a, <1>10 DEF AppendSlot, TypeOK, InSync, UsedSeq, InitPcs, AppendPcs, Record
  <2>4. \A a \in delivered : a.asked # cur.seq
    BY <2>3 DEF StoreInv, AnsweredIsDurable, TypeOK, Answer
  <2>5. SlotsAgree'
    BY <1>a, <1>10, <2>3, <2>4, SlotIsSlot DEF AppendSlot, SlotsAgree, TypeOK
  <2> QED BY <1>c, <1>10, <2>1, <2>5 DEF AppendSlot
<1>11. CASE AppendSlotFails
  <2>1. Local
    BY <1>a, <1>11 DEF AppendSlotFails, flash, ram, InSync, SlotsAgree, GetsInRange,
                       InitPcs, MetaRead
  <2> QED BY <1>c, <1>11, <2>1 DEF AppendSlotFails
<1>12. CASE AppendBump
  <2>1. Local
    BY <1>a, <1>0, <1>12 DEF AppendBump, flash, InSync, SlotsAgree, GetsInRange, InitPcs,
                       MetaRead, TypeOK, Meta
  <2> QED BY <1>c, <1>12, <2>1 DEF AppendBump
<1>13. CASE AppendCommit
  <2>0. nvsMeta' = meta /\ MetaRead' = meta
    BY <1>13, <1>b DEF AppendCommit, MetaIsKept, MetaRead, TypeOK
  <2>1. Local
    BY <1>a, <1>13, <2>0 DEF AppendCommit, ram, InSync, SlotsAgree, GetsInRange, InitPcs
  <2> QED BY <1>c, <1>13, <2>1 DEF AppendCommit
<1>14. ASSUME NEW r \in Readers, NEW seq \in 0 .. MaxSeq, GetCheck(r, seq)
       PROVE  StoreInv'
  <2>a. InSync'
    BY <1>a, <1>14 DEF GetCheck, flash, ram, InSync, MetaRead
  <2>b. SlotsAgree'
    BY <1>a, <1>14 DEF GetCheck, flash, SlotsAgree
  <2>c. GetsInRange'
    <3>1. meta' = meta /\ pc' = pc /\ pc \notin {"off"} \cup InitPcs
      BY <1>14 DEF GetCheck, ram, InitPcs, AppendPcs
    <3>2. \A q \in Readers : get'[q] = IF q = r THEN seq ELSE get[q]
      BY <1>14 DEF GetCheck, TypeOK
    <3>3. seq < meta.next_seq
      BY <1>14 DEF GetCheck
    <3> QED BY <1>a, <3>1, <3>2, <3>3 DEF GetsInRange, InitPcs
  <2>1. Local
    BY <2>a, <2>b, <2>c
  <2> QED BY <1>c, <1>14, <2>1 DEF GetCheck
<1>15. ASSUME NEW r \in Readers, GetRead(r) PROVE StoreInv'
  <2>1. InSync' /\ GetsInRange'
    BY <1>a, <1>15 DEF GetRead, flash, ram, InSync, GetsInRange, InitPcs, MetaRead, TypeOK
  <2>2. UsedSeq' = UsedSeq
    BY <1>15 DEF GetRead, flash, ram, UsedSeq, InitPcs, MetaRead
  <2>3. CASE delivered' = delivered
    <3>1. SlotsAgree'
      BY <1>a, <1>15, <2>3 DEF GetRead, flash, SlotsAgree
    <3> QED BY <1>c, <2>1, <2>3, <3>1
  <2>4. CASE /\ Found(get[r])
             /\ delivered' = delivered \cup
                  {[asked |-> get[r], rec |-> nvsRec[SlotOf(get[r])]]}
    <3> DEFINE s == get[r]
               new == [asked |-> s, rec |-> nvsRec[SlotOf(s)]]
    <3>1. s \in Nat /\ SlotOf(s) \in Slots
      BY <1>15, SlotIsSlot DEF GetRead, TypeOK
    <3>2. nvsRec[SlotOf(s)] # NoRec /\ nvsRec[SlotOf(s)].seq = s /\ ready
      BY <2>4 DEF Found
    <3>3. pc = "idle"
      BY <1>15, <1>a DEF GetRead, LockFree, GetsInRange, TypeOK, Pcs
    <3>4. s < UsedSeq
      BY <1>15, <1>a, <3>2, <3>3 DEF GetRead, GetsInRange, InSync, UsedSeq, InitPcs
    <3>5. \A a \in delivered : a.asked = s => a = new
      BY <1>a, <3>1, <3>2 DEF SlotsAgree, TypeOK, Answer
    <3>6. SlotsAgree'
      <4> SUFFICES ASSUME NEW i \in Slots, nvsRec[i] # NoRec,
                          NEW a \in delivered', a.asked = nvsRec[i].seq
                   PROVE  SlotOf(nvsRec[i].seq) = i /\ a.rec = nvsRec[i]
        BY <1>a, <1>15 DEF SlotsAgree, GetRead, flash
      <4>1. SlotOf(nvsRec[i].seq) = i
        BY <1>a DEF SlotsAgree
      <4>2. CASE a \in delivered
        BY <1>a, <4>2 DEF SlotsAgree
      <4>3. CASE a = new
        BY <4>1, <4>3
      <4> QED BY <2>4, <4>1, <4>2, <4>3
    <3>7. AnswerMatchesRequest' /\ AnsweredIsDurable'
      BY <2>2, <2>4, <3>2, <3>4 DEF StoreInv, AnswerMatchesRequest, AnsweredIsDurable
    <3>8. OneRecordPerSeq'
      BY <2>4, <3>5 DEF StoreInv, OneRecordPerSeq
    <3> QED BY <2>1, <3>6, <3>7, <3>8 DEF StoreInv
  <2> QED BY <1>15, <2>3, <2>4 DEF GetRead
<1>16. CASE Tick
  <2>1. Local
    BY <1>a, <1>16 DEF Tick, flash, ram, InSync, SlotsAgree, GetsInRange, InitPcs, MetaRead
  <2> QED BY <1>c, <1>16, <2>1 DEF Tick
<1>17. CASE PowerLoss
  <2>0. pc \notin InitPcs /\ UNCHANGED flash
    BY <1>17 DEF PowerLoss, MetaIsKept, InitPcs
  <2>1. Local
    BY <1>a, <1>17, <2>0 DEF PowerLoss, flash, InSync, SlotsAgree, GetsInRange, InitPcs
  <2> QED BY <1>c, <1>17, <2>1 DEF PowerLoss
<1>18. CASE UNCHANGED vars
  <2>1. Local
    BY <1>a, <1>18 DEF vars, flash, ram, InSync, SlotsAgree, GetsInRange, InitPcs, MetaRead
  <2> QED BY <1>c, <1>18, <2>1 DEF vars
<1> QED
  BY <1>1, <1>2, <1>3, <1>4, <1>5, <1>6, <1>7, <1>9, <1>10, <1>11, <1>12, <1>13,
     <1>14, <1>15, <1>16, <1>17, <1>18 DEF Next

\* As long as META is never lost, the inductive invariant of the store holds,
\* with power losses between any two steps and failing record writes.
THEOREM StoreInvariant ==
  ASSUME MetaIsKept
  PROVE  Spec => []StoreInv
<1>1. Init => TypeOK /\ StoreInv
  BY TypeInit, InvInit
<1>2. TypeOK /\ StoreInv /\ [Next]_vars => TypeOK' /\ StoreInv'
  BY TypeStep, InvStep
<1> QED BY <1>1, <1>2, PTL DEF Spec

\* store.h:4-6 for every capacity, any number of readers and reboots: two
\* answers for one sequence number are the same record, if META is kept.
THEOREM SeqNamesOneRecord ==
  ASSUME MetaIsKept
  PROVE  Spec => []OneRecordPerSeq
<1>1. StoreInv => OneRecordPerSeq
  BY DEF StoreInv
<1> QED BY <1>1, StoreInvariant, PTL

\* No reader holds a record whose number a power loss could give away again
\* (the mutex of store.c:129-144 around slot and META), if META is kept.
THEOREM AnswersAreDurable ==
  ASSUME MetaIsKept
  PROVE  Spec => []AnsweredIsDurable
<1>1. StoreInv => AnsweredIsDurable
  BY DEF StoreInv
<1> QED BY <1>1, StoreInvariant, PTL

-----------------------------------------------------------------------------
(* The store implements the ledger of SeqLedger.                           *)

LEMMA LedgerInitHolds == Init => Ledger!LedgerInit
<1>1. Init => UsedSeq \in Nat
  BY BoundsAssumption DEF Init, UsedSeq, MetaRead, ZeroMeta, InitPcs
<1>2. Init => StoreInv
  BY InvInit
<1> QED BY <1>1, <1>2 DEF Ledger!LedgerInit, StoreInv, AnswerMatchesRequest, AnsweredIsDurable

LEMMA LedgerStepHolds ==
  ASSUME MetaIsKept, TypeOK, StoreInv, StoreInv', [Next]_vars
  PROVE  [Ledger!LedgerNext]_(Ledger!ledgerVars)
<1> USE DEF Ledger!LedgerNext, Ledger!ledgerVars
<1>0. InSync
  BY DEF StoreInv
<1>1. ASSUME NEW r \in Readers, GetRead(r)
      PROVE  [Ledger!LedgerNext]_(Ledger!ledgerVars)
  <2>1. UsedSeq' = UsedSeq
    BY <1>1 DEF GetRead, flash, ram, UsedSeq, MetaRead
  <2>2. CASE delivered' = delivered
    BY <2>1, <2>2
  <2>3. CASE \E a : delivered' = delivered \cup {a}
    <3>1. PICK a : delivered' = delivered \cup {a}
      BY <2>3
    <3>2. a.asked < UsedSeq /\ a.rec.seq = a.asked
      BY <2>1, <3>1 DEF StoreInv, AnsweredIsDurable, AnswerMatchesRequest
    <3>3. \A b \in delivered : b.asked = a.asked => b = a
      BY <3>1 DEF StoreInv, OneRecordPerSeq
    <3> QED BY <2>1, <3>1, <3>2, <3>3 DEF Ledger!Deliver
  <2> QED BY <1>1, <2>2, <2>3 DEF GetRead
<1>2. CASE delivered' = delivered
  BY <1>0, <1>2, UsedStep DEF Ledger!Issue
<1>3. delivered' = delivered \/ \E r \in Readers : GetRead(r)
  BY DEF Next, Boot, BootMountFails, ClearAndMount, ClearFails, InitFails, WriteFormat,
         WriteFloor, WriteMeta, InitWriteFails, AppendBegin, AppendSlot, AppendSlotFails,
         AppendBump, AppendCommit, GetCheck, Tick, PowerLoss, vars
<1> QED BY <1>1, <1>2, <1>3

\* store.h:4-6 as a whole: if META is kept, the store is a ledger in which a
\* sequence number, once answered, stands for one record for ever, and only
\* numbers no boot will hand out again are answered.
THEOREM StoreImplementsLedger ==
  ASSUME MetaIsKept
  PROVE  Spec => LedgerSpec
<1>1. Init => TypeOK /\ StoreInv /\ Ledger!LedgerInit
  BY TypeInit, InvInit, LedgerInitHolds
<1>2. TypeOK /\ StoreInv /\ [Next]_vars =>
        TypeOK' /\ StoreInv' /\ [Ledger!LedgerNext]_(Ledger!ledgerVars)
  BY TypeStep, InvStep, LedgerStepHolds
<1> QED BY <1>1, <1>2, PTL DEF Spec, LedgerSpec, Ledger!LedgerSpec

-----------------------------------------------------------------------------
(* With anything failing: the counter keeps numbers apart while it is ahead. *)

\* A boot that kept its counter ahead of all that was answered: the number an
\* append writes is new, a reader holds a number of this boot, and no slot
\* contradicts an answer.
AheadInv ==
  /\ pc = "off" => ~ready
  /\ pc \in {"slot", "bump"} => cur.seq = meta.next_seq
  /\ GetsInRange
  /\ ready => \A a \in delivered : a.asked < meta.next_seq
  /\ SlotsAgree
  /\ OneRecordPerSeq

LEMMA AheadInit == Init => AheadInv
<1> SUFFICES ASSUME Init PROVE AheadInv
  OBVIOUS
<1>1. StoreInv
  BY InvInit
<1> QED BY <1>1 DEF Init, StoreInv, AheadInv

\* A step of the counter, the clock or the range leaves slots and answers alone.
LEMMA AheadQuiet ==
  ASSUME AheadInv, UNCHANGED <<nvsRec, delivered>>
  PROVE  SlotsAgree' /\ OneRecordPerSeq'
BY DEF AheadInv, SlotsAgree, OneRecordPerSeq

\* A wipe leaves no slot to contradict an answer.
LEMMA AheadWiped ==
  ASSUME AheadInv, UNCHANGED delivered, nvsRec' \in {nvsRec, [i \in Slots |-> NoRec]}
  PROVE  SlotsAgree' /\ OneRecordPerSeq'
<1>1. OneRecordPerSeq'
  BY DEF AheadInv, OneRecordPerSeq
<1>2. CASE nvsRec' = nvsRec
  BY <1>2, AheadQuiet
<1>3. CASE nvsRec' = [i \in Slots |-> NoRec]
  BY <1>1, <1>3 DEF SlotsAgree
<1> QED BY <1>1, <1>2, <1>3

\* Whatever fails, a boot that comes up ahead stays ahead.
LEMMA AheadStep ==
  ASSUME TypeOK, TypeOK', ~behind => AheadInv, [Next]_vars
  PROVE  ~behind' => AheadInv'
<1> SUFFICES ASSUME ~behind' PROVE AheadInv'
  OBVIOUS
<1>0. ~behind
  BY DEF Next, Boot, BootMountFails, InitFails, ClearAndMount, ClearFails, WriteFormat,
     WriteFloor, WriteMeta, InitWriteFails, AppendBegin, AppendSlot, AppendSlotFails,
     AppendBump, AppendCommit, GetCheck, GetRead, Tick, PowerLoss, vars
<1>a. AheadInv
  BY <1>0
<1>b. /\ pc = "off" => ~ready
      /\ pc \in {"slot", "bump"} => cur.seq = meta.next_seq
      /\ GetsInRange
      /\ ready => \A a \in delivered : a.asked < meta.next_seq
      /\ SlotsAgree
      /\ OneRecordPerSeq
  BY <1>a DEF AheadInv
<1>t. /\ meta.next_seq \in Nat
      /\ \A a \in delivered : a.asked \in Nat
      /\ \A r \in Readers : get[r] \in Nat \cup {-1}
  BY DEF TypeOK, Meta, Answer
<1> DEFINE Local == /\ pc' = "off" => ~ready'
                    /\ pc' \in {"slot", "bump"} => cur'.seq = meta'.next_seq
                    /\ GetsInRange'
                    /\ ready' => \A a \in delivered' : a.asked < meta'.next_seq
<1>c. Local /\ UNCHANGED <<nvsRec, delivered>> => AheadInv'
  BY <1>a, AheadQuiet DEF AheadInv
<1>1. CASE Boot
  <2>1. UNCHANGED <<nvsRec, delivered, get>> /\ pc = "off" /\ pc' \in {"idle", "clear"}
    BY <1>1 DEF Boot, flash
  <2>2. \A a \in delivered' : a.asked < meta'.next_seq
    <3>1. \A a \in delivered : ~(a.asked >= meta'.next_seq)
      BY <1>1 DEF Boot
    <3>2. meta'.next_seq \in Nat
      BY DEF TypeOK, Meta
    <3> QED BY <1>t, <2>1, <3>1, <3>2
  <2>3. GetsInRange'
    BY <1>b, <2>1 DEF GetsInRange
  <2> QED BY <1>c, <2>1, <2>2, <2>3
<1>2. CASE BootMountFails
  <2>1. /\ UNCHANGED <<nvsRec, delivered, get, ready, meta>> /\ pc = "off" /\ pc' = "idle"
    BY <1>2 DEF BootMountFails, InitFails, flash
  <2> QED BY <1>b, <1>c, <2>1 DEF GetsInRange
<1>3. CASE ClearAndMount
  <2>1. /\ UNCHANGED <<delivered, get, ready, meta>> /\ pc = "clear" /\ pc' = "format"
        /\ nvsRec' = [i \in Slots |-> NoRec]
    BY <1>3 DEF ClearAndMount, AllErased
  <2>2. Local
    BY <1>b, <2>1 DEF GetsInRange, InitPcs
  <2> QED BY <1>a, <2>1, <2>2, AheadWiped DEF AheadInv
<1>4. CASE ClearFails
  <2>1. /\ UNCHANGED <<delivered, get, meta>> /\ pc = "clear" /\ pc' = "idle"
        /\ nvsRec' \in {nvsRec, [i \in Slots |-> NoRec]} /\ (ready' => ready)
    BY <1>4 DEF ClearFails, InitFails, AllErased, PartlyErased
  <2>2. Local
    BY <1>b, <2>1 DEF GetsInRange, InitPcs
  <2> QED BY <1>a, <2>1, <2>2, AheadWiped DEF AheadInv
<1>5. CASE WriteFormat \/ WriteFloor \/ WriteMeta \/ InitWriteFails
  <2>1. /\ UNCHANGED <<nvsRec, delivered, get>>
        /\ UNCHANGED <<ready, meta>>
        /\ pc \in InitPcs /\ pc' \in {"floor", "meta", "idle"}
    BY <1>5 DEF WriteFormat, WriteFloor, WriteMeta, InitWriteFails, InitFails, ram, flash, InitPcs
  <2> QED BY <1>b, <1>c, <2>1 DEF GetsInRange, InitPcs
<1>6. ASSUME NEW v \in Values, AppendBegin(v) PROVE AheadInv'
  <2>1. /\ UNCHANGED <<nvsRec, delivered, get>>
        /\ UNCHANGED <<ready, meta>>
        /\ pc = "idle" /\ pc' = "slot" /\ cur'.seq = meta.next_seq
    BY <1>6 DEF AppendBegin, ram, flash
  <2> QED BY <1>b, <1>c, <2>1 DEF GetsInRange, InitPcs
<1>7. CASE AppendSlot
  <2>1. /\ UNCHANGED <<delivered, get, cur>> /\ UNCHANGED <<ready, meta>>
        /\ pc = "slot" /\ pc' = "bump" /\ ready
        /\ nvsRec' = [nvsRec EXCEPT ![SlotOf(cur.seq)] = cur]
    BY <1>7 DEF AppendSlot, ram
  <2>2. Local
    BY <1>b, <2>1 DEF GetsInRange, InitPcs
  <2>3. cur \in Record /\ cur.seq = meta.next_seq
    BY <1>b, <2>1 DEF TypeOK, AppendPcs
  <2>4. \A a \in delivered : a.asked # cur.seq
    BY <1>b, <1>t, <2>1, <2>3
  <2>5. ASSUME NEW i \in Slots, nvsRec'[i] # NoRec
        PROVE  /\ SlotOf(nvsRec'[i].seq) = i
               /\ \A a \in delivered : a.asked = nvsRec'[i].seq => a.rec = nvsRec'[i]
    <3>1. nvsRec'[i] = IF i = SlotOf(cur.seq) THEN cur ELSE nvsRec[i]
      BY <2>1 DEF TypeOK
    <3>2. CASE i = SlotOf(cur.seq)
      BY <2>4, <3>1, <3>2
    <3>3. CASE i # SlotOf(cur.seq)
      BY <1>b, <2>5, <3>1, <3>3 DEF SlotsAgree
    <3> QED BY <3>2, <3>3
  <2>6. SlotsAgree'
    BY <2>1, <2>5 DEF SlotsAgree, SlotOf
  <2>7. OneRecordPerSeq'
    BY <1>b, <2>1 DEF OneRecordPerSeq
  <2> QED BY <2>2, <2>6, <2>7 DEF AheadInv
<1>8. CASE AppendSlotFails
  <2>1. /\ UNCHANGED <<nvsRec, delivered, get>>
        /\ UNCHANGED <<ready, meta>> /\ pc = "slot" /\ pc' = "idle"
    BY <1>8 DEF AppendSlotFails, ram, flash
  <2> QED BY <1>b, <1>c, <2>1 DEF GetsInRange, InitPcs
<1>9. CASE AppendBump
  <2>1. /\ UNCHANGED <<nvsRec, delivered, get>> /\ UNCHANGED ready
        /\ meta'.next_seq = meta.next_seq + 1 /\ pc = "bump" /\ pc' = "commit"
    BY <1>9 DEF AppendBump, flash
  <2>2. \A k \in Nat \cup {-1} : k < meta.next_seq => k < meta.next_seq + 1
    BY <1>t
  <2>3. GetsInRange'
    BY <1>b, <1>t, <2>1, <2>2 DEF GetsInRange, InitPcs
  <2>4. ready' => \A a \in delivered' : a.asked < meta'.next_seq
    BY <1>b, <1>t, <2>1, <2>2
  <2> QED BY <1>c, <2>1, <2>3, <2>4
<1>10. CASE AppendCommit
  <2>1. /\ UNCHANGED <<nvsRec, delivered, get>>
        /\ UNCHANGED <<ready, meta>> /\ pc = "commit" /\ pc' = "idle"
    BY <1>10 DEF AppendCommit, ram
  <2> QED BY <1>b, <1>c, <2>1 DEF GetsInRange, InitPcs
<1>11. ASSUME NEW r \in Readers, NEW seq \in 0 .. MaxSeq, GetCheck(r, seq) PROVE AheadInv'
  <2>1. /\ UNCHANGED <<nvsRec, delivered, cur>> /\ UNCHANGED <<ready, meta, pc>>
        /\ pc \notin {"off"} \cup InitPcs /\ seq < meta.next_seq
        /\ \A q \in Readers : get'[q] = IF q = r THEN seq ELSE get[q]
    BY <1>11 DEF GetCheck, ram, flash, InitPcs, AppendPcs, TypeOK
  <2>2. GetsInRange'
    BY <1>b, <2>1 DEF GetsInRange
  <2> QED BY <1>b, <1>c, <2>1, <2>2
<1>12. ASSUME NEW r \in Readers, GetRead(r) PROVE AheadInv'
  <2>1. /\ UNCHANGED <<nvsRec, cur>> /\ UNCHANGED <<ready, meta, pc>>
        /\ get[r] # -1
        /\ \A q \in Readers : get'[q] = IF q = r THEN -1 ELSE get[q]
    BY <1>12 DEF GetRead, ram, flash, TypeOK
  <2>2. GetsInRange'
    BY <1>b, <2>1 DEF GetsInRange
  <2>3. CASE delivered' = delivered
    BY <1>b, <1>c, <2>1, <2>2, <2>3
  <2>4. CASE /\ Found(get[r])
             /\ delivered' = delivered \cup
                  {[asked |-> get[r], rec |-> nvsRec[SlotOf(get[r])]]}
    <3> DEFINE s == get[r]
               new == [asked |-> s, rec |-> nvsRec[SlotOf(s)]]
    <3>1. s \in Nat /\ SlotOf(s) \in Slots /\ s < meta.next_seq
      BY <1>b, <1>t, <2>1, SlotIsSlot DEF GetsInRange
    <3>2. nvsRec[SlotOf(s)] # NoRec /\ nvsRec[SlotOf(s)].seq = s
      BY <2>4 DEF Found
    <3>3. \A a \in delivered : a.asked = s => a = new
      BY <1>b, <3>1, <3>2 DEF SlotsAgree, TypeOK, Answer
    <3>4. \A i \in Slots : nvsRec[i] # NoRec =>
            /\ SlotOf(nvsRec[i].seq) = i
            /\ new.asked = nvsRec[i].seq => new.rec = nvsRec[i]
      BY <1>b DEF SlotsAgree
    <3>5. SlotsAgree'
      BY <1>b, <2>1, <2>4, <3>4 DEF SlotsAgree
    <3>6. OneRecordPerSeq'
      BY <1>b, <2>4, <3>3 DEF OneRecordPerSeq
    <3>7. ready' => \A a \in delivered' : a.asked < meta'.next_seq
      BY <1>b, <2>1, <2>4, <3>1
    <3> QED BY <1>b, <2>1, <2>2, <3>5, <3>6, <3>7 DEF AheadInv
  <2> QED BY <1>12, <2>3, <2>4 DEF GetRead
<1>13. CASE Tick \/ UNCHANGED vars
  <2>1. UNCHANGED <<nvsRec, delivered, get, cur>> /\ UNCHANGED <<ready, meta, pc>>
    BY <1>13 DEF Tick, vars, flash, ram
  <2> QED BY <1>b, <1>c, <2>1 DEF GetsInRange
<1>14. CASE PowerLoss
  <2>1. /\ UNCHANGED delivered /\ pc' = "off" /\ ~ready'
        /\ nvsRec' \in {nvsRec, [i \in Slots |-> NoRec]}
        /\ get' = [q \in Readers |-> -1]
    BY <1>14 DEF PowerLoss, PartlyErased, flash
  <2>2. Local
    BY <2>1 DEF GetsInRange
  <2> QED BY <1>a, <2>1, <2>2, AheadWiped DEF AheadInv
<1> QED
  BY <1>1, <1>2, <1>3, <1>4, <1>5, <1>6, <1>7, <1>8, <1>9, <1>10, <1>11, <1>12, <1>13, <1>14
     DEF Next

\* store.h:4-6 with anything failing, reads of NVS included, for every capacity
\* and number of readers: a number names a second record only after a boot took
\* up a counter (store.c:72-75) that was not past every number answered.
THEOREM ReuseIsTheCounters == Spec => []ReuseNeedsLostCounter
<1>1. Init => TypeOK /\ (~behind => AheadInv)
  BY TypeInit, AheadInit
<1>2. TypeOK /\ (~behind => AheadInv) /\ [Next]_vars => TypeOK' /\ (~behind' => AheadInv')
  BY TypeStep, AheadStep
<1>3. (~behind => AheadInv) => ReuseNeedsLostCounter
  BY DEF AheadInv, ReuseNeedsLostCounter
<1> QED BY <1>1, <1>2, <1>3, PTL DEF Spec

\* And no boot does unless META fails to be read or written, or a migration is
\* cut short: the five faults that MetaIsKept excludes are all there are.
THEOREM CounterIsNeverBehind ==
  ASSUME MetaIsKept
  PROVE  Spec => []~behind
<1>1. Init => TypeOK /\ StoreInv /\ ~behind
  BY TypeInit, InvInit DEF Init
<1>2. TypeOK /\ StoreInv /\ ~behind /\ [Next]_vars => TypeOK' /\ StoreInv' /\ ~behind'
  <2> SUFFICES ASSUME TypeOK, StoreInv, ~behind, [Next]_vars
               PROVE  TypeOK' /\ StoreInv' /\ ~behind'
    OBVIOUS
  <2>1. TypeOK' /\ StoreInv'
    BY TypeStep, InvStep
  <2>2. CASE Boot
    <3>1. \A a \in delivered : a.asked < MetaRead.next_seq
      BY <2>2 DEF StoreInv, AnsweredIsDurable, UsedSeq, Boot, InitPcs
    <3>2. meta' = MetaRead
      BY <2>2, BootTakesMeta
    <3>3. MetaRead.next_seq \in Nat /\ \A a \in delivered : a.asked \in Nat
      BY MetaReadType DEF TypeOK, Meta, Answer
    <3>4. \A a \in delivered : ~(a.asked >= meta'.next_seq)
      BY <3>1, <3>2, <3>3
    <3> QED BY <2>1, <2>2, <3>4 DEF Boot
  <2>3. CASE behind' = behind
    BY <2>1, <2>3
  <2> QED
    BY <2>2, <2>3 DEF Next, BootMountFails, InitFails, ClearAndMount, ClearFails, WriteFormat,
       WriteFloor, WriteMeta, InitWriteFails, AppendBegin, AppendSlot, AppendSlotFails,
       AppendBump, AppendCommit, GetCheck, GetRead, Tick, PowerLoss, vars
<1> QED BY <1>1, <1>2, PTL DEF Spec

-----------------------------------------------------------------------------
(* The clock of the records.                                               *)

\* The seconds a boot would start from, as UsedSeq is the number.
UsedBase == IF pc \in InitPcs THEN meta.base_sec ELSE MetaRead.base_sec

InUse == {i \in Slots : nvsRec[i] # NoRec /\ nvsRec[i].seq < UsedSeq}

\* The records that stand for their numbers: those flash has moved past, and
\* those answered.
Settled == {nvsRec[i] : i \in InUse} \cup {a.rec : a \in delivered}

\* They are in order, and the clock of the next boot starts after them.
SettledInOrder ==
  /\ \A r \in Settled : r.seq < UsedSeq /\ r.ts <= UsedBase
  /\ \A r, q \in Settled : r.seq < q.seq => r.ts <= q.ts

\* The clock of this boot, and of the record under way, started there.
ClockRuns ==
  /\ Serving => UsedBase <= store_now
  /\ pc \in AppendPcs /\ ready => UsedBase <= cur.ts /\ cur.ts <= store_now
  /\ pc \in {"bump", "commit"} => nvsRec[SlotOf(cur.seq)] = cur
  /\ pc = "commit" => meta.base_sec = cur.ts /\ cur.seq = UsedSeq

ClockInv == SettledInOrder /\ ClockRuns

LEMMA ClockTypes ==
  ASSUME TypeOK
  PROVE  /\ UsedSeq \in Nat /\ UsedBase \in Nat /\ store_now \in Nat
         /\ MetaRead \in Meta /\ meta \in Meta /\ NoEntry \notin Meta
         /\ \A r \in Settled : r \in Record /\ r.seq \in Nat /\ r.ts \in Nat
         /\ pc \in AppendPcs => cur \in Record /\ cur.seq \in Nat /\ cur.ts \in Nat
<1>1. MetaRead \in Meta /\ meta \in Meta /\ NoEntry \notin Meta
  BY MetaReadType, NoEntryAssumption DEF TypeOK
<1>2. UsedSeq \in Nat /\ UsedBase \in Nat
  BY <1>1 DEF UsedSeq, UsedBase, Meta
<1>3. store_now \in Nat
  BY DEF TypeOK, store_now
<1>4. \A r \in Settled : r \in Record
  <2>1. \A i \in InUse : nvsRec[i] \in Record
    BY DEF InUse, TypeOK
  <2>2. \A a \in delivered : a.rec \in Record
    BY DEF TypeOK, Answer
  <2> QED BY <2>1, <2>2 DEF Settled
<1>5. pc \in AppendPcs => cur \in Record
  BY DEF TypeOK
<1> QED BY <1>1, <1>2, <1>3, <1>4, <1>5 DEF Record

LEMMA ClockInit == Init => ClockInv
<1> SUFFICES ASSUME Init PROVE ClockInv
  OBVIOUS
<1>1. InUse = {}
  BY DEF Init, InUse
<1>2. ClockRuns
  BY DEF Init, ClockRuns, Serving, AppendPcs
<1>3. CASE nvsMeta = NoEntry /\ delivered = {}
  BY <1>1, <1>2, <1>3 DEF ClockInv, SettledInOrder, Settled
<1>4. ASSUME NEW n \in 1 .. MaxOld,
             nvsMeta = [next_seq |-> n, base_sec |-> 0],
             delivered = {[asked |-> s, rec |-> [seq |-> s, ts |-> 0, val |-> OldValue]] :
                            s \in 0 .. n - 1}
      PROVE  ClockInv
  <2>1. nvsMeta # NoEntry /\ n \in Nat
    BY <1>4, NoEntryAssumption, BoundsAssumption DEF Meta
  <2>2. UsedSeq = n /\ UsedBase = 0
    BY <1>4, <2>1 DEF UsedSeq, UsedBase, MetaRead, Init, InitPcs
  <2>3. \A r \in Settled : r.seq < n /\ r.ts = 0
    BY <1>1, <1>4, <2>1 DEF Settled
  <2> QED BY <1>2, <2>2, <2>3 DEF ClockInv, SettledInOrder
<1> QED BY <1>3, <1>4 DEF Init

\* The clock that survives moves only when store_append commits META.
LEMMA BaseStep ==
  ASSUME MetaIsKept, TypeOK, InSync, [Next]_vars, ~AppendCommit
  PROVE  UsedBase' = UsedBase
<1>0. MetaRead \in Meta /\ NoEntry \notin Meta
  BY MetaReadType, NoEntryAssumption DEF TypeOK
<1>1. CASE Boot
  BY <1>0, <1>1, BootTakesMeta DEF Boot, flash, UsedBase, InitPcs, MetaRead
<1>2. CASE BootMountFails
  BY <1>2 DEF BootMountFails, InitFails, flash, UsedBase, InitPcs, MetaRead
<1>3. CASE ClearAndMount
  BY <1>3 DEF ClearAndMount, UsedBase, InitPcs
<1>4. ~ClearFails /\ ~InitWriteFails
  BY DEF MetaIsKept, ClearFails, InitWriteFails, InitFails
<1>5. CASE WriteFormat
  BY <1>5 DEF WriteFormat, ram, UsedBase, InitPcs
<1>6. CASE WriteFloor
  BY <1>6 DEF WriteFloor, ram, UsedBase, InitPcs
<1>7. CASE WriteMeta
  <2>1. MetaRead' = meta
    BY <1>0, <1>7 DEF WriteMeta, MetaRead, TypeOK
  <2> QED BY <1>7, <2>1 DEF WriteMeta, UsedBase, InitPcs
<1>8. CASE PowerLoss
  <2>1. pc \notin InitPcs /\ UNCHANGED flash
    BY <1>8 DEF PowerLoss, MetaIsKept, InitPcs
  <2> QED BY <1>8, <2>1 DEF PowerLoss, flash, UsedBase, InitPcs, MetaRead
<1>9. CASE UNCHANGED nvsMeta /\ pc \notin InitPcs /\ pc' \notin InitPcs
  BY <1>9 DEF UsedBase, MetaRead
<1>10. CASE UNCHANGED <<nvsMeta, meta, pc>>
  BY <1>10 DEF UsedBase, MetaRead
<1> QED
  BY <1>1, <1>2, <1>3, <1>4, <1>5, <1>6, <1>7, <1>8, <1>9, <1>10
     DEF Next, AppendBegin, AppendSlot, AppendSlotFails, AppendBump, GetCheck, GetRead, Tick,
         flash, ram, vars, InitPcs

\* No record settles but when META is committed, and then the one under way.
LEMMA SettledStep ==
  ASSUME MetaIsKept, TypeOK, TypeOK', StoreInv, ClockRuns, [Next]_vars
  PROVE  Settled' \subseteq IF AppendCommit THEN Settled \cup {cur} ELSE Settled
<1>a. InSync /\ SlotsAgree
  BY DEF StoreInv
<1>t. UsedSeq \in Nat
  BY ClockTypes
<1>u. UsedSeq' = UsedSeq \/ (AppendCommit /\ UsedSeq' = UsedSeq + 1)
  BY <1>a, UsedStep
<1>1. CASE AppendCommit
  <2>1. UNCHANGED <<nvsRec, delivered>> /\ pc = "commit"
    BY <1>1 DEF AppendCommit
  <2>2. cur.seq = UsedSeq /\ nvsRec[SlotOf(cur.seq)] = cur
    BY <2>1 DEF ClockRuns
  <2>3. ASSUME NEW i \in InUse', nvsRec[i].seq >= UsedSeq PROVE nvsRec[i] = cur
    <3>1. i \in Slots /\ nvsRec[i] # NoRec /\ nvsRec[i].seq < UsedSeq' /\ nvsRec[i] \in Record
      BY <2>1 DEF InUse, TypeOK
    <3>2. nvsRec[i].seq = UsedSeq
      BY <1>t, <1>u, <2>3, <3>1 DEF Record
    <3> QED BY <1>a, <2>2, <3>1, <3>2 DEF SlotsAgree
  <2>4. \A i \in InUse' : i \in InUse \/ nvsRec[i].seq >= UsedSeq
    BY <1>t, <2>1 DEF InUse, TypeOK, Record
  <2> QED BY <1>1, <2>1, <2>3, <2>4 DEF Settled
<1>2. CASE ~AppendCommit
  <2>1. UsedSeq' = UsedSeq
    BY <1>2, <1>u
  <2>2. CASE UNCHANGED <<nvsRec, delivered>>
    BY <1>2, <2>1, <2>2 DEF Settled, InUse
  <2>3. CASE AppendSlot
    <3>1. /\ nvsRec' = [nvsRec EXCEPT ![SlotOf(cur.seq)] = cur] /\ delivered' = delivered
          /\ cur.seq = UsedSeq
      BY <1>a, <2>3 DEF AppendSlot, InSync, UsedSeq, InitPcs
    <3>2. ASSUME NEW i \in InUse' PROVE i \in InUse /\ nvsRec'[i] = nvsRec[i]
      <4>1. i \in Slots /\ nvsRec'[i] # NoRec /\ nvsRec'[i].seq < UsedSeq
        BY <2>1, <3>2 DEF InUse
      <4>2. nvsRec'[i] = IF i = SlotOf(cur.seq) THEN cur ELSE nvsRec[i]
        BY <3>1, <4>1 DEF TypeOK
      <4>3. nvsRec'[i] = nvsRec[i]
        BY <1>t, <3>1, <4>1, <4>2
      <4> QED BY <4>1, <4>3 DEF InUse
    <3> QED BY <1>2, <3>1, <3>2 DEF Settled
  <2>4. ASSUME NEW r \in Readers, GetRead(r) PROVE Settled' \subseteq Settled
    <3>1. UNCHANGED nvsRec /\ InUse' = InUse
      BY <2>1, <2>4 DEF GetRead, flash, InUse
    <3>2. CASE delivered' = delivered
      BY <3>1, <3>2 DEF Settled
    <3>3. CASE Found(get[r]) /\ delivered' = delivered \cup
                 {[asked |-> get[r], rec |-> nvsRec[SlotOf(get[r])]]}
      <4>1. get[r] \in Nat /\ get[r] < meta.next_seq /\ pc = "idle"
        BY <2>4 DEF GetRead, TypeOK, StoreInv, GetsInRange, LockFree, Pcs
      <4>2. meta.next_seq = UsedSeq
        BY <1>a, <3>3, <4>1 DEF Found, InSync, UsedSeq, InitPcs
      <4>3. SlotOf(get[r]) \in InUse
        BY <3>3, <4>1, <4>2, SlotIsSlot DEF Found, InUse
      <4> QED BY <3>1, <3>3, <4>3 DEF Settled
    <3> QED BY <2>4, <3>2, <3>3 DEF GetRead
  <2>5. CASE ClearAndMount
    <3>1. InUse' = {} /\ delivered' = delivered
      BY <2>5 DEF ClearAndMount, AllErased, InUse
    <3> QED BY <1>2, <3>1 DEF Settled
  <2>6. ~ClearFails /\ ~InitWriteFails
    BY DEF MetaIsKept, ClearFails, InitWriteFails, InitFails
  <2>7. CASE PowerLoss
    <3>1. UNCHANGED <<nvsRec, delivered>>
      BY <2>7 DEF PowerLoss, MetaIsKept, InitPcs, flash
    <3> QED BY <2>2, <3>1
  <2> QED
    BY <1>2, <2>2, <2>3, <2>4, <2>5, <2>6, <2>7
       DEF Next, Boot, BootMountFails, InitFails, WriteFormat, WriteFloor, WriteMeta, AppendBegin,
           AppendSlotFails, AppendBump, GetCheck, Tick, flash, vars
<1> QED BY <1>1, <1>2

\* A record that settles is stamped no earlier than those before it.
LEMMA OrderStep ==
  ASSUME MetaIsKept, TypeOK, TypeOK', StoreInv, ClockInv, [Next]_vars
  PROVE  SettledInOrder'
<1>a. InSync /\ ClockRuns /\ SettledInOrder
  BY DEF StoreInv, ClockInv
<1>t. UsedSeq \in Nat /\ UsedBase \in Nat
      /\ \A r \in Settled : r.seq \in Nat /\ r.ts \in Nat
  BY ClockTypes
<1>1. Settled' \subseteq IF AppendCommit THEN Settled \cup {cur} ELSE Settled
  BY <1>a, SettledStep
<1>2. CASE AppendCommit
  <2>1. pc = "commit" /\ pc' = "idle" /\ nvsMeta' = meta /\ meta \in Meta
    BY <1>2 DEF AppendCommit, MetaIsKept, TypeOK
  <2>2. UsedBase' = meta.base_sec /\ UsedSeq' = meta.next_seq
    BY <2>1, NoEntryAssumption DEF UsedBase, UsedSeq, MetaRead, InitPcs
  <2>3. UsedBase' = cur.ts /\ UsedSeq' = UsedSeq + 1 /\ cur.seq = UsedSeq /\ UsedBase <= cur.ts
    BY <1>a, <2>1, <2>2 DEF ClockRuns, InSync, UsedSeq, InitPcs, AppendPcs
  <2>4. cur.ts \in Nat
    BY <2>1, ClockTypes DEF AppendPcs
  <2>5. \A r \in Settled : r.seq < UsedSeq /\ r.ts <= cur.ts
    BY <1>a, <1>t, <2>3, <2>4 DEF SettledInOrder
  <2>6. \A r \in Settled' : r.seq < UsedSeq' /\ r.ts <= UsedBase'
    BY <1>1, <1>2, <1>t, <2>3, <2>4, <2>5
  <2>7. ASSUME NEW r \in Settled', NEW q \in Settled', r.seq < q.seq PROVE r.ts <= q.ts
    <3>1. CASE q = cur
      BY <1>1, <1>2, <1>t, <2>3, <2>4, <2>5, <3>1
    <3>2. CASE q # cur
      <4>1. q \in Settled
        BY <1>1, <1>2, <3>2
      <4>2. r # cur
        BY <1>t, <2>3, <2>5, <2>7, <4>1
      <4> QED BY <1>1, <1>2, <1>a, <2>7, <4>1, <4>2 DEF SettledInOrder
    <3> QED BY <3>1, <3>2
  <2> QED BY <2>6, <2>7 DEF SettledInOrder
<1>3. CASE ~AppendCommit
  <2>1. UsedSeq' = UsedSeq /\ UsedBase' = UsedBase
    BY <1>3, <1>a, UsedStep, BaseStep
  <2> QED BY <1>1, <1>3, <1>a, <2>1 DEF SettledInOrder
<1> QED BY <1>2, <1>3

LEMMA NoEarlier == \A offset, up \in Nat : offset <= offset + up
OBVIOUS

\* No step takes the clock of a boot back behind the records of the last.
LEMMA ClockRunsStep ==
  ASSUME MetaIsKept, TypeOK, TypeOK', InSync, ClockRuns, [Next]_vars
  PROVE  ClockRuns'
<1>t. /\ UsedBase \in Nat /\ store_now \in Nat /\ MetaRead \in Meta /\ meta \in Meta
      /\ NoEntry \notin Meta /\ (pc \in AppendPcs => cur \in Record /\ cur.seq \in Nat)
      /\ boot_offset \in Nat /\ uptime \in Nat
  BY ClockTypes DEF TypeOK
<1>e. ~ClearFails /\ ~InitWriteFails
  BY DEF MetaIsKept, ClearFails, InitWriteFails, InitFails
<1> USE DEF ClockRuns
<1>1. CASE Boot
  <2>1. UNCHANGED nvsMeta /\ uptime' = uptime /\ (pc' = "clear" \/ pc' = "idle")
        /\ (pc' = "idle" => boot_offset' = MetaRead.base_sec)
    BY <1>1, BootTakesMeta DEF Boot, flash
  <2>2. CASE pc' = "clear"
    BY <2>2 DEF Serving, AppendPcs
  <2>3. CASE pc' = "idle"
    <3>1. UsedBase' = boot_offset' /\ boot_offset' \in Nat
      BY <1>t, <2>1, <2>3 DEF UsedBase, MetaRead, InitPcs, Meta
    <3>2. store_now' = boot_offset' + uptime
      BY <2>1 DEF store_now
    <3>3. boot_offset' <= boot_offset' + uptime
      BY <1>t, <3>1, NoEarlier
    <3>4. UsedBase' <= store_now'
      BY <3>1, <3>2, <3>3
    <3> QED BY <2>3, <3>4 DEF AppendPcs
  <2> QED BY <2>1, <2>2, <2>3
<1>2. CASE BootMountFails
  BY <1>2 DEF BootMountFails, InitFails, InSync, Serving, AppendPcs
<1>3. CASE ClearAndMount \/ WriteFormat \/ WriteFloor
  BY <1>3 DEF ClearAndMount, WriteFormat, WriteFloor, Serving, AppendPcs
<1>4. CASE WriteMeta
  <2>1. pc' = "idle" /\ nvsMeta' = meta /\ boot_offset' = meta.base_sec /\ uptime' = uptime
    BY <1>4 DEF WriteMeta
  <2>2. UsedBase' = boot_offset' /\ boot_offset' \in Nat
    BY <1>t, <2>1 DEF UsedBase, MetaRead, InitPcs, Meta
  <2> QED BY <1>t, <2>1, <2>2 DEF store_now, AppendPcs
<1>5. ASSUME NEW v \in Values, AppendBegin(v) PROVE ClockRuns'
  <2>1. /\ pc = "idle" /\ pc' = "slot" /\ UNCHANGED <<flash, ram, uptime>>
        /\ cur'.ts = store_now
    BY <1>5 DEF AppendBegin
  <2>2. UsedBase' = UsedBase /\ store_now' = store_now /\ ready' = ready
    BY <2>1 DEF UsedBase, MetaRead, store_now, flash, ram, InitPcs
  <2>3. ready => Serving
    BY <2>1 DEF Serving
  <2> QED BY <1>t, <2>1, <2>2, <2>3 DEF Serving, AppendPcs
<1>6. CASE AppendSlot
  <2>1. /\ pc = "slot" /\ pc' = "bump" /\ ready /\ UNCHANGED <<nvsMeta, ram, uptime, cur>>
        /\ nvsRec' = [nvsRec EXCEPT ![SlotOf(cur.seq)] = cur]
    BY <1>6 DEF AppendSlot
  <2>2. UsedBase' = UsedBase /\ store_now' = store_now
    BY <2>1 DEF UsedBase, MetaRead, store_now, ram, InitPcs
  <2>3. nvsRec'[SlotOf(cur.seq)] = cur
    BY <1>t, <2>1, SlotIsSlot DEF TypeOK, AppendPcs
  <2>4. (nvsRec[SlotOf(cur.seq)] = cur)'
    BY <2>1, <2>3 DEF SlotOf
  <2> QED BY <2>1, <2>2, <2>4 DEF Serving, AppendPcs
<1>7. CASE AppendSlotFails
  <2>1. pc = "slot" /\ pc' = "idle" /\ UNCHANGED <<nvsMeta, ram, uptime>>
    BY <1>7 DEF AppendSlotFails, flash
  <2>2. UsedBase' = UsedBase /\ store_now' = store_now
    BY <2>1 DEF UsedBase, MetaRead, store_now, ram, InitPcs
  <2> QED BY <2>1, <2>2 DEF Serving, AppendPcs, ram
<1>8. CASE AppendBump
  <2>1. /\ pc = "bump" /\ pc' = "commit" /\ ready /\ ready' = ready
        /\ UNCHANGED <<flash, uptime, cur, boot_offset>>
        /\ meta'.base_sec = cur.ts /\ cur.seq = MetaRead.next_seq
    BY <1>8 DEF AppendBump, InSync
  <2>2. UsedBase' = UsedBase /\ store_now' = store_now /\ UsedSeq' = MetaRead.next_seq
    BY <2>1 DEF UsedBase, UsedSeq, MetaRead, store_now, flash, InitPcs
  <2> QED BY <2>1, <2>2 DEF Serving, AppendPcs, SlotOf, flash
<1>9. CASE AppendCommit
  <2>1. /\ pc = "commit" /\ pc' = "idle" /\ nvsMeta' = meta /\ ready
        /\ UNCHANGED <<ram, uptime>>
    BY <1>9 DEF AppendCommit, MetaIsKept, InSync
  <2>2. UsedBase' = cur.ts /\ store_now' = store_now
    BY <1>t, <2>1 DEF UsedBase, MetaRead, store_now, ram, InitPcs
  <2> QED BY <2>1, <2>2 DEF Serving, AppendPcs
<1>10. CASE PowerLoss
  BY <1>10 DEF PowerLoss, Serving, AppendPcs
<1>11. CASE UNCHANGED <<flash, ram, pc, cur>> /\ (uptime' = uptime \/ uptime' = uptime + 1)
  <2>1. UsedBase' = UsedBase /\ UsedSeq' = UsedSeq /\ store_now' \in {store_now, store_now + 1}
    BY <1>t, <1>11 DEF UsedBase, UsedSeq, MetaRead, store_now, flash, ram
  <2>2. UNCHANGED <<Serving, ready, meta, cur, pc, nvsRec>>
    BY <1>11 DEF Serving, flash, ram
  <2>3. pc \in AppendPcs => cur.ts \in Nat
    BY <1>t DEF Record
  <2> QED BY <1>t, <2>1, <2>2, <2>3 DEF SlotOf
<1> QED
  BY <1>e, <1>1, <1>2, <1>3, <1>4, <1>5, <1>6, <1>7, <1>8, <1>9, <1>10, <1>11
     DEF Next, GetCheck, GetRead, Tick, flash, ram, vars

\* main.c:12-15 for every capacity and any power losses between appends: if
\* META is kept, a later number never carries an earlier time, over all boots.
THEOREM TimeFollowsNumber ==
  ASSUME MetaIsKept
  PROVE  Spec => []TsFollowsSeq
<1>1. Init => TypeOK /\ StoreInv /\ ClockInv
  BY TypeInit, InvInit, ClockInit
<1>2. TypeOK /\ StoreInv /\ ClockInv /\ [Next]_vars => TypeOK' /\ StoreInv' /\ ClockInv'
  <2> SUFFICES ASSUME TypeOK, StoreInv, ClockInv, [Next]_vars
               PROVE  TypeOK' /\ StoreInv' /\ ClockInv'
    OBVIOUS
  <2>1. TypeOK' /\ StoreInv'
    BY TypeStep, InvStep
  <2>2. SettledInOrder'
    BY <2>1, OrderStep
  <2>3. ClockRuns'
    BY <2>1, ClockRunsStep DEF StoreInv, ClockInv
  <2> QED BY <2>1, <2>2, <2>3 DEF ClockInv
<1>3. StoreInv /\ ClockInv => TsFollowsSeq
  BY DEF StoreInv, AnswerMatchesRequest, ClockInv, SettledInOrder, Settled, TsFollowsSeq
<1> QED BY <1>1, <1>2, <1>3, PTL DEF Spec

-----------------------------------------------------------------------------
(* Slots of a ring.                                                        *)

\* A number is its lap times the capacity, and its slot.
LEMMA DivMod ==
  ASSUME NEW s \in Nat
  PROVE  s \div Capacity \in Nat /\ s % Capacity \in 0 .. Capacity - 1
         /\ s = Capacity * (s \div Capacity) + (s % Capacity)
BY CapacityAssumption

\* The only multiple of the capacity within a capacity of 0 is 0.
LEMMA SmallMultiple ==
  ASSUME NEW d \in Int, Capacity * d < Capacity, Capacity * d > -Capacity
  PROVE  d = 0
<1>1. CASE d >= 1
  <2>1. Capacity * d >= Capacity
    BY CapacityAssumption, <1>1
  <2> QED BY <2>1, CapacityAssumption
<1>2. CASE d <= -1
  <2>1. Capacity * d <= -Capacity
    BY CapacityAssumption, <1>2
  <2> QED BY <2>1, CapacityAssumption
<1> QED BY <1>1, <1>2

\* Numbers less than a capacity apart have different slots (store.c:134).
LEMMA SlotsDiffer ==
  ASSUME NEW s \in Nat, NEW t \in Nat, s < t, t < s + Capacity
  PROVE  SlotOf(s) # SlotOf(t)
<1> SUFFICES ASSUME s % Capacity = t % Capacity PROVE FALSE
  BY DEF SlotOf
<1> DEFINE p == s \div Capacity
           q == t \div Capacity
           r == s % Capacity
<1>1. /\ p \in Nat /\ q \in Nat /\ r \in Nat
      /\ s = Capacity * p + r /\ t = Capacity * q + r
  BY DivMod, CapacityAssumption
<1> HIDE DEF p, q, r
<1>2. t - s = Capacity * (q - p)
  BY <1>1, CapacityAssumption
<1>3. q - p \in Int /\ Capacity * (q - p) < Capacity /\ Capacity * (q - p) > -Capacity
  BY <1>1, <1>2, CapacityAssumption
<1>4. q - p = 0
  BY <1>3, SmallMultiple
<1> QED BY <1>1, <1>2, <1>4, CapacityAssumption

\* A number and the one a capacity on share a slot.
LEMMA SlotWraps ==
  ASSUME NEW s \in Nat
  PROVE  SlotOf(s + Capacity) = SlotOf(s)
<1> DEFINE p == s \div Capacity
           q == (s + Capacity) \div Capacity
           r == s % Capacity
           k == (s + Capacity) % Capacity
<1>1. /\ p \in Nat /\ q \in Nat /\ r \in 0 .. Capacity - 1 /\ k \in 0 .. Capacity - 1
      /\ s = Capacity * p + r /\ s + Capacity = Capacity * q + k
  BY DivMod, CapacityAssumption
<1> HIDE DEF p, q, r, k
<1>2. Capacity * (q - p - 1) = r - k
  BY <1>1, CapacityAssumption
<1>3. q - p - 1 = 0
  BY <1>1, <1>2, SmallMultiple, CapacityAssumption
<1> QED BY <1>1, <1>2, <1>3, CapacityAssumption DEF r, k, SlotOf

-----------------------------------------------------------------------------
(* The invariant.                                                          *)

FlashNext  == MetaRead.next_seq

SlotHolds(seq) == nvsRec[SlotOf(seq)] # NoRec /\ nvsRec[SlotOf(seq)].seq = seq

\* What an append needs of the boot before it, and of its own first write.
FloorsAgree ==
  /\ pc \in {"format", "floor", "meta"} => floor_seq = meta.next_seq
  /\ pc \in {"floor", "meta"} => nvsFormat
  /\ pc = "meta" => nvsFloor = floor_seq
  /\ Serving => nvsFormat /\ floor_seq = FloorRead
  /\ pc \in {"bump", "commit"} => SlotHolds(cur.seq)
  /\ pc = "commit" => cur.seq + 1 = meta.next_seq

\* Below its counter flash holds every number of the ring, but that the oldest
\* may have been overwritten by the next.
FlashIsRing ==
  nvsFormat /\ pc \notin InitPcs =>
    /\ FloorRead <= FlashNext
    /\ \A s \in Nat : FloorRead <= s /\ s < FlashNext /\ FlashNext <= s + Capacity =>
         \/ SlotHolds(s)
         \/ FlashNext = s + Capacity /\ SlotHolds(FlashNext)

RingInv == FloorsAgree /\ FlashIsRing

\* An erased part has nothing to agree.
LEMMA RingInvInit == Init => RingInv
BY DEF Init, RingInv, FloorsAgree, FlashIsRing, Serving, AppendPcs

\* The numbers flash and RAM keep are numbers.
LEMMA FlashTypes ==
  ASSUME TypeOK
  PROVE  FloorRead \in Nat /\ FlashNext \in Nat /\ Capacity \in Nat \ {0}
         /\ meta.next_seq \in Nat /\ floor_seq \in Nat
BY MetaReadType, CapacityAssumption DEF TypeOK, FloorRead, FlashNext, Meta

\* No step breaks the invariant.
LEMMA RingInvStep ==
  ASSUME MetaIsKept, "floorRead" \notin Faults, TypeOK, TypeOK', InSync, InSync', RingInv, [Next]_vars
  PROVE  RingInv'
<1> USE DEF RingInv
<1>t. /\ FloorRead \in Nat /\ FlashNext \in Nat /\ Capacity \in Nat \ {0}
      /\ meta.next_seq \in Nat /\ floor_seq \in Nat
  BY FlashTypes
<1>e. ~ClearFails /\ ~InitWriteFails
  BY DEF MetaIsKept, ClearFails, InitWriteFails, InitFails
\* Steps that leave flash, meta and the floor, and are not in the middle of an append.
<1>q. ASSUME UNCHANGED <<flash, ready, meta, floor_seq>>, pc \notin InitPcs, pc' \notin InitPcs,
             pc' \in {"bump", "commit"} => pc' = pc /\ UNCHANGED cur,
             Serving' => Serving
      PROVE  RingInv'
  <2>1. FlashIsRing'
    BY <1>q DEF FlashIsRing, FloorRead, FlashNext, MetaRead, SlotHolds, flash
  <2>2. FloorsAgree'
    BY <1>q DEF FloorsAgree, FloorRead, SlotHolds, flash, InitPcs
  <2> QED BY <2>1, <2>2
<1>1. CASE Boot
  <2>1. pc = "off" /\ UNCHANGED flash /\ pc' \in {"idle", "clear"}
        /\ (pc' = "idle" => nvsFormat /\ floor_seq' = FloorRead)
    BY <1>1 DEF Boot, FloorReads
  <2>2. FlashIsRing'
    BY <2>1 DEF FlashIsRing, FloorRead, FlashNext, MetaRead, SlotHolds, flash, InitPcs
  <2>3. FloorsAgree'
    BY <2>1 DEF FloorsAgree, FloorRead, Serving, AppendPcs, flash
  <2> QED BY <2>2, <2>3
<1>2. CASE BootMountFails
  <2>1. pc = "off" /\ ~ready /\ UNCHANGED <<flash, ready>> /\ pc' = "idle"
    BY <1>2 DEF BootMountFails, InitFails, InSync
  <2>2. FlashIsRing'
    BY <2>1 DEF FlashIsRing, FloorRead, FlashNext, MetaRead, SlotHolds, flash, InitPcs
  <2>3. FloorsAgree'
    BY <2>1 DEF FloorsAgree, Serving
  <2> QED BY <2>2, <2>3
<1>3. CASE ClearAndMount
  BY <1>3 DEF ClearAndMount, AllErased, FloorsAgree, FlashIsRing, Serving, AppendPcs, InitPcs
<1>4. CASE WriteFormat
  BY <1>4 DEF WriteFormat, ram, FloorsAgree, FlashIsRing, Serving, AppendPcs, InitPcs
<1>5. CASE WriteFloor
  BY <1>5 DEF WriteFloor, ram, FloorsAgree, FlashIsRing, Serving, AppendPcs, InitPcs
<1>6. CASE WriteMeta
  <2>1. /\ pc = "meta" /\ pc' = "idle" /\ nvsFormat /\ nvsFormat' = nvsFormat
        /\ nvsFloor = floor_seq /\ floor_seq = meta.next_seq
        /\ nvsFloor' = nvsFloor /\ floor_seq' = floor_seq
        /\ nvsMeta' = meta /\ meta \in Meta
    BY <1>6 DEF WriteMeta, FloorsAgree, TypeOK
  <2>2. FloorRead' = floor_seq /\ FlashNext' = floor_seq
    BY <1>t, <2>1, NoEntryAssumption DEF FloorRead, FlashNext, MetaRead
  <2>3. FlashIsRing'
    BY <1>t, <2>2 DEF FlashIsRing
  <2>4. FloorsAgree'
    BY <2>1, <2>2 DEF FloorsAgree
  <2> QED BY <2>3, <2>4
<1>7. ASSUME NEW v \in Values, AppendBegin(v) PROVE RingInv'
  BY <1>7, <1>q DEF AppendBegin, ram, InitPcs, Serving, AppendPcs
<1>8. CASE AppendSlot
  <2>1. /\ pc = "slot" /\ pc' = "bump" /\ ready
        /\ cur' = cur /\ cur.seq = FlashNext /\ cur \in Record
        /\ nvsRec' = [nvsRec EXCEPT ![SlotOf(FlashNext)] = cur]
        /\ FlashNext' = FlashNext /\ FloorRead' = FloorRead /\ nvsFormat' = nvsFormat
        /\ floor_seq' = floor_seq
    BY <1>8 DEF AppendSlot, InSync, FlashNext, FloorRead, MetaRead, TypeOK, AppendPcs, ram
  <2>2. \A s \in Nat : SlotOf(s) \in Slots
    BY SlotIsSlot
  <2>3. nvsRec'[SlotOf(FlashNext)] = cur
    BY <1>t, <2>1, <2>2 DEF TypeOK
  <2>4. SlotHolds(FlashNext)'
    BY <2>1, <2>3, NoRecAssumption DEF SlotHolds, SlotOf
  <2>5. ASSUME NEW s \in Nat, s < FlashNext, FlashNext < s + Capacity
        PROVE  SlotHolds(s)' <=> SlotHolds(s)
    <3>1. SlotOf(s) # SlotOf(FlashNext)
      BY <1>t, <2>5, SlotsDiffer
    <3>2. nvsRec'[SlotOf(s)] = nvsRec[SlotOf(s)]
      BY <2>1, <2>2, <3>1 DEF TypeOK
    <3> QED BY <3>2 DEF SlotHolds, SlotOf
  <2>6. FlashIsRing'
    <3>1. Serving
      BY <2>1 DEF Serving, AppendPcs
    <3>2. nvsFormat /\ pc \notin InitPcs
      BY <2>1, <3>1 DEF FloorsAgree, InitPcs
    <3>3. ASSUME NEW s \in Nat, FloorRead <= s, s < FlashNext, FlashNext <= s + Capacity
          PROVE  SlotHolds(s)' \/ (FlashNext = s + Capacity /\ SlotHolds(FlashNext)')
      <4>1. CASE FlashNext = s + Capacity
        BY <2>4, <4>1
      <4>2. CASE FlashNext # s + Capacity
        BY <1>t, <2>5, <3>2, <3>3, <4>2 DEF FlashIsRing
      <4> QED BY <4>1, <4>2
    <3> QED BY <2>1, <3>2, <3>3 DEF FlashIsRing, SlotHolds
  <2>7. FloorsAgree'
    BY <1>8, <2>1, <2>4 DEF FloorsAgree, Serving, AppendPcs, AppendSlot, ram, SlotHolds
  <2> QED BY <2>6, <2>7
<1>9. CASE AppendSlotFails
  BY <1>9, <1>q DEF AppendSlotFails, ram, InitPcs, Serving, AppendPcs
<1>10. CASE AppendBump
  <2>1. /\ pc = "bump" /\ pc' = "commit" /\ UNCHANGED <<flash, ready, floor_seq, cur>>
        /\ cur.seq = meta.next_seq /\ meta'.next_seq = meta.next_seq + 1
    BY <1>10 DEF AppendBump, InSync
  <2>2. FlashIsRing'
    BY <2>1 DEF FlashIsRing, FloorRead, FlashNext, MetaRead, SlotHolds, flash, InitPcs
  <2>3. FloorsAgree'
    BY <2>1 DEF FloorsAgree, FloorRead, Serving, AppendPcs, flash, SlotHolds
  <2> QED BY <2>2, <2>3
<1>11. CASE AppendCommit
  <2>1. /\ pc = "commit" /\ pc' = "idle" /\ nvsMeta' = meta
        /\ UNCHANGED <<nvsRec, nvsFormat, nvsFloor, ready, floor_seq>>
    BY <1>11 DEF AppendCommit, MetaIsKept, ram
  <2>2. meta \in Meta /\ NoEntry \notin Meta
    BY NoEntryAssumption DEF TypeOK
  <2>3. FlashNext' = FlashNext + 1 /\ FloorRead' = FloorRead /\ cur.seq = FlashNext
        /\ SlotHolds(FlashNext)
    BY <1>t, <2>1, <2>2 DEF FlashNext, FloorRead, MetaRead, InSync, FloorsAgree, TypeOK,
       AppendPcs, Record
  <2>4. FlashIsRing'
    <3>1. ready
      BY <2>1 DEF InSync
    <3>2. nvsFormat /\ pc \notin InitPcs
      BY <2>1, <3>1 DEF FloorsAgree, InitPcs, Serving, AppendPcs
    <3>3. FloorRead <= FlashNext + 1
      BY <1>t, <3>2 DEF FlashIsRing
    <3>4. ASSUME NEW s \in Nat, FloorRead <= s, s < FlashNext + 1, FlashNext + 1 <= s + Capacity
          PROVE  SlotHolds(s)
      BY <1>t, <2>3, <3>2, <3>4 DEF FlashIsRing
    <3> QED BY <2>1, <2>3, <3>3, <3>4 DEF FlashIsRing, SlotHolds
  <2>5. FloorsAgree'
    BY <2>1, <2>3 DEF FloorsAgree, Serving, AppendPcs
  <2> QED BY <2>4, <2>5
<1>12. ASSUME NEW r \in Readers, NEW seq \in 0 .. MaxSeq, GetCheck(r, seq) PROVE RingInv'
  BY <1>12, <1>q DEF GetCheck, ram, InitPcs, Serving, AppendPcs
<1>13. CASE UNCHANGED <<flash, ram, pc, cur>>
  BY <1>13 DEF FlashIsRing, FloorsAgree, FloorRead, FlashNext, MetaRead, SlotHolds, Serving,
     flash, ram
<1>14. CASE PowerLoss
  <2>1. pc \notin InitPcs /\ UNCHANGED flash /\ pc' = "off" /\ ~ready'
    BY <1>14 DEF PowerLoss, MetaIsKept, InitPcs
  <2>2. FlashIsRing'
    BY <2>1 DEF FlashIsRing, FloorRead, FlashNext, MetaRead, SlotHolds, flash
  <2>3. FloorsAgree'
    BY <2>1 DEF FloorsAgree, Serving
  <2> QED BY <2>2, <2>3
<1> QED
  <2>1. CASE \E r \in Readers : GetRead(r)
    BY <1>13, <2>1 DEF GetRead
  <2>2. CASE Tick \/ UNCHANGED vars
    BY <1>13, <2>2 DEF Tick, vars
  <2> QED
    BY <1>e, <1>1, <1>2, <1>3, <1>4, <1>5, <1>6, <1>7, <1>8, <1>9, <1>10, <1>11, <1>12,
       <1>14, <2>1, <2>2 DEF Next

-----------------------------------------------------------------------------
(* The refinement.                                                         *)

Range == store_oldest_seq .. meta.next_seq - 1
RingFull == meta.next_seq - store_oldest_seq = Capacity
Readable == {seq \in Range : Found(seq)}

\* The range is never longer than the ring (store.c:117-123).
LEMMA OldestType ==
  ASSUME TypeOK
  PROVE  /\ store_oldest_seq \in Nat
         /\ floor_seq <= store_oldest_seq
         /\ meta.next_seq <= store_oldest_seq + Capacity
         /\ floor_seq <= meta.next_seq => store_oldest_seq <= meta.next_seq
BY FlashTypes DEF store_oldest_seq

\* While META is being written, everything in the range is there.
LEMMA CommitReadsAll ==
  ASSUME TypeOK, InSync, RingInv, Serving, pc = "commit"
  PROVE  Readable = Range /\ floor_seq <= meta.next_seq
<1>1. /\ meta.next_seq = FlashNext + 1 /\ cur.seq = FlashNext /\ SlotHolds(FlashNext)
      /\ ready /\ nvsFormat /\ pc \notin InitPcs /\ floor_seq = FloorRead
  BY FlashTypes DEF InSync, RingInv, FloorsAgree, FlashNext, Serving, InitPcs, TypeOK, AppendPcs,
     Record
<1>2. ASSUME NEW s \in Range PROVE Found(s)
  <2>1. s \in Nat /\ FloorRead <= s /\ s <= FlashNext /\ FlashNext + 1 <= s + Capacity
    BY <1>1, OldestType, FlashTypes DEF Range
  <2>2. SlotHolds(s)
    BY <1>1, <2>1, FlashTypes DEF RingInv, FlashIsRing
  <2> QED BY <1>1, <2>2 DEF Found, SlotHolds
<1>3. FloorRead <= FlashNext
  BY <1>1 DEF RingInv, FlashIsRing
<1> QED BY <1>1, <1>2, <1>3, FlashTypes DEF Readable

\* Otherwise only the oldest record of a full ring may be missing.
LEMMA IdleReadsAllButOldest ==
  ASSUME TypeOK, InSync, RingInv, Serving, pc # "commit"
  PROVE  /\ floor_seq <= meta.next_seq
         /\ \A s \in Range : Found(s) \/ (RingFull /\ s = store_oldest_seq)
<1>1. /\ meta.next_seq = FlashNext /\ ready /\ nvsFormat /\ pc \notin InitPcs
      /\ floor_seq = FloorRead /\ FloorRead <= FlashNext
  BY DEF InSync, RingInv, FloorsAgree, FlashIsRing, FlashNext, Serving, InitPcs, AppendPcs
<1>2. ASSUME NEW s \in Range PROVE Found(s) \/ (RingFull /\ s = store_oldest_seq)
  <2>1. s \in Nat /\ FloorRead <= s /\ s < FlashNext /\ FlashNext <= s + Capacity
    BY <1>1, OldestType, FlashTypes DEF Range
  <2>2. SlotHolds(s) \/ FlashNext = s + Capacity
    BY <1>1, <2>1 DEF RingInv, FlashIsRing
  <2>3. CASE SlotHolds(s)
    BY <1>1, <2>3 DEF Found, SlotHolds
  <2>4. CASE FlashNext = s + Capacity
    BY <1>1, <2>1, <2>4, OldestType, FlashTypes DEF Range, RingFull
  <2> QED BY <2>2, <2>3, <2>4
<1> QED BY <1>1, <1>2

\* So readers see a ring whenever the store serves them.
LEMMA ReadersSeeRing ==
  ASSUME TypeOK, InSync, RingInv, Serving
  PROVE  ReadersRing!RingOK
<1> USE DEF ReadersRing!RingOK, ReadersRing!InRange, ReadersRing!Full
<1>1. floor_seq <= meta.next_seq
      /\ \A s \in Range : Found(s) \/ (RingFull /\ s = store_oldest_seq)
  BY CommitReadsAll, IdleReadsAllButOldest DEF Readable
<1>2. meta.next_seq - store_oldest_seq \in 0 .. Capacity
  BY <1>1, OldestType, FlashTypes
<1>3. \/ Readable = Range
      \/ RingFull /\ Readable = Range \ {store_oldest_seq}
  BY <1>1 DEF Readable
<1> QED BY <1>2, <1>3 DEF Readable, Range, RingFull

\* The write of the slot takes at most the oldest record away.
LEMMA SlotTears ==
  ASSUME TypeOK, InSync, RingInv, AppendSlot
  PROVE  /\ UNCHANGED <<Serving, store_oldest_seq, meta.next_seq>>
         /\ Readable' = IF RingFull THEN Readable \ {store_oldest_seq} ELSE Readable
<1>1. /\ pc = "slot" /\ pc' = "bump" /\ ready /\ ready' = ready /\ meta' = meta
      /\ floor_seq' = floor_seq /\ cur \in Record /\ cur.seq = meta.next_seq
      /\ nvsRec' = [nvsRec EXCEPT ![SlotOf(meta.next_seq)] = cur]
  BY DEF AppendSlot, ram, InSync, TypeOK, AppendPcs
<1>2. UNCHANGED <<Serving, store_oldest_seq, meta.next_seq>>
  BY <1>1 DEF Serving, AppendPcs, store_oldest_seq
<1>3. \A s \in Nat : SlotOf(s) \in Slots
  BY SlotIsSlot
<1>4. ASSUME NEW s \in Range PROVE s \in Nat /\ s < meta.next_seq /\ meta.next_seq <= s + Capacity
  BY OldestType, FlashTypes DEF Range
<1>5. ASSUME NEW s \in Range, meta.next_seq < s + Capacity PROVE Found(s)' <=> Found(s)
  <2>1. SlotOf(s) # SlotOf(meta.next_seq)
    BY <1>4, <1>5, SlotsDiffer, FlashTypes
  <2>2. nvsRec'[SlotOf(s)] = nvsRec[SlotOf(s)]
    BY <1>1, <1>3, <1>4, <2>1, FlashTypes DEF TypeOK
  <2> QED BY <1>1, <2>2 DEF Found, SlotOf
<1>6. ASSUME NEW s \in Range, meta.next_seq = s + Capacity PROVE ~Found(s)'
  <2>1. SlotOf(s) = SlotOf(meta.next_seq)
    BY <1>4, <1>6, SlotWraps
  <2>2. nvsRec'[SlotOf(s)] = cur
    BY <1>1, <1>3, <1>4, <2>1 DEF TypeOK
  <2>3. s # meta.next_seq
    BY <1>4, FlashTypes
  <2> QED BY <1>1, <2>2, <2>3 DEF Found, SlotOf
<1>7. Range' = Range
  BY <1>1, <1>2 DEF Range
<1>8. CASE RingFull
  <2>1. \A s \in Range : meta.next_seq = s + Capacity <=> s = store_oldest_seq
    BY <1>8, OldestType, FlashTypes DEF RingFull, Range
  <2>2. \A s \in Range : Found(s)' <=> Found(s) /\ s # store_oldest_seq
    BY <1>4, <1>5, <1>6, <2>1, FlashTypes
  <2> QED BY <1>2, <1>7, <1>8, <2>2 DEF Readable
<1>9. CASE ~RingFull
  <2>1. \A s \in Range : meta.next_seq < s + Capacity
    BY <1>9, OldestType, FlashTypes DEF RingFull, Range
  <2>2. \A s \in Range : Found(s)' <=> Found(s)
    BY <1>5, <2>1
  <2> QED BY <1>2, <1>7, <1>9, <2>2 DEF Readable
<1> QED BY <1>8, <1>9

\* The same of the state after a step.
LEMMA NextReadersSeeRing ==
  (TypeOK /\ InSync /\ RingInv /\ Serving => ReadersRing!RingOK)'
<1>1. TypeOK /\ InSync /\ RingInv /\ Serving => ReadersRing!RingOK
  BY ReadersSeeRing
<1> QED BY <1>1, PTL

\* And of the reads while META is written.
LEMMA NextCommitReadsAll ==
  (TypeOK /\ InSync /\ RingInv /\ Serving /\ pc = "commit" => Readable = Range)'
<1>1. TypeOK /\ InSync /\ RingInv /\ Serving /\ pc = "commit" => Readable = Range
  BY CommitReadsAll
<1> QED BY <1>1, PTL

\* Every step is one of the ring's, or none.
LEMMA RingStepHolds ==
  ASSUME MetaIsKept, TypeOK, TypeOK', InSync, InSync', RingInv, RingInv', [Next]_vars
  PROVE  [ReadersRing!RingNext]_(ReadersRing!ringVars)
<1> USE DEF ReadersRing!RingNext, ReadersRing!ringVars
<1>1. CASE ~Serving /\ Serving'
  <2>1. ReadersRing!RingOK'
    BY <1>1, NextReadersSeeRing
  <2> QED BY <1>1, <2>1 DEF ReadersRing!Open
<1>2. CASE ~Serving /\ ~Serving'
  BY <1>2 DEF ReadersRing!Down
<1>3. CASE Serving /\ ~Serving'
  BY <1>3 DEF ReadersRing!Close
<1>4. CASE Serving /\ Serving'
  <2>1. CASE UNCHANGED <<nvsRec, ready, meta, floor_seq>>
    BY <1>4, <2>1 DEF store_oldest_seq, Found
  <2>2. CASE AppendSlot
    <3>1. /\ UNCHANGED <<Serving, store_oldest_seq, meta.next_seq>>
          /\ Readable' = IF RingFull THEN Readable \ {store_oldest_seq} ELSE Readable
      BY <2>2, SlotTears
    <3>2. CASE RingFull
      BY <1>4, <3>1, <3>2 DEF ReadersRing!Tear, ReadersRing!Full, RingFull, Readable, Range
    <3>3. CASE ~RingFull
      BY <3>1, <3>3 DEF Readable, Range
    <3> QED BY <3>2, <3>3
  <2>3. CASE AppendBump
    <3>1. /\ meta'.next_seq = meta.next_seq + 1 /\ floor_seq' = floor_seq /\ pc' = "commit"
      BY <2>3 DEF AppendBump
    <3>2. Readable' = Range'
      BY <1>4, <3>1, NextCommitReadsAll
    <3>3. floor_seq <= meta.next_seq
      BY <1>4, <2>3, IdleReadsAllButOldest DEF AppendBump
    <3>4. store_oldest_seq' = IF RingFull THEN store_oldest_seq + 1 ELSE store_oldest_seq
      BY <3>1, <3>3, FlashTypes DEF store_oldest_seq, RingFull
    <3>5. Range' = store_oldest_seq' .. meta.next_seq
      BY <3>1, FlashTypes DEF Range
    <3> QED BY <1>4, <3>1, <3>2, <3>4, <3>5
       DEF ReadersRing!AppendRecord, ReadersRing!Full, RingFull, Readable, Range
  <2>4. ~ClearFails /\ ~InitWriteFails
    BY DEF MetaIsKept, ClearFails, InitWriteFails, InitFails
  <2>5. pc \notin {"off"} \cup InitPcs /\ pc' # "off"
    BY <1>4 DEF Serving, AppendPcs, InitPcs
  <2>6. \/ AppendSlot \/ AppendBump
        \/ UNCHANGED <<nvsRec, ready, meta, floor_seq>>
    BY <2>4, <2>5 DEF Next, Boot, BootMountFails, ClearAndMount, WriteFormat, WriteFloor, WriteMeta,
       AppendBegin, AppendSlotFails, AppendCommit, GetCheck, GetRead, Tick, PowerLoss,
       InitPcs, flash, ram, vars
  <2> QED BY <2>1, <2>2, <2>3, <2>6
<1> QED BY <1>1, <1>2, <1>3, <1>4

\* store.c:117-123 with store.c:148-165, for every capacity: if META is kept
\* and a FLOOR in flash is read, readers see a ring.  What store_oldest_seq
\* claims is there, except that the oldest record of a full ring may be gone,
\* and one append moves the range by one record.
THEOREM StoreImplementsRing ==
  ASSUME MetaIsKept, "floorRead" \notin Faults
  PROVE  Spec => RingSpec
<1>1. Init => TypeOK /\ StoreInv /\ RingInv /\ ReadersRing!RingInit
  <2>1. Init => ~Serving
    BY DEF Init, Serving, AppendPcs
  <2> QED BY <2>1, TypeInit, InvInit, RingInvInit DEF ReadersRing!RingInit
<1>2. TypeOK /\ StoreInv /\ RingInv /\ [Next]_vars =>
        TypeOK' /\ StoreInv' /\ RingInv' /\ [ReadersRing!RingNext]_(ReadersRing!ringVars)
  <2>1. StoreInv => InSync
    BY DEF StoreInv
  <2>2. TypeOK /\ StoreInv /\ [Next]_vars => TypeOK' /\ StoreInv' /\ InSync'
    BY TypeStep, InvStep DEF StoreInv
  <2> QED BY <2>1, <2>2, RingInvStep, RingStepHolds
<1> QED BY <1>1, <1>2, PTL DEF Spec, RingSpec, ReadersRing!RingSpec
=============================================================================
