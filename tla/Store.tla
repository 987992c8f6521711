------------------------------- MODULE Store -------------------------------
(***************************************************************************)
(* The flash ring of src/store.c: one slot per record in NVS, a META entry *)
(* that says which sequence number comes next, a FORMAT entry that tells   *)
(* the shape of the records, and a FLOOR below which nothing is held.      *)
(*                                                                         *)
(* NVS is external: one nvs_write is atomic (a power loss leaves the old   *)
(* entry or the new one), it may fail and then changes nothing, and        *)
(* nvs_clear erases sector by sector, so a power loss or a failure in it   *)
(* leaves any part of the file system.  An nvs_read may fail although the   *)
(* entry is there, and leaves its destination as it was.  Faults is the set *)
(* of things that may go wrong in a run; each is named where it strikes.   *)
(*                                                                         *)
(* The main thread boots and appends, step by step; Readers are the        *)
(* threads inside store_get.  Two variables are history only: `delivered'   *)
(* has every answer given to a reader, over all boots (what the app and the *)
(* server may already hold), and `behind' says whether a boot ever took up  *)
(* a counter that was not past all the numbers in it.                       *)
(***************************************************************************)
EXTENDS Integers

CONSTANTS
  Capacity,   \* STORE_CAPACITY
  Readers,    \* threads that call store_get
  Values,     \* measurements a record may carry
  OldValue,   \* a measurement of records an older firmware appended
  NoRec,      \* an empty or unreadable slot, and "no record in hand"
  NoEntry,    \* an NVS entry that is not there
  Faults,     \* what may go wrong, a subset of FaultKinds
  MaxOld,     \* bound: appends of the older firmware
  MaxSeq,     \* bound: next_seq stays at most this
  MaxTime     \* bound: device seconds stay at most this

FaultKinds == {"mount", "metaRead", "formatRead", "floorRead", "recordRead",
               "clear", "initWrite", "slotWrite", "metaWrite",
               "powerLoss", "powerLossInInit"}

ASSUME CapacityAssumption == Capacity \in Nat \ {0}
ASSUME BoundsAssumption   == MaxOld \in Nat /\ MaxSeq \in Nat /\ MaxTime \in Nat
ASSUME FaultsAssumption   == Faults \subseteq FaultKinds

Slots  == 0 .. Capacity - 1
Record == [seq : Nat, ts : Nat, val : Values \cup {OldValue}]
Answer == [asked : Nat, rec : Record]
Meta   == [next_seq : Nat, base_sec : Nat]

ASSUME NoRecAssumption   == NoRec \notin Record
ASSUME NoEntryAssumption == NoEntry \notin Meta /\ NoEntry \notin Nat

ZeroMeta == [next_seq |-> 0, base_sec |-> 0]

VARIABLES
  nvsRec, nvsMeta, nvsFormat, nvsFloor,   \* flash: survives a power loss
  ready,         \* the file system is mounted (fs.ready, inside NVS)
  meta,          \* RAM copy of META
  boot_offset,   \* device seconds at this boot
  floor_seq,     \* nothing below this is held any more
  uptime,        \* seconds since boot
  initErr,       \* store_init returned an error in this boot
  pc,            \* where the main thread is
  cur,           \* the record store_append is writing
  get,           \* reader -> seq that passed store_get's range check, or -1
  delivered,     \* answers given to readers, over all boots
  behind         \* a boot took up a counter not past all of them

flash == <<nvsRec, nvsMeta, nvsFormat, nvsFloor>>
ram   == <<ready, meta, boot_offset, floor_seq, initErr>>
vars  == <<flash, ram, uptime, pc, cur, get, delivered, behind>>

InitPcs   == {"clear", "format", "floor", "meta"}
AppendPcs == {"slot", "bump", "commit"}
Pcs       == {"off", "idle"} \cup InitPcs \cup AppendPcs

TypeOK ==
  /\ nvsRec \in [Slots -> Record \cup {NoRec}]
  /\ nvsMeta \in Meta \cup {NoEntry}
  /\ nvsFormat \in BOOLEAN
  /\ nvsFloor \in Nat \cup {NoEntry}
  /\ ready \in BOOLEAN
  /\ meta \in Meta
  /\ boot_offset \in Nat
  /\ floor_seq \in Nat
  /\ uptime \in Nat
  /\ initErr \in BOOLEAN
  /\ pc \in Pcs
  /\ cur \in Record \cup {NoRec}
  /\ pc \in AppendPcs => cur \in Record
  /\ get \in [Readers -> Nat \cup {-1}]
  /\ delivered \subseteq Answer
  /\ behind \in BOOLEAN

-----------------------------------------------------------------------------
(* The clock, the range and the lock.                                      *)

store_now == boot_offset + uptime

\* The slot of a sequence number, NVS_ID_REC0 + seq % STORE_CAPACITY.
SlotOf(seq) == seq % Capacity

\* Mutant: the ring is taken to hold one record more than it has slots.
store_oldest_seq_OffByOne ==
  LET ring == IF meta.next_seq > Capacity + 1 THEN meta.next_seq - Capacity - 1 ELSE 0
  IN  IF floor_seq > ring THEN floor_seq ELSE ring

store_oldest_seq ==
  LET ring == IF meta.next_seq > Capacity THEN meta.next_seq - Capacity ELSE 0
  IN  IF floor_seq > ring THEN floor_seq ELSE ring

\* Mutant: readers do not take the mutex.
LockFree_NoLock == TRUE

\* store_append holds the mutex from before its first write to after its
\* last; store_get holds it for one nvs_read, which is one step here.
LockFree == pc \notin AppendPcs

-----------------------------------------------------------------------------
(* Boot: store_init.  Nothing else of the node runs before it returns.     *)

\* A flash that never held a record, or one an older firmware with another
\* record format left after n appends, all of them downloaded.
Init ==
  /\ nvsRec = [i \in Slots |-> NoRec]
  /\ nvsFormat = FALSE
  /\ nvsFloor = NoEntry
  /\ \/ nvsMeta = NoEntry /\ delivered = {}
     \/ \E n \in 1 .. MaxOld :
          /\ nvsMeta = [next_seq |-> n, base_sec |-> 0]
          /\ delivered = {[asked |-> s, rec |-> [seq |-> s, ts |-> 0, val |-> OldValue]] :
                            s \in 0 .. n - 1}
  /\ ready = FALSE
  /\ meta = ZeroMeta
  /\ boot_offset = 0
  /\ floor_seq = 0
  /\ uptime = 0
  /\ initErr = FALSE
  /\ pc = "off"
  /\ cur = NoRec
  /\ get = [r \in Readers |-> -1]
  /\ behind = FALSE

\* Mutant: a META entry that cannot be read is used all the same.
MetaRead_Unchecked == nvsMeta

MetaRead == IF nvsMeta = NoEntry THEN ZeroMeta ELSE nvsMeta
FloorRead == IF nvsFloor = NoEntry THEN 0 ELSE nvsFloor

\* What the two reads may come to: one that fails is taken for an entry that
\* is not there.
MetaReads  == {m \in {MetaRead, ZeroMeta} : m = MetaRead \/ "metaRead" \in Faults}
FloorReads == {f \in {FloorRead, 0} : f = FloorRead \/ "floorRead" \in Faults}

\* nvs_mount, the META and FORMAT entries, and FLOOR when the format fits; a
\* FORMAT that cannot be read is a format that does not fit.
Boot ==
  /\ pc = "off"
  /\ ready' = TRUE
  /\ meta' \in MetaReads
  /\ \/ /\ nvsFormat
        /\ floor_seq' \in FloorReads
        /\ boot_offset' = meta'.base_sec
        /\ pc' = "idle"
     \/ /\ ~nvsFormat \/ "formatRead" \in Faults
        /\ pc' = "clear"
        /\ UNCHANGED <<floor_seq, boot_offset>>
  /\ behind' = (behind \/ \E a \in delivered : a.asked >= meta'.next_seq)
  /\ UNCHANGED <<flash, initErr, uptime, cur, get, delivered>>

\* store_init gives up; main goes on all the same.
InitFails(fault) ==
  /\ fault \in Faults
  /\ initErr' = TRUE
  /\ pc' = "idle"
  /\ UNCHANGED <<meta, boot_offset, uptime, cur, get, delivered, behind>>

BootMountFails ==
  /\ pc = "off"
  /\ InitFails("mount")
  /\ UNCHANGED <<flash, ready, floor_seq>>

AllErased ==
  /\ nvsRec' = [i \in Slots |-> NoRec]
  /\ nvsMeta' = NoEntry
  /\ nvsFormat' = FALSE
  /\ nvsFloor' = NoEntry

\* What an nvs_clear that does not finish leaves.
PartlyErased ==
  /\ nvsRec' \in {nvsRec, [i \in Slots |-> NoRec]}
  /\ nvsMeta' \in {nvsMeta, NoEntry}
  /\ nvsFloor' \in {nvsFloor, NoEntry}
  /\ UNCHANGED nvsFormat

\* Mutant: META is read once more after the file system was erased.
ClearAndMount_Rereads ==
  /\ pc = "clear"
  /\ AllErased
  /\ meta' = ZeroMeta
  /\ floor_seq' = meta.next_seq
  /\ pc' = "format"
  /\ UNCHANGED <<ready, boot_offset, initErr, uptime, cur, get, delivered, behind>>

\* The format changed: nvs_clear, mount again, and the floor in RAM.
ClearAndMount ==
  /\ pc = "clear"
  /\ AllErased
  /\ floor_seq' = meta.next_seq
  /\ pc' = "format"
  /\ UNCHANGED <<ready, meta, boot_offset, initErr, uptime, cur, get, delivered, behind>>

ClearFails ==
  /\ pc = "clear"
  /\ InitFails("clear")
  /\ \/ PartlyErased /\ UNCHANGED ready
     \/ AllErased /\ ready' = FALSE      \* cleared, but the second mount failed
  /\ UNCHANGED floor_seq

WriteFormat ==
  /\ pc = "format"
  /\ nvsFormat' = TRUE
  /\ pc' = "floor"
  /\ UNCHANGED <<nvsRec, nvsMeta, nvsFloor, ram, uptime, cur, get, delivered, behind>>

WriteFloor ==
  /\ pc = "floor"
  /\ nvsFloor' = floor_seq
  /\ pc' = "meta"
  /\ UNCHANGED <<nvsRec, nvsMeta, nvsFormat, ram, uptime, cur, get, delivered, behind>>

\* Mutant: the migration keeps the floor but not the counter.
WriteMeta_Forgotten ==
  /\ pc = "meta"
  /\ boot_offset' = meta.base_sec
  /\ pc' = "idle"
  /\ UNCHANGED <<flash, ready, meta, floor_seq, initErr, uptime, cur, get, delivered, behind>>

WriteMeta ==
  /\ pc = "meta"
  /\ nvsMeta' = meta
  /\ boot_offset' = meta.base_sec
  /\ pc' = "idle"
  /\ UNCHANGED <<nvsRec, nvsFormat, nvsFloor, ready, meta, floor_seq, initErr,
                 uptime, cur, get, delivered, behind>>

InitWriteFails ==
  /\ pc \in {"format", "floor", "meta"}
  /\ InitFails("initWrite")
  /\ UNCHANGED <<flash, ready, floor_seq>>

-----------------------------------------------------------------------------
(* store_append, by the main thread, and store_get, by any thread.         *)

AppendBegin(v) ==
  /\ pc = "idle"
  /\ meta.next_seq < MaxSeq
  /\ cur' = [seq |-> meta.next_seq, ts |-> store_now, val |-> v]
  /\ pc' = "slot"
  /\ UNCHANGED <<flash, ram, uptime, get, delivered, behind>>

AppendSlot ==
  /\ pc = "slot"
  /\ ready
  /\ nvsRec' = [nvsRec EXCEPT ![SlotOf(cur.seq)] = cur]
  /\ pc' = "bump"
  /\ UNCHANGED <<nvsMeta, nvsFormat, nvsFloor, ram, uptime, cur, get, delivered, behind>>

\* The write of the record fails: unlock and return, nothing has changed.
AppendSlotFails ==
  /\ pc = "slot"
  /\ ~ready \/ "slotWrite" \in Faults
  /\ pc' = "idle"
  /\ cur' = NoRec
  /\ UNCHANGED <<flash, ram, uptime, get, delivered, behind>>

\* Mutant: base_sec is not kept up with the appends.
AppendBump_StaleBase ==
  /\ pc = "bump"
  /\ meta' = [meta EXCEPT !.next_seq = @ + 1]
  /\ pc' = "commit"
  /\ UNCHANGED <<flash, ready, boot_offset, floor_seq, initErr, uptime, cur, get, delivered, behind>>

\* The RAM copy moves first, so lock-free readers see it before the flash has it.
AppendBump ==
  /\ pc = "bump"
  /\ meta' = [next_seq |-> meta.next_seq + 1, base_sec |-> cur.ts]
  /\ pc' = "commit"
  /\ UNCHANGED <<flash, ready, boot_offset, floor_seq, initErr, uptime, cur, get, delivered, behind>>

\* META is written, or its write fails; either way the mutex is released.
AppendCommit ==
  /\ pc = "commit"
  /\ \/ nvsMeta' = meta
     \/ "metaWrite" \in Faults /\ UNCHANGED nvsMeta
  /\ pc' = "idle"
  /\ cur' = NoRec
  /\ UNCHANGED <<nvsRec, nvsFormat, nvsFloor, ram, uptime, get, delivered, behind>>

\* The range check, outside the mutex.  It reads next_seq more than once; the
\* counter only grows, so the last read decides.
GetCheck(r, seq) ==
  /\ pc \in {"idle"} \cup AppendPcs
  /\ get[r] = -1
  /\ seq < meta.next_seq
  /\ seq >= store_oldest_seq
  /\ get' = [get EXCEPT ![r] = seq]
  /\ UNCHANGED <<flash, ram, uptime, pc, cur, delivered, behind>>

\* Mutant: what was read is not compared with what was asked for.
Found_Unchecked(seq) == ready /\ nvsRec[SlotOf(seq)] # NoRec

\* The slot is readable and holds the number asked for, not a newer one.
Found(seq) ==
  /\ ready
  /\ nvsRec[SlotOf(seq)] # NoRec
  /\ nvsRec[SlotOf(seq)].seq = seq

\* The read under the mutex, the comparison and the return; a miss, and a read
\* that fails, is -ENOENT.
GetRead(r) ==
  /\ get[r] # -1
  /\ LockFree
  /\ get' = [get EXCEPT ![r] = -1]
  /\ \/ /\ Found(get[r])
        /\ delivered' = delivered \cup
             {[asked |-> get[r], rec |-> nvsRec[SlotOf(get[r])]]}
     \/ /\ ~Found(get[r]) \/ "recordRead" \in Faults
        /\ UNCHANGED delivered
  /\ UNCHANGED <<flash, ram, uptime, pc, cur, behind>>

-----------------------------------------------------------------------------
(* The environment.                                                        *)

Tick ==
  /\ pc # "off"
  /\ store_now < MaxTime
  /\ uptime' = uptime + 1
  /\ UNCHANGED <<flash, ram, pc, cur, get, delivered, behind>>

\* Everything in RAM is gone; in the middle of nvs_clear, part of the flash too.
PowerLoss ==
  /\ pc # "off"
  /\ (IF pc \in InitPcs THEN "powerLossInInit" ELSE "powerLoss") \in Faults
  /\ \/ UNCHANGED flash
     \/ pc = "clear" /\ PartlyErased
  /\ ready' = FALSE
  /\ meta' = ZeroMeta
  /\ boot_offset' = 0
  /\ floor_seq' = 0
  /\ uptime' = 0
  /\ initErr' = FALSE
  /\ pc' = "off"
  /\ cur' = NoRec
  /\ get' = [r \in Readers |-> -1]
  /\ UNCHANGED <<delivered, behind>>

Next ==
  \/ Boot \/ BootMountFails
  \/ ClearAndMount \/ ClearFails
  \/ WriteFormat \/ WriteFloor \/ WriteMeta \/ InitWriteFails
  \/ \E v \in Values : AppendBegin(v)
  \/ AppendSlot \/ AppendSlotFails \/ AppendBump \/ AppendCommit
  \/ \E r \in Readers, seq \in 0 .. MaxSeq : GetCheck(r, seq)
  \/ \E r \in Readers : GetRead(r)
  \/ Tick
  \/ PowerLoss

Spec == Init /\ [][Next]_vars

-----------------------------------------------------------------------------
(* What is claimed of the store.                                           *)

\* The counter a boot would come back with; while a migration has it in RAM
\* only, the RAM copy.
UsedSeq == IF pc \in InitPcs THEN meta.next_seq ELSE MetaRead.next_seq

\* store.h:4-6.  Two answers for one sequence number, across any number of
\* boots, are the same record: the server that keeps the first of the two
\* drops nothing new.
OneRecordPerSeq == \A a, b \in delivered : a.asked = b.asked => a = b

\* A number is answered only once flash has moved past it, so that no power
\* loss can hand it to another record (the mutex of store_append against the
\* lock-free range check of store_get).
AnsweredIsDurable == \A a \in delivered : a.asked < UsedSeq

\* The app back-computes wall clock time from ts (main.c:12-15): over all
\* boots, a later sequence number never carries an earlier ts.
TsFollowsSeq ==
  \A a, b \in delivered : a.asked < b.asked => a.rec.ts <= b.rec.ts

\* What readers see of the store between two boots is a ring: what
\* store_oldest_seq claims is there, but for the oldest record when an append
\* over its slot is under way or was cut short, and an append moves the range by
\* one record.
Serving == pc \in {"idle"} \cup AppendPcs /\ ready

ReadersRing == INSTANCE Ring WITH
  up <- Serving,
  oldest <- store_oldest_seq,
  next_seq <- meta.next_seq,
  held <- {seq \in store_oldest_seq .. meta.next_seq - 1 : Found(seq)}
RingSpec == ReadersRing!RingSpec

\* The promise of the record store to the app and the server.
Ledger == INSTANCE SeqLedger WITH used <- UsedSeq
LedgerSpec == Ledger!LedgerSpec

\* With anything failing, reads of NVS included: a number names a second record
\* only after a boot has taken up a counter that was not past every number
\* answered.  The counter is all that keeps numbers apart, and while it is ahead
\* no recycled slot, left-over record, refused write, half-done migration or late
\* reader can make one number name two.
ReuseNeedsLostCounter == behind \/ OneRecordPerSeq

\* A get that succeeds returns the record of the number asked for.
AnswerMatchesRequest == \A a \in delivered : a.rec.seq = a.asked

\* The strengthening under which OneRecordPerSeq is inductive when META is
\* never lost: a record sits in the slot of its own number, what flash holds
\* for an answered number is the answer given, the RAM counter is flash's but
\* for the append under way, and readers hold numbers of this boot only.
InSync ==
  /\ pc = "off" => ~ready
  /\ pc \in {"idle", "slot", "bump"} /\ ready => meta.next_seq = MetaRead.next_seq
  /\ pc = "clear" => meta = MetaRead
  /\ pc = "commit" => meta.next_seq = MetaRead.next_seq + 1
  /\ pc \in {"slot", "bump"} => cur.seq = meta.next_seq
  /\ pc \in {"bump", "commit"} => ready

SlotsAgree ==
  \A i \in Slots : nvsRec[i] # NoRec =>
    /\ SlotOf(nvsRec[i].seq) = i
    /\ \A a \in delivered : a.asked = nvsRec[i].seq => a.rec = nvsRec[i]

GetsInRange ==
  \A r \in Readers :
    /\ get[r] # -1 => get[r] < meta.next_seq
    /\ pc \in {"off"} \cup InitPcs => get[r] = -1

StoreInv ==
  /\ InSync
  /\ SlotsAgree
  /\ GetsInRange
  /\ AnswerMatchesRequest
  /\ AnsweredIsDurable
  /\ OneRecordPerSeq

=============================================================================
