------------------------------ MODULE TlvDecode ------------------------------
(***************************************************************************)
(* The decoder of src/tlv.c as src/radar.c's on_frame uses it: tlv_find     *)
(* walks the TLVs of a frame for the tracker's target list, then for the    *)
(* presence zones; tlv_targets or tlv_presence makes a headcount of what it *)
(* found; a second walk, for a print, goes over the TLVs once more.         *)
(*                                                                         *)
(* A frame is whatever the reassembler took for one: its length is its      *)
(* header's, and nothing else about it is known.  A byte and a 32-bit word  *)
(* are one cell each, of Word values, so offsets wrap at Word; a TLV's      *)
(* header is a cell for its type and one for its length.  The folding of    *)
(* the headcount into the accumulators is on_frame of module Occupancy.     *)
(***************************************************************************)
EXTENDS TlvFormat

CONSTANTS
  Word,                                 \* 2^32, where offsets wrap
  TLV_TARGET_LIST, TLV_ENHANCED_PRESENCE,
  TARGET_3D_SIZE, TARGET_2D_SIZE,       \* of one target, by the tracker's build
  RADAR_MAX_TARGETS, MaxZones,          \* what tgt[] and zones[] hold
  MaxTlvs                               \* bound: the header's number of TLVs

TLV_ITEM == 2   \* a TLV's own header

ASSUME WordAssumption ==
  Word \in Nat /\ 2 * TLV_MAX_FRAME + TLV_ITEM < Word
ASSUME TypesAssumption == TLV_TARGET_LIST # TLV_ENHANCED_PRESENCE
ASSUME TargetSizesAssumption ==
  TARGET_3D_SIZE \in Nat \ {0} /\ TARGET_2D_SIZE \in Nat \ {0}
ASSUME RoomAssumption ==
  RADAR_MAX_TARGETS \in Nat \ {0} /\ MaxZones \in Nat \ {0} /\ MaxTlvs \in Nat

VARIABLES
  dpc,       \* where on_frame is, "idle" outside of it
  frame,     \* its argument
  off,       \* offset of the TLV the walk looks at
  hit,       \* the payload tlv_find returned
  tracker,   \* a target list was found
  n,         \* people counted in this frame
  left       \* TLVs the second walk may still look at

decodeVars == <<dpc, frame, off, hit, tracker, n, left>>

Byte == 0 .. Word - 1
Hit == [at : Nat, len : Byte]
NoHit == [at |-> 0, len |-> 0]

DecodeTypeOK ==
  /\ dpc \in {"idle", "list", "targets", "presence", "zones", "report", "done"}
  /\ frame \in Seq(Nat)
  /\ off \in Byte
  /\ hit \in Hit
  /\ tracker \in BOOLEAN
  /\ n \in 0 .. RADAR_MAX_TARGETS
  /\ left \in 0 .. MaxTlvs

total == Len(frame)
At(o) == frame[o + 1]

AtMost(k, max) == IF k > max THEN max ELSE k

-----------------------------------------------------------------------------
DecodeInit ==
  /\ dpc = "idle" /\ frame = <<>> /\ off = 0 /\ hit = NoHit
  /\ tracker = FALSE /\ n = 0 /\ left = 0

\* The header's number of TLVs is one more thing nobody has checked.
on_frame(f, num_tlvs) ==
  /\ dpc = "idle"
  /\ frame' = f /\ left' = num_tlvs
  /\ dpc' = "list" /\ off' = TLV_HDR_LEN
  /\ UNCHANGED <<hit, tracker, n>>

\* Another TLV's header fits in before the end.
MoreTlvs == (off + TLV_ITEM) % Word <= total

\* Mutant: a length is only compared with the end it comes to.
Truncated_SumOnly(ln) == (off + TLV_ITEM + ln) % Word > total

\* A truncated TLV or a lying length.
Truncated(ln) == ln > total \/ (off + TLV_ITEM + ln) % Word > total

\* Mutant: the walk steps over the payload and forgets the header.
Onward_NoHeader(ln) == (off + ln) % Word

Onward(ln) == (off + TLV_ITEM + ln) % Word

\* Mutant: a target list that the tracker left empty is passed over.
Matches_NotEmpty(type) == At(off) = type /\ At(off + 1) # 0

Matches(type) == At(off) = type

FindAt(type, pc, found, missed) ==
  LET ln == At(off + 1) IN
  /\ dpc = pc
  /\ UNCHANGED <<frame, tracker, n, left>>
  /\ \/ /\ MoreTlvs /\ ~Truncated(ln) /\ ~Matches(type)
        /\ off' = Onward(ln)
        /\ UNCHANGED <<dpc, hit>>
     \/ /\ MoreTlvs /\ ~Truncated(ln) /\ Matches(type)
        /\ hit' = [at |-> off + TLV_ITEM, len |-> ln]
        /\ dpc' = found
        /\ UNCHANGED off
     \/ /\ MoreTlvs => Truncated(ln)
        /\ dpc' = missed /\ off' = TLV_HDR_LEN
        /\ UNCHANGED hit

\* Without a target list, presence zones are looked for from the start.
tlv_find ==
  \/ FindAt(TLV_TARGET_LIST, "list", "targets", "presence")
  \/ FindAt(TLV_ENHANCED_PRESENCE, "presence", "zones", "report")

\* The struct the payload's length divides by; 0 if there is none.
TargetSize(len) ==
  IF len % TARGET_3D_SIZE = 0 THEN TARGET_3D_SIZE
  ELSE IF len % TARGET_2D_SIZE = 0 THEN TARGET_2D_SIZE ELSE 0

\* Mutant: the loop stops short of a target that ends with the payload.
Targets_EndExcluded(len) ==
  IF len = 0 \/ TargetSize(len) = 0 THEN 0
  ELSE AtMost((len - 1) \div TargetSize(len), RADAR_MAX_TARGETS)

\* tlv_targets: how many it writes.
Targets(len) ==
  IF len = 0 \/ TargetSize(len) = 0 THEN 0
  ELSE AtMost(len \div TargetSize(len), RADAR_MAX_TARGETS)

\* tlv_presence: how many zones it writes, and the state of one of them; four
\* to a byte, and none set where the payload ends early.
Zones == IF hit.len < 2 THEN 0 ELSE AtMost(At(hit.at), MaxZones)
ZoneByte(z) == 1 + z \div 4
ZoneState(z) ==
  IF ZoneByte(z) < hit.len THEN (At(hit.at + ZoneByte(z)) \div 4 ^ (z % 4)) % 4 ELSE 0

Count(isTracker, people) ==
  /\ tracker' = isTracker /\ n' = people
  /\ dpc' = "report" /\ off' = TLV_HDR_LEN
  /\ UNCHANGED <<frame, hit, left>>

tlv_targets == dpc = "targets" /\ Count(TRUE, Targets(hit.len))

tlv_presence ==
  /\ dpc = "zones"
  /\ Count(FALSE, IF \E z \in 0 .. Zones - 1 : ZoneState(z) # 0 THEN 1 ELSE 0)

\* What memory outside of the frame holds is anything.
LengthRead == IF off + 1 < total THEN {At(off + 1)} ELSE Byte

ReportMore == left > 0 /\ MoreTlvs

\* The second walk takes a TLV's length as it is.
Report ==
  /\ dpc = "report"
  /\ UNCHANGED <<frame, hit, tracker, n>>
  /\ \/ /\ ReportMore
        /\ \E ln \in LengthRead : off' = Onward(ln)
        /\ left' = left - 1
        /\ UNCHANGED dpc
     \/ /\ ~ReportMore
        /\ dpc' = "done"
        /\ UNCHANGED <<off, left>>

\* on_frame's locals are gone.
Return ==
  /\ dpc = "done"
  /\ dpc' = "idle" /\ frame' = <<>> /\ off' = 0 /\ hit' = NoHit
  /\ tracker' = FALSE /\ n' = 0 /\ left' = 0

DecodeStep == tlv_find \/ tlv_targets \/ tlv_presence \/ Report

-----------------------------------------------------------------------------
(* What is claimed of the decoder.                                         *)

\* The cells of the frame the next step reads.
ReadsNow ==
  CASE dpc \in {"list", "presence"} -> IF MoreTlvs THEN off .. off + TLV_ITEM - 1 ELSE {}
    [] dpc = "targets" ->
         hit.at .. hit.at + Targets(hit.len) * TargetSize(hit.len) - 1
    [] dpc = "zones" ->
         {hit.at + i : i \in {j \in {0} \cup {ZoneByte(z) : z \in 0 .. MaxZones - 1} : j < hit.len}}
    [] OTHER -> {}

\* tlv.h:74-75, "stops cleanly on a truncated or lying length".  Whatever lengths
\* a frame claims, up to the wrap-around of their sum, tlv_find and what works on
\* its result read within the frame.
WalkStaysInside == ReadsNow \subseteq 0 .. total - 1

\* A TLV that is passed over takes the walk further, and not past the end of the
\* frame nor around through 0, so tlv_find returns.
WalkAdvances ==
  dpc \in {"list", "presence"} /\ MoreTlvs /\ ~Truncated(At(off + 1)) =>
    Onward(At(off + 1)) \in off + 1 .. total

\* The TLVs of the frame, by what a TLV is and without wrap-around.
Tlvs ==
  LET from[o \in 0 .. total] ==
        IF o + TLV_ITEM > total \/ o + TLV_ITEM + At(o + 1) > total THEN <<>>
        ELSE <<[type |-> At(o), at |-> o + TLV_ITEM, len |-> At(o + 1)]>>
             \o from[o + TLV_ITEM + At(o + 1)]
  IN  from[TLV_HDR_LEN]

OfType(type) == {i \in DOMAIN Tlvs : Tlvs[i].type = type}
First(type) == Tlvs[CHOOSE i \in OfType(type) : \A j \in OfType(type) : i <= j]

\* A zone that a presence TLV's payload carries, that its first byte counts in,
\* and that is not empty.
SomeoneIn(p) ==
  \E z \in 0 .. MaxZones - 1 :
    /\ ZoneByte(z) < p.len
    /\ z < At(p.at)
    /\ (At(p.at + ZoneByte(z)) \div 4 ^ (z % 4)) % 4 # 0

\* radar.h:16-17 and radar.c:434-435.  If the frame has a target list, empty or
\* not, the headcount is the number of targets its first one is made of, whole
\* and of one struct, as far as tgt[] holds them; without one it is 1 or 0, and 1
\* exactly if the first presence TLV has a zone that is not empty.
HeadcountIsHonest ==
  dpc = "report" =>
    /\ tracker <=> OfType(TLV_TARGET_LIST) # {}
    /\ tracker =>
         LET len == First(TLV_TARGET_LIST).len IN
           /\ TargetSize(len) = 0 => n = 0
           /\ TargetSize(len) # 0 =>
                \/ n <= RADAR_MAX_TARGETS /\ n * TargetSize(len) = len
                \/ n = RADAR_MAX_TARGETS /\ n * TargetSize(len) < len
    /\ ~tracker =>
         /\ n \in {0, 1}
         /\ n = 1 <=> /\ OfType(TLV_ENHANCED_PRESENCE) # {}
                      /\ SomeoneIn(First(TLV_ENHANCED_PRESENCE))
=============================================================================
