------------------------------ MODULE TlvFormat ------------------------------
(***************************************************************************)
(* What src/tlv.h says of a frame: a magic word, a header with the length   *)
(* of the whole, then TLVs.  The reassembler and the decoder both rest on   *)
(* it.  A byte is a number; the header's other fields and its four-byte     *)
(* length are abstracted to one byte at position LEN_AT.                    *)
(***************************************************************************)
EXTENDS Integers, Sequences

CONSTANTS
  tlv_magic,       \* the magic word, a sequence of distinct bytes
  TLV_HDR_LEN, TLV_MAX_FRAME,
  LEN_AT           \* where in the header the length is, counting from 1

TLV_MAGIC_LEN == Len(tlv_magic)

ASSUME MagicAssumption ==
  /\ tlv_magic \in Seq(Nat) /\ tlv_magic # <<>>
  /\ \A i, j \in 1 .. TLV_MAGIC_LEN : tlv_magic[i] = tlv_magic[j] => i = j
ASSUME SizesAssumption ==
  /\ TLV_HDR_LEN \in Nat /\ TLV_MAX_FRAME \in Nat /\ LEN_AT \in Nat
  /\ TLV_MAGIC_LEN < LEN_AT /\ LEN_AT <= TLV_HDR_LEN /\ TLV_HDR_LEN <= TLV_MAX_FRAME

\* What on_frame may rely on: a frame as long as its own header says.
Framed(frame) ==
  /\ Len(frame) = frame[LEN_AT]
  /\ Len(frame) \in TLV_HDR_LEN .. TLV_MAX_FRAME
  /\ \A j \in 1 .. TLV_MAGIC_LEN : frame[j] = tlv_magic[j]
=============================================================================
