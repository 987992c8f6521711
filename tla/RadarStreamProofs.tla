-------------------------- MODULE RadarStreamProofs --------------------------
(* Theorems about the radar thread's bytes, for every magic word of distinct *)
(* bytes, every frame size and every stream of bytes with any number lost:   *)
(* what the reassembler takes for a frame, what the decoder reads of it, and *)
(* what cli_wait makes of an answer.                                         *)
EXTENDS RadarStream, SequenceTheorems, WellFoundedInduction, TLAPS

-----------------------------------------------------------------------------
(* The reassembler.                                                        *)

\* The types of what tlv_push touches.
BytesOK ==
  /\ buf \in Seq(Nat)
  /\ want \in Nat
  /\ match \in 0 .. TLV_MAGIC_LEN - 1
  /\ complete \in BOOLEAN
  /\ wire \in Seq(Nat)

\* What tlv_reasm knows of the bytes it has collected.
Framing ==
  /\ buf # <<>> => /\ Len(buf) >= TLV_MAGIC_LEN
                   /\ \A j \in 1 .. TLV_MAGIC_LEN : buf[j] = tlv_magic[j]
  /\ want # 0 => want = buf[LEN_AT] /\ Len(buf) >= TLV_HDR_LEN
  /\ complete => /\ want = 0
                 /\ Len(buf) = buf[LEN_AT]
                 /\ Len(buf) \in TLV_HDR_LEN .. TLV_MAX_FRAME

ReasmInv == BytesOK /\ BufferFits /\ Framing

\* A frame the radar sends is a sequence of bytes.
LEMMA FrameIsBytes ==
  ASSUME NEW payload \in Seq(Nat)
  PROVE  FrameOf(payload) \in Seq(Nat)
<1> DEFINE size == TLV_HDR_LEN + Len(payload)
<1>1. size \in Nat
  BY SizesAssumption
<1>2. FrameOf(payload) \in [1 .. size -> Nat]
  <2> SUFFICES ASSUME NEW i \in 1 .. size
               PROVE  FrameOf(payload)[i] \in Nat
    BY DEF FrameOf
  <2>1. CASE i <= TLV_MAGIC_LEN
    BY <2>1, MagicAssumption DEF FrameOf, TLV_MAGIC_LEN
  <2>2. CASE i > TLV_MAGIC_LEN
    BY <2>2, <1>1, SizesAssumption, MagicAssumption DEF FrameOf, TLV_MAGIC_LEN
  <2> QED BY <2>1, <2>2, MagicAssumption DEF TLV_MAGIC_LEN
<1> QED BY <1>1, <1>2

LEMMA MagicLength == TLV_MAGIC_LEN \in Nat \ {0}
  BY MagicAssumption DEF TLV_MAGIC_LEN

LEMMA EmptyIsBytes == <<>> \in Seq(Nat) /\ Len(<<>>) = 0
  OBVIOUS

LEMMA ReasmInit == Init => ReasmInv
<1> SUFFICES ASSUME Init PROVE ReasmInv
  OBVIOUS
<1>1. /\ buf = <<>> /\ want = 0 /\ match = 0 /\ complete = FALSE /\ wire = <<>>
      /\ Len(buf) = 0
  BY DEF Init
<1>2. BytesOK
  <2>1. buf \in Seq(Nat) /\ wire \in Seq(Nat)
    BY <1>1, EmptyIsBytes
  <2>2. want \in Nat /\ match \in 0 .. TLV_MAGIC_LEN - 1
    BY <1>1, MagicLength
  <2>3. complete \in BOOLEAN
    BY <1>1
  <2> QED BY <2>1, <2>2, <2>3 DEF BytesOK
<1>3. BufferFits
  BY <1>1, SizesAssumption, MagicLength DEF BufferFits, Collected
<1>4. Framing
  BY <1>1 DEF Framing
<1> QED BY <1>2, <1>3, <1>4 DEF ReasmInv

\* What tlv_reset leaves is a good state.
LEMMA CleanState ==
  ASSUME buf' = <<>>, want' = 0, match' = 0, complete' = FALSE, wire' \in Seq(Nat)
  PROVE  ReasmInv'
<1>1. BytesOK'
  <2>1. buf' \in Seq(Nat) /\ wire' \in Seq(Nat)
    BY EmptyIsBytes
  <2>2. want' \in Nat /\ match' \in 0 .. TLV_MAGIC_LEN - 1
    BY MagicLength
  <2>3. complete' \in BOOLEAN
    OBVIOUS
  <2> QED BY <2>1, <2>2, <2>3 DEF BytesOK, TLV_MAGIC_LEN
<1>2. BufferFits'
  <2>1. Len(buf') = 0
    BY EmptyIsBytes
  <2> QED BY <2>1, SizesAssumption, MagicLength DEF BufferFits, Collected
<1>3. Framing'
  BY DEF Framing
<1> QED BY <1>1, <1>2, <1>3 DEF ReasmInv

\* What a byte appended leaves, in the three outcomes of it.
LEMMA GrownState ==
  ASSUME NEW b \in Seq(Nat), NEW w \in Nat, NEW m \in 0 .. TLV_MAGIC_LEN - 1,
         NEW c \in BOOLEAN, wire' \in Seq(Nat),
         Len(b) >= TLV_MAGIC_LEN, \A j \in 1 .. TLV_MAGIC_LEN : b[j] = tlv_magic[j],
         Len(b) <= TLV_MAX_FRAME,
         w # 0 => w = b[LEN_AT] /\ Len(b) >= TLV_HDR_LEN /\ Len(b) < w /\ w <= TLV_MAX_FRAME,
         ~c /\ w = 0 => Len(b) < TLV_HDR_LEN,
         c => w = 0 /\ Len(b) = b[LEN_AT] /\ Len(b) >= TLV_HDR_LEN,
         buf' = b, want' = w, match' = m, complete' = c
  PROVE  ReasmInv'
<1>1. BytesOK'
  BY DEF BytesOK, TLV_MAGIC_LEN
<1>2. BufferFits'
  BY DEF BufferFits, Collected
<1>3. Framing'
  <2>1. Len(b) \in Nat
    OBVIOUS
  <2> QED BY <2>1, SizesAssumption DEF Framing, TLV_MAGIC_LEN
<1> QED BY <1>1, <1>2, <1>3 DEF ReasmInv

\* The magic word is complete: its bytes are put into the buffer.
LEMMA HuntStep ==
  ASSUME ReasmInv, ~complete, buf = <<>>, NEW byte \in Nat, Hunt(byte), wire' \in Seq(Nat)
  PROVE  ReasmInv'
<1> USE SizesAssumption, MagicAssumption DEF ReasmInv, BytesOK, TLV_MAGIC_LEN, Collected
<1>1. want = 0
  BY DEF Framing
<1>2. CASE UNCHANGED <<buf, want, complete>>
  <2>1. match' \in 0 .. TLV_MAGIC_LEN - 1
    BY <1>2 DEF Hunt, Rematch
  <2> QED BY <1>1, <1>2, <2>1 DEF BufferFits, Framing
<1>3. CASE buf' = tlv_magic /\ want' = 0 /\ match' = 0 /\ UNCHANGED complete
  BY <1>3 DEF BufferFits, Framing
<1> QED BY <1>2, <1>3 DEF Hunt

\* One more byte of a frame, its length perhaps among the bytes now there.
LEMMA CollectStep ==
  ASSUME ReasmInv, ~complete, buf # <<>>, NEW byte \in Nat, Collect(byte), wire' \in Seq(Nat)
  PROVE  ReasmInv'
<1> DEFINE b     == Append(buf, byte)
           size == IF want = 0 /\ Len(b) >= TLV_HDR_LEN THEN b[LEN_AT] ELSE want
<1>1. /\ b \in Seq(Nat) /\ Len(b) = Len(buf) + 1 /\ Len(buf) \in Nat
      /\ \A j \in 1 .. Len(buf) : b[j] = buf[j]
      /\ \A j \in 1 .. Len(b) : b[j] \in Nat
  <2>1. buf \in Seq(Nat)  BY DEF ReasmInv, BytesOK
  <2>2. /\ b \in Seq(Nat) /\ Len(b) = Len(buf) + 1
        /\ \A j \in 1 .. Len(buf) : b[j] = buf[j]
    BY <2>1, AppendProperties
  <2>3. \A j \in 1 .. Len(b) : b[j] \in Nat  BY <2>2
  <2> QED  BY <2>1, <2>2, <2>3
<1>2. Len(b) >= TLV_MAGIC_LEN /\ b # <<>> /\ \A j \in 1 .. TLV_MAGIC_LEN : b[j] = tlv_magic[j]
  <2>1. Len(buf) >= TLV_MAGIC_LEN /\ \A j \in 1 .. TLV_MAGIC_LEN : buf[j] = tlv_magic[j]
    BY DEF ReasmInv, Framing
  <2> QED BY <1>1, <2>1, MagicLength, SMTT(30)
<1>3. /\ want \in Nat /\ match \in 0 .. TLV_MAGIC_LEN - 1 /\ complete = FALSE
      /\ want # 0 => /\ Len(buf) < want /\ want <= TLV_MAX_FRAME
                     /\ want = buf[LEN_AT] /\ Len(buf) >= TLV_HDR_LEN
      /\ want = 0 => Len(buf) < TLV_HDR_LEN
  BY DEF ReasmInv, BytesOK, BufferFits, Framing, Collected
<1>4. /\ TLV_HDR_LEN \in Nat /\ TLV_MAX_FRAME \in Nat /\ LEN_AT \in 1 .. TLV_HDR_LEN
      /\ TLV_HDR_LEN <= TLV_MAX_FRAME /\ TLV_MAGIC_LEN \in Nat \ {0}
  BY SizesAssumption, MagicLength
<1>5. /\ want = 0 /\ Len(b) < TLV_HDR_LEN => buf' = b /\ UNCHANGED <<want, match, complete>>
      /\ want = 0 /\ ~(Len(b) < TLV_HDR_LEN) /\ Bogus(size) => tlv_reset /\ UNCHANGED complete
      /\ ~(want = 0 /\ Len(b) < TLV_HDR_LEN) /\ ~(want = 0 /\ Bogus(size)) =>
           IF FrameIsIn(Len(b), size)
             THEN buf' = b /\ want' = 0 /\ complete' = TRUE /\ UNCHANGED match
             ELSE buf' = b /\ want' = size /\ UNCHANGED <<match, complete>>
  BY DEF Collect
<1>6. size = IF want = 0 /\ Len(b) >= TLV_HDR_LEN THEN b[LEN_AT] ELSE want
  OBVIOUS
<1> HIDE DEF b, size
<1>7. CASE want = 0 /\ Len(b) < TLV_HDR_LEN
  <2>1. buf' = b /\ want' = 0 /\ match' = match /\ complete' = FALSE
    BY <1>3, <1>5, <1>7
  <2>2. Len(b) <= TLV_MAX_FRAME
    BY <1>1, <1>4, <1>7
  <2> QED BY <1>1, <1>2, <1>3, <1>7, <2>1, <2>2, GrownState
<1>8. CASE want = 0 /\ ~(Len(b) < TLV_HDR_LEN) /\ Bogus(size)
  <2>1. buf' = <<>> /\ want' = 0 /\ match' = 0 /\ complete' = FALSE
    BY <1>3, <1>5, <1>8 DEF tlv_reset
  <2> QED BY <2>1, CleanState
<1>9. CASE ~(want = 0 /\ Len(b) < TLV_HDR_LEN) /\ ~(want = 0 /\ Bogus(size))
  <2>1. size = b[LEN_AT] /\ size \in TLV_HDR_LEN .. TLV_MAX_FRAME /\ Len(b) <= size
        /\ Len(b) >= TLV_HDR_LEN
    <3>1. CASE want = 0
      <4>1. ~(Len(b) < TLV_HDR_LEN) /\ ~Bogus(size)
        BY <1>9, <3>1
      <4>2. Len(b) \in Nat /\ Len(b) <= TLV_HDR_LEN /\ Len(b) >= TLV_HDR_LEN
        BY <1>1, <1>3, <1>4, <3>1, <4>1
      <4>3. size = b[LEN_AT] /\ size \in Nat
        BY <1>1, <1>4, <1>6, <3>1, <4>2
      <4>4. size \in TLV_HDR_LEN .. TLV_MAX_FRAME
        BY <1>4, <4>1, <4>3 DEF Bogus
      <4> QED BY <1>4, <4>2, <4>3, <4>4
    <3>2. CASE want # 0
      <4>1. size = want /\ want = buf[LEN_AT] /\ Len(buf) < want /\ want <= TLV_MAX_FRAME
            /\ Len(buf) >= TLV_HDR_LEN
        BY <1>3, <1>6, <3>2
      <4>2. b[LEN_AT] = buf[LEN_AT]
        BY <1>1, <1>4, <4>1
      <4> QED BY <1>1, <1>3, <1>4, <4>1, <4>2, SMTT(30)
    <3> QED BY <3>1, <3>2
  <2>2. CASE FrameIsIn(Len(b), size)
    <3>1. buf' = b /\ want' = 0 /\ match' = match /\ complete' = TRUE
      BY <1>5, <1>9, <2>2
    <3>2. Len(b) = size
      BY <1>1, <2>1, <2>2 DEF FrameIsIn
    <3>3. Len(b) <= TLV_MAX_FRAME /\ Len(b) = b[LEN_AT]
      BY <1>1, <1>4, <2>1, <3>2
    <3> QED BY <1>1, <1>2, <1>3, <2>1, <3>1, <3>3, GrownState
  <2>3. CASE ~FrameIsIn(Len(b), size)
    <3>1. buf' = b /\ want' = size /\ match' = match /\ complete' = FALSE
      BY <1>3, <1>5, <1>9, <2>3
    <3>2. Len(b) < size
      BY <1>1, <2>1, <2>3 DEF FrameIsIn
    <3>3. /\ size \in Nat /\ size # 0 /\ size <= TLV_MAX_FRAME /\ Len(b) <= TLV_MAX_FRAME
          /\ size = b[LEN_AT]
      BY <1>1, <1>4, <2>1, <3>2
    <3> QED BY <1>1, <1>2, <1>3, <2>1, <3>1, <3>2, <3>3, GrownState
  <2> QED BY <2>2, <2>3
<1> QED BY <1>7, <1>8, <1>9

LEMMA ReasmStep == ReasmInv /\ [Next]_vars => ReasmInv'
<1> SUFFICES ASSUME ReasmInv, [Next]_vars PROVE ReasmInv'
  OBVIOUS
<1>1. ASSUME NEW payload \in Payloads, SendFrame(payload) PROVE ReasmInv'
  <2>1. wire' \in Seq(Nat)
    BY <1>1, FrameIsBytes, PayloadsAssumption DEF SendFrame
  <2> QED BY <1>1, <2>1 DEF SendFrame, reasm, ReasmInv, BytesOK, BufferFits, Framing, Collected
<1>2. CASE LoseByte
  <2>1. wire' \in Seq(Nat)
    BY <1>2 DEF LoseByte, ReasmInv, BytesOK
  <2> QED BY <1>2, <2>1 DEF LoseByte, reasm, ReasmInv, BytesOK, BufferFits, Framing, Collected
<1>3. CASE tlv_push
  <2>1. Head(wire) \in Nat /\ wire' \in Seq(Nat) /\ ~complete
    BY <1>3 DEF tlv_push, ReasmInv, BytesOK
  <2>2. CASE buf = <<>>
    BY <1>3, <2>1, <2>2, HuntStep DEF tlv_push
  <2>3. CASE buf # <<>>
    BY <1>3, <2>1, <2>3, CollectStep DEF tlv_push
  <2> QED BY <2>2, <2>3
<1>4. CASE TakeFrame \/ Restart
  <2>1. buf' = <<>> /\ want' = 0 /\ match' = 0 /\ complete' = FALSE
    BY <1>4 DEF TakeFrame, Restart, tlv_reset, ReasmInv, BytesOK
  <2>2. wire' \in Seq(Nat)
    BY <1>4, EmptyIsBytes DEF TakeFrame, Restart, ReasmInv, BytesOK
  <2> QED BY <2>1, <2>2, CleanState
<1>5. CASE UNCHANGED vars
  BY <1>5 DEF vars, reasm, ReasmInv, BytesOK, BufferFits, Framing, Collected
<1> QED BY <1>1, <1>2, <1>3, <1>4, <1>5 DEF Next

\* What is handed to on_frame is a frame.
LEMMA CompleteIsFramed == ReasmInv /\ complete => Framed(buf)
<1> SUFFICES ASSUME ReasmInv, complete PROVE Framed(buf)
  OBVIOUS
<1>1. /\ Len(buf) = buf[LEN_AT]
      /\ Len(buf) \in TLV_HDR_LEN .. TLV_MAX_FRAME
      /\ buf # <<>>
  BY SizesAssumption, MagicLength DEF ReasmInv, Framing
<1> QED BY <1>1 DEF ReasmInv, Framing, Framed

\* tlv_push never writes past r->buf (tlv.c:53), whatever the radar sends and
\* the ring loses, provided the caller resets after each frame as radar_thread
\* does.
THEOREM ReasmBufferFits == Spec => []BufferFits
<1>1. ReasmInv => BufferFits
  BY DEF ReasmInv
<1> QED BY <1>1, ReasmInit, ReasmStep, PTL DEF Spec

\* Every frame on_frame is given begins with the magic word and is as long as
\* its own header says (tlv.c:59-60, 66-72), so the bound tlv_find works with
\* is the bound of the data.
THEOREM ReasmFramesAreFramed == Spec => []FramesAreFramed
<1> DEFINE GotOK == got \in Seq(Seq(Nat))
<1>1. Init => GotOK /\ FramesAreFramed
  BY DEF Init, FramesAreFramed
<1>2. ReasmInv /\ GotOK /\ FramesAreFramed /\ [Next]_vars => GotOK' /\ FramesAreFramed'
  <2> SUFFICES ASSUME ReasmInv, GotOK, FramesAreFramed, [Next]_vars
               PROVE  GotOK' /\ FramesAreFramed'
    OBVIOUS
  <2>1. CASE TakeFrame
    <3>1. Framed(buf) /\ buf \in Seq(Nat)
      <4>1. complete /\ ReasmInv
        BY <2>1 DEF TakeFrame
      <4> QED BY <4>1, CompleteIsFramed DEF ReasmInv, BytesOK
    <3>2. got' = Append(got, buf)
      BY <2>1 DEF TakeFrame
    <3>3. /\ Len(got') = Len(got) + 1
          /\ got'[Len(got) + 1] = buf
          /\ \A i \in 1 .. Len(got) : got'[i] = got[i]
      BY <3>1, <3>2
    <3>4. GotOK'
      BY <3>1, <3>2
    <3>5. FramesAreFramed'
      <4> SUFFICES ASSUME NEW i \in 1 .. Len(got')
                   PROVE  Framed(got'[i])
        BY DEF FramesAreFramed
      <4>1. CASE i = Len(got) + 1
        BY <3>1, <3>3, <4>1
      <4>2. CASE i # Len(got) + 1
        <5>1. i \in 1 .. Len(got) /\ got'[i] = got[i]
          BY <3>3, <4>2
        <5> QED BY <5>1 DEF FramesAreFramed
      <4> QED BY <4>1, <4>2
    <3> QED BY <3>4, <3>5
  <2>2. CASE ~TakeFrame
    <3>1. got' = got
      BY <2>2 DEF Next, SendFrame, LoseByte, tlv_push, Restart, vars
    <3> QED BY <3>1 DEF FramesAreFramed
  <2> QED BY <2>1, <2>2
<1> QED BY <1>1, <1>2, ReasmInit, ReasmStep, PTL DEF Spec

-----------------------------------------------------------------------------
(* Without a loss.                                                         *)

\* Every frame the radar sends is one that the reassembler can hold (tlv.h:23-25).
FramesFit == \A p \in Payloads : TLV_HDR_LEN + Len(p) <= TLV_MAX_FRAME

Sendable == {FrameOf(p) : p \in Payloads}

\* How much of a frame the reassembler has seen.
Consumed == IF buf = <<>> THEN match ELSE Len(buf)

\* It is in the middle of f.
Reading(f) ==
  /\ ~complete /\ wire # <<>>
  /\ Consumed + Len(wire) = Len(f)
  /\ \A i \in 1 .. Len(wire) : wire[i] = f[Consumed + i]
  /\ \A i \in 1 .. Len(buf) : buf[i] = f[i]

Idle == ~complete /\ wire = <<>> /\ buf = <<>> /\ match = 0

\* Between frames, in one, at its end, or at its end with the next one sent.
InStep ==
  \/ Idle /\ got = sent
  \/ \E f \in Sendable : Reading(f) /\ sent = Append(got, f)
  \/ \E f \in Sendable : complete /\ buf = f /\ wire = <<>> /\ sent = Append(got, f)
  \/ \E f, g \in Sendable : complete /\ buf = f /\ wire = g /\ sent = Append(Append(got, f), g)

LosslessInv ==
  /\ got \in Seq(Seq(Nat)) /\ sent \in Seq(Seq(Nat))
  /\ hurt = {} => InStep

\* What the radar sends.
LEMMA FrameFacts ==
  ASSUME FramesFit, NEW f \in Sendable
  PROVE  /\ f \in Seq(Nat) /\ Len(f) \in TLV_HDR_LEN .. TLV_MAX_FRAME
         /\ f # <<>>
         /\ f[LEN_AT] = Len(f)
         /\ \A j \in 1 .. TLV_MAGIC_LEN : f[j] = tlv_magic[j]
<1>1. PICK p \in Payloads : f = FrameOf(p)  BY DEF Sendable
<1>2. p \in Seq(Nat) /\ Len(p) \in Nat  BY PayloadsAssumption
<1>3. f \in Seq(Nat)  BY <1>1, <1>2, FrameIsBytes
<1> DEFINE size == TLV_HDR_LEN + Len(p)
<1>4. size \in TLV_HDR_LEN .. TLV_MAX_FRAME  BY <1>2, SizesAssumption DEF FramesFit
<1>5. f = [i \in 1 .. size |->
             IF i <= TLV_MAGIC_LEN THEN tlv_magic[i]
             ELSE IF i = LEN_AT THEN size
             ELSE IF i <= TLV_HDR_LEN THEN 0
             ELSE p[i - TLV_HDR_LEN]]
  BY <1>1 DEF FrameOf
<1> HIDE DEF size
<1>6. size \in Nat /\ DOMAIN f = 1 .. size  BY <1>4, <1>5, SizesAssumption
<1>7. Len(f) = size
  <2>1. Len(f) \in Nat /\ DOMAIN f = 1 .. Len(f)  BY <1>3, LenProperties
  <2> QED  BY <1>6, <2>1
<1>8. LEN_AT \in 1 .. size /\ ~(LEN_AT <= TLV_MAGIC_LEN)
  BY <1>4, SizesAssumption, MagicLength
<1>9. \A j \in 1 .. TLV_MAGIC_LEN : j \in 1 .. size /\ j <= TLV_MAGIC_LEN
  BY <1>4, SizesAssumption, MagicLength
<1>10. f # <<>>  BY <1>4, <1>7, SizesAssumption, MagicLength, EmptySeq
<1> QED  BY <1>3, <1>4, <1>5, <1>7, <1>8, <1>9, <1>10

\* A byte of the magic word.
LEMMA HuntInStep ==
  ASSUME ReasmInv, FramesFit, NEW f \in Sendable, Reading(f), buf = <<>>,
         Hunt(Head(wire)), wire' = Tail(wire)
  PROVE  Reading(f)'
<1>0. /\ wire \in Seq(Nat) /\ match \in 0 .. TLV_MAGIC_LEN - 1 /\ Len(<<>>) = 0
      /\ TLV_MAGIC_LEN \in Nat \ {0} /\ tlv_magic \in Seq(Nat)
  BY MagicLength, MagicAssumption, EmptyIsBytes DEF ReasmInv, BytesOK
<1>1. /\ f \in Seq(Nat) /\ Len(f) \in Nat /\ Len(f) > TLV_MAGIC_LEN
      /\ \A j \in 1 .. TLV_MAGIC_LEN : f[j] = tlv_magic[j]
  BY FrameFacts, SizesAssumption, MagicLength
<1>2. /\ wire # <<>> /\ ~complete /\ Consumed = match
      /\ match + Len(wire) = Len(f)
      /\ \A i \in 1 .. Len(wire) : wire[i] = f[match + i]
  BY DEF Reading, Consumed
<1>3. /\ Len(wire) \in Nat /\ Len(wire) >= 1 /\ Head(wire) = wire[1]
      /\ Len(wire') = Len(wire) - 1
      /\ \A i \in 1 .. Len(wire') : wire'[i] = wire[i + 1]
  BY <1>0, <1>2
<1>4. Head(wire) = tlv_magic[match + 1]
  <2>1. wire[1] = f[match + 1]  BY <1>2, <1>3
  <2>2. match + 1 \in 1 .. TLV_MAGIC_LEN  BY <1>0
  <2> QED  BY <1>1, <1>3, <2>1, <2>2
<1>5. /\ complete' = complete
      /\ \/ match + 1 = TLV_MAGIC_LEN /\ buf' = tlv_magic
         \/ match + 1 # TLV_MAGIC_LEN /\ buf' = <<>> /\ match' = match + 1
  BY <1>4 DEF Hunt
<1>6. Consumed' = match + 1 /\ \A i \in 1 .. Len(buf') : buf'[i] = f[i]
  <2>1. CASE match + 1 = TLV_MAGIC_LEN /\ buf' = tlv_magic
    <3>1. Len(buf') = match + 1 /\ buf' # <<>>
      BY <1>0, <2>1, MagicAssumption DEF TLV_MAGIC_LEN
    <3> QED  BY <1>1, <2>1, <3>1 DEF Consumed
  <2>2. CASE match + 1 # TLV_MAGIC_LEN /\ buf' = <<>> /\ match' = match + 1
    BY <1>0, <2>2 DEF Consumed
  <2> QED  BY <1>5, <2>1, <2>2
<1>7. \A i \in 1 .. Len(wire') : wire'[i] = f[match + 1 + i]
  <2>1. \A i \in 1 .. Len(wire') : i + 1 \in 1 .. Len(wire) /\ match + (i + 1) = match + 1 + i
    BY <1>0, <1>3
  <2> QED  BY <1>2, <1>3, <2>1
<1>8. match + 1 + Len(wire') = Len(f) /\ wire' # <<>>
  <2>1. match + 1 + Len(wire') = Len(f)  BY <1>0, <1>2, <1>3
  <2>2. \A x \in Nat : x = match + 1 => x <= TLV_MAGIC_LEN  BY <1>0
  <2>3. \A x, y, z \in Nat : x <= y /\ z > y => z # x + 0  OBVIOUS
  <2>4. match + 1 \in Nat /\ match + 1 <= TLV_MAGIC_LEN  BY <1>0, <2>2
  <2>5. Len(wire') # 0
    <3> SUFFICES ASSUME Len(wire') = 0 PROVE FALSE  OBVIOUS
    <3>1. match + 1 + 0 = Len(f)  BY <2>1
    <3> QED  BY <1>0, <1>1, <2>4, <3>1
  <2> QED  BY <1>0, <2>1, <2>5
<1> QED  BY <1>2, <1>5, <1>6, <1>7, <1>8 DEF Reading

\* A byte of the rest; the last one completes the frame.
LEMMA CollectInStep ==
  ASSUME ReasmInv, FramesFit, NEW f \in Sendable, Reading(f), buf # <<>>,
         Collect(Head(wire)), wire' = Tail(wire)
  PROVE  Reading(f)' \/ (complete' /\ buf' = f /\ wire' = <<>>)
<1>0. /\ wire \in Seq(Nat) /\ buf \in Seq(Nat) /\ Len(buf) \in Nat /\ want \in Nat
      /\ want # 0 => want = buf[LEN_AT] /\ Len(buf) >= TLV_HDR_LEN
      /\ LEN_AT \in 1 .. TLV_HDR_LEN /\ TLV_HDR_LEN \in Nat /\ TLV_MAX_FRAME \in Nat
  BY SizesAssumption, MagicLength DEF ReasmInv, BytesOK, Framing
<1>1. f \in Seq(Nat) /\ Len(f) \in TLV_HDR_LEN .. TLV_MAX_FRAME /\ f[LEN_AT] = Len(f)
  BY FrameFacts
<1>2. /\ wire # <<>> /\ complete = FALSE /\ Consumed = Len(buf)
      /\ Len(buf) + Len(wire) = Len(f)
      /\ \A i \in 1 .. Len(wire) : wire[i] = f[Len(buf) + i]
      /\ \A i \in 1 .. Len(buf) : buf[i] = f[i]
      /\ want # 0 => Len(buf) < want
      /\ want = 0 => Len(buf) < TLV_HDR_LEN
  BY DEF Reading, Consumed, ReasmInv, BytesOK, BufferFits, Collected
<1>3. /\ Len(wire) \in Nat /\ Len(wire) >= 1 /\ Head(wire) = wire[1] /\ Head(wire) \in Nat
      /\ wire' \in Seq(Nat) /\ Len(wire') = Len(wire) - 1
      /\ \A i \in 1 .. Len(wire') : wire'[i] = wire[i + 1]
  BY <1>0, <1>2
<1> DEFINE b    == Append(buf, Head(wire))
           size == IF want = 0 /\ Len(b) >= TLV_HDR_LEN THEN b[LEN_AT] ELSE want
<1>4. /\ b \in Seq(Nat) /\ Len(b) = Len(buf) + 1 /\ b # <<>>
      /\ \A i \in 1 .. Len(buf) : b[i] = buf[i]
      /\ b[Len(buf) + 1] = Head(wire)
  BY <1>0, <1>3, AppendProperties, SMTT(30)
<1>5. /\ want = 0 /\ Len(b) < TLV_HDR_LEN => buf' = b /\ UNCHANGED <<want, match, complete>>
      /\ want = 0 /\ ~(Len(b) < TLV_HDR_LEN) /\ Bogus(size) => tlv_reset /\ UNCHANGED complete
      /\ ~(want = 0 /\ Len(b) < TLV_HDR_LEN) /\ ~(want = 0 /\ Bogus(size)) =>
           IF FrameIsIn(Len(b), size)
             THEN buf' = b /\ want' = 0 /\ complete' = TRUE /\ UNCHANGED match
             ELSE buf' = b /\ want' = size /\ UNCHANGED <<match, complete>>
  BY DEF Collect
<1>6. size = IF want = 0 /\ Len(b) >= TLV_HDR_LEN THEN b[LEN_AT] ELSE want
  OBVIOUS
<1> HIDE DEF b, size
<1>7. \A i \in 1 .. Len(b) : b[i] = f[i]
  <2>1. b[Len(buf) + 1] = f[Len(buf) + 1]  BY <1>2, <1>3, <1>4
  <2>2. \A i \in 1 .. Len(b) : i \in 1 .. Len(buf) \/ i = Len(buf) + 1  BY <1>0, <1>4
  <2> QED  BY <1>2, <1>4, <2>1, <2>2
<1>8. Len(b) <= Len(f)  BY <1>0, <1>2, <1>3, <1>4
<1>9. /\ buf' = b
      /\ Len(b) < Len(f) => complete' = FALSE
      /\ Len(b) = Len(f) => complete' = TRUE
  <2>1. CASE want = 0 /\ Len(b) < TLV_HDR_LEN
    <3>1. Len(b) # Len(f)  BY <1>0, <1>1, <1>4, <2>1
    <3> QED  BY <1>2, <1>5, <2>1, <3>1
  <2>2. CASE ~(want = 0 /\ Len(b) < TLV_HDR_LEN)
    <3>1. size = Len(f)
      <4>1. CASE want = 0
        <5>1. Len(b) >= TLV_HDR_LEN  BY <1>0, <1>4, <2>2, <4>1
        <5>2. LEN_AT \in 1 .. Len(b)  BY <1>0, <1>4, <5>1
        <5> QED  BY <1>1, <1>6, <1>7, <4>1, <5>1, <5>2
      <4>2. CASE want # 0
        <5>1. LEN_AT \in 1 .. Len(buf)  BY <1>0, <4>2
        <5> QED  BY <1>0, <1>1, <1>2, <1>6, <4>2, <5>1
      <4> QED  BY <4>1, <4>2
    <3>2. ~Bogus(size)
      <4>1. ~(Len(f) < TLV_HDR_LEN) /\ ~(Len(f) > TLV_MAX_FRAME)  BY <1>0, <1>1, SMTT(30)
      <4> QED  BY <3>1, <4>1 DEF Bogus
    <3>3. IF Len(b) >= Len(f) THEN buf' = b /\ complete' = TRUE
                              ELSE buf' = b /\ complete' = complete
      <4>1. ~(want = 0 /\ Bogus(size))  BY <3>2
      <4>2. FrameIsIn(Len(b), size) <=> Len(b) >= Len(f)  BY <3>1 DEF FrameIsIn
      <4>3. IF FrameIsIn(Len(b), size)
              THEN buf' = b /\ complete' = TRUE
              ELSE buf' = b /\ complete' = complete
        BY <1>5, <2>2, <4>1, Zenon
      <4> QED  BY <4>2, <4>3, Zenon
    <3>4. Len(b) \in Nat /\ Len(f) \in Nat  BY <1>0, <1>1, <1>4
    <3> QED  BY <1>2, <3>3, <3>4
  <2> QED  BY <2>1, <2>2
<1>10. CASE Len(b) = Len(f)
  <2>1. buf' = f  BY <1>1, <1>4, <1>7, <1>9, <1>10, SeqEqual
  <2>2. Len(wire') = 0  BY <1>0, <1>2, <1>3, <1>4, <1>10, SMTT(30)
  <2> QED  BY <1>3, <1>9, <1>10, <2>1, <2>2
<1>11. CASE Len(b) < Len(f)
  <2>1. Consumed' = Len(buf) + 1  BY <1>4, <1>9 DEF Consumed
  <2>2. Len(wire') # 0 /\ Len(buf) + 1 + Len(wire') = Len(f)
    <3>1. \A m, w, k \in Nat : w >= 1 /\ m + w = k /\ m + 1 < k => w - 1 # 0 /\ m + 1 + (w - 1) = k
      OBVIOUS
    <3>2. Len(buf) + 1 < Len(f) /\ Len(f) \in Nat  BY <1>1, <1>4, <1>11
    <3>3. Len(buf) \in Nat /\ Len(wire) \in Nat /\ Len(wire) >= 1 /\ Len(buf) + Len(wire) = Len(f)
      BY <1>0, <1>2, <1>3
    <3>4. Len(wire) - 1 # 0 /\ Len(buf) + 1 + (Len(wire) - 1) = Len(f)  BY <3>1, <3>2, <3>3
    <3> QED  BY <1>3, <3>4
  <2>3. \A i \in 1 .. Len(wire') : wire'[i] = f[Len(buf) + 1 + i]
    <3>1. \A i \in 1 .. Len(wire') :
            i + 1 \in 1 .. Len(wire) /\ Len(buf) + (i + 1) = Len(buf) + 1 + i
      BY <1>0, <1>3
    <3> QED  BY <1>2, <1>3, <3>1
  <2>4. wire' # <<>>  BY <2>2, EmptyIsBytes
  <2> QED  BY <1>7, <1>9, <1>11, <2>1, <2>2, <2>3, <2>4 DEF Reading
<1>12. Len(b) \in Nat /\ Len(f) \in Nat  BY <1>1, <1>4
<1> QED  BY <1>8, <1>10, <1>11, <1>12

\* Every step keeps in step.
LEMMA LosslessStep ==
  ASSUME FramesFit, ReasmInv, LosslessInv, [Next]_vars
  PROVE  LosslessInv'
<1>0. got \in Seq(Seq(Nat)) /\ sent \in Seq(Seq(Nat))  BY DEF LosslessInv
<1>1. ASSUME NEW p \in Payloads, SendFrame(p) PROVE LosslessInv'
  <2> DEFINE f == FrameOf(p)
  <2>1. f \in Sendable /\ f \in Seq(Nat) /\ f # <<>>  BY <1>1, FrameFacts DEF Sendable
  <2>2. /\ wire = <<>> /\ wire' = f /\ sent' = Append(sent, f)
        /\ UNCHANGED <<buf, want, match, complete, hurt, got>>
    BY <1>1 DEF SendFrame, reasm
  <2> HIDE DEF f
  <2>3. sent' \in Seq(Seq(Nat))  BY <1>0, <2>1, <2>2
  <2>4. ASSUME hurt = {} PROVE InStep'
    <3>1. CASE Idle /\ got = sent
      <4>1. Consumed' = 0 /\ buf' = <<>> /\ ~complete' /\ Len(<<>>) = 0
        BY <2>2, <3>1, EmptyIsBytes DEF Idle, Consumed
      <4>2. Len(f) \in Nat  BY <2>1
      <4>3. Reading(f)'  BY <2>1, <2>2, <4>1, <4>2 DEF Reading
      <4>4. sent' = Append(got', f)  BY <2>2, <3>1
      <4> QED  BY <2>1, <4>3, <4>4 DEF InStep, Sendable
    <3>2. ~(\E g \in Sendable : Reading(g))  BY <2>2 DEF Reading
    <3>3. ASSUME NEW g \in Sendable, complete, buf = g, sent = Append(got, g)
          PROVE  InStep'
      <4>1. complete' /\ buf' = g /\ wire' = f /\ sent' = Append(Append(got', g), f)
        BY <2>2, <3>3
      <4> QED  BY <2>1, <4>1 DEF InStep, Sendable
    <3>4. \A g \in Sendable : wire # g  BY <2>2, FrameFacts
    <3> QED  BY <2>4, <3>1, <3>2, <3>3, <3>4 DEF LosslessInv, InStep
  <2> QED  BY <1>0, <2>2, <2>3, <2>4 DEF LosslessInv
<1>2. CASE LoseByte \/ Restart
  <2>1. hurt' # {} /\ UNCHANGED <<got, sent>>  BY <1>2 DEF LoseByte, Restart
  <2> QED  BY <1>0, <2>1 DEF LosslessInv
<1>3. CASE tlv_push
  <2>1. /\ ~complete /\ wire # <<>> /\ wire' = Tail(wire) /\ UNCHANGED <<got, sent, hurt>>
        /\ buf = <<>> => Hunt(Head(wire))
        /\ buf # <<>> => Collect(Head(wire))
    BY <1>3 DEF tlv_push
  <2>2. ASSUME hurt = {} PROVE InStep'
    <3>1. PICK f \in Sendable : Reading(f) /\ sent = Append(got, f)
      BY <2>1, <2>2 DEF LosslessInv, InStep, Idle
    <3>2. Reading(f)' \/ (complete' /\ buf' = f /\ wire' = <<>>)
      BY <2>1, <3>1, HuntInStep, CollectInStep
    <3>3. sent' = Append(got', f)  BY <2>1, <3>1
    <3> QED  BY <3>2, <3>3 DEF InStep, Sendable
  <2> QED  BY <1>0, <2>1, <2>2 DEF LosslessInv
<1>4. CASE TakeFrame
  <2>1. /\ complete /\ got' = Append(got, buf) /\ buf' = <<>> /\ match' = 0
        /\ complete' = FALSE /\ UNCHANGED <<wire, sent, hurt>>
    BY <1>4 DEF TakeFrame, tlv_reset
  <2>2. got' \in Seq(Seq(Nat))
    <3>1. buf \in Seq(Nat)  BY DEF ReasmInv, BytesOK
    <3> QED  BY <1>0, <2>1, <3>1
  <2>3. ASSUME hurt = {} PROVE InStep'
    <3>1. CASE \E f \in Sendable : buf = f /\ wire = <<>> /\ sent = Append(got, f)
      BY <2>1, <3>1 DEF InStep, Idle
    <3>2. CASE \E f, g \in Sendable : buf = f /\ wire = g /\ sent = Append(Append(got, f), g)
      <4>1. PICK g \in Sendable : wire' = g /\ sent' = Append(got', g)  BY <2>1, <3>2
      <4>2. g \in Seq(Nat) /\ g # <<>> /\ Len(g) \in Nat  BY FrameFacts
      <4>3. Consumed' = 0 /\ Len(<<>>) = 0  BY <2>1, EmptyIsBytes DEF Consumed
      <4>4. Reading(g)'  BY <2>1, <4>1, <4>2, <4>3 DEF Reading
      <4> QED  BY <4>1, <4>4 DEF InStep, Sendable
    <3> QED  BY <2>1, <2>3, <3>1, <3>2 DEF LosslessInv, InStep, Idle, Reading
  <2> QED  BY <1>0, <2>1, <2>2, <2>3 DEF LosslessInv
<1>5. CASE UNCHANGED vars
  BY <1>5 DEF vars, reasm, LosslessInv, InStep, Idle, Reading, Consumed, Sendable
<1> QED  BY <1>1, <1>2, <1>3, <1>4, <1>5 DEF Next

\* tlv.h:47-49.  Without a loss the reassembler gives out exactly the frames that
\* were sent, in order and once each, whatever their payloads hold and however
\* late each is taken, as long as they fit its buffer.
THEOREM LosslessIsWhole ==
  ASSUME FramesFit
  PROVE  Spec => []LosslessIsExact
<1>1. Init => LosslessInv  BY DEF Init, LosslessInv, InStep, Idle
<1>2. ReasmInv /\ LosslessInv /\ [Next]_vars => LosslessInv'  BY LosslessStep
<1>3. LosslessInv => LosslessIsExact
  <2> SUFFICES ASSUME LosslessInv, hurt = {}, wire = <<>>, ~complete PROVE got = sent
    BY DEF LosslessIsExact
  <2> QED  BY DEF LosslessInv, InStep, Reading
<1> QED  BY <1>1, <1>2, <1>3, ReasmInit, ReasmStep, PTL DEF Spec

-----------------------------------------------------------------------------
(* With losses.                                                            *)

\* The first p bytes of f have come, or were never lost: the rest is on the wire.
Upto(f, p) ==
  /\ p + Len(wire) = Len(f)
  /\ \A i \in 1 .. Len(wire) : wire[i] = f[p + i]

\* A whole frame f, none of it read yet and nothing in its way.
Ready(f) == wire = f /\ (complete \/ buf = <<>>)

Held(f) == wire = <<>> /\ complete /\ buf = f

Given(f) == wire = <<>> /\ ~complete /\ buf = <<>> /\ got # <<>> /\ got[Len(got)] = f

\* What is collected began in a hurt frame, and all that came since is in it.
Stale(p) == ~complete /\ buf # <<>> /\ Len(buf) >= TLV_MAGIC_LEN + clear + p

\* Such a thing ended within f, and no more than a frame of bytes after it began.
Astray(f, p) ==
  /\ clear + TLV_MAGIC_LEN < TLV_MAX_FRAME
  /\ p >= 1
  /\ \/ complete
     \/ /\ buf = <<>> /\ match < p
        /\ \A j \in 1 .. match : f[p - match + j] = tlv_magic[j]

Where(f, p) ==
  Ready(f) \/ Reading(f) \/ Held(f) \/ Given(f) \/ Stale(p) \/ Astray(f, p)

AllPlain == \A k \in 1 .. Len(sent) : Plain(sent[k])

SyncInv ==
  /\ got \in Seq(Seq(Nat)) /\ sent \in Seq(Sendable) /\ clear \in Nat
  /\ sent = <<>> => wire = <<>> /\ buf = <<>> /\ ~complete
  /\ AllPlain /\ sent # <<>> /\ Whole(Len(sent)) =>
       \E p \in Nat : Upto(Last, p) /\ Where(Last, p)

\* The byte that begins a frame begins a match, whatever was matched before it.
LEMMA ReadyStep ==
  ASSUME ReasmInv, FramesFit, NEW f \in Sendable, Ready(f), tlv_push
  PROVE  Reading(f)'
<1>1. /\ f \in Seq(Nat) /\ Len(f) \in Nat /\ Len(f) > TLV_MAGIC_LEN /\ f # <<>>
      /\ \A j \in 1 .. TLV_MAGIC_LEN : f[j] = tlv_magic[j]
  BY FrameFacts, SizesAssumption, MagicLength
<1>2. /\ ~complete /\ buf = <<>> /\ wire = f /\ wire' = Tail(f) /\ Hunt(Head(f))
      /\ wire' = Tail(wire)
  BY DEF tlv_push, Ready
<1>3. /\ match \in 0 .. TLV_MAGIC_LEN - 1 /\ TLV_MAGIC_LEN \in Nat \ {0} /\ Len(<<>>) = 0
      /\ tlv_magic \in Seq(Nat)
  BY MagicLength, MagicAssumption, EmptyIsBytes DEF ReasmInv, BytesOK
<1>4. /\ Head(f) = f[1] /\ Len(wire') = Len(f) - 1
      /\ \A i \in 1 .. Len(wire') : wire'[i] = f[i + 1]
  BY <1>1, <1>2
<1>5. Head(f) = tlv_magic[1]  BY <1>1, <1>3, <1>4
<1>6. CASE match = 0
  <2>1. Consumed = 0  BY <1>2, <1>6 DEF Consumed
  <2>2. Reading(f)  BY <1>1, <1>2, <1>3, <2>1 DEF Reading
  <2> QED  BY <1>2, <2>2, HuntInStep
<1>7. CASE match # 0
  <2>1. match + 1 \in 1 .. TLV_MAGIC_LEN /\ 1 \in 1 .. TLV_MAGIC_LEN /\ match + 1 # 1
    BY <1>3, <1>7
  <2>2. Head(f) # tlv_magic[match + 1]  BY <1>5, <2>1, MagicAssumption
  <2>3. match' = 1 /\ buf' = <<>> /\ complete' = complete
    BY <1>2, <1>5, <2>2 DEF Hunt, Rematch
  <2>4. Consumed' = 1  BY <2>3 DEF Consumed
  <2>5. 1 + Len(wire') = Len(f) /\ wire' # <<>>
    <3>1. 1 + Len(wire') = Len(f)  BY <1>1, <1>4
    <3>2. \A a, b \in Nat : b # 0 /\ a > b => a - 1 # 0  OBVIOUS
    <3>3. Len(wire') # 0  BY <1>1, <1>3, <1>4, <3>2
    <3> QED  BY <1>3, <3>1, <3>3
  <2>6. \A i \in 1 .. Len(wire') : wire'[i] = f[1 + i]
    <3>1. \A i \in 1 .. Len(wire') : i + 1 = 1 + i  BY <1>1, <1>4
    <3> QED  BY <1>4, <3>1
  <2> QED  BY <1>2, <1>3, <2>3, <2>4, <2>5, <2>6 DEF Reading
<1> QED  BY <1>6, <1>7

\* A frame begun with a byte missing takes one byte more, is thrown away, or is
\* complete; it is never longer than the largest frame.
LEMMA StaleStep ==
  ASSUME ReasmInv, ReasmInv', NEW f \in Sendable, NEW p \in Nat, clear \in Nat,
         Stale(p), tlv_push
  PROVE  Stale(p + 1)' \/ Astray(f, p + 1)'
<1>1. /\ ~complete /\ buf # <<>> /\ Len(buf) >= TLV_MAGIC_LEN + clear + p
      /\ wire # <<>> /\ Collect(Head(wire)) /\ clear' = clear
  BY DEF tlv_push, Stale
<1>2. /\ buf \in Seq(Nat) /\ Len(buf) \in Nat /\ wire \in Seq(Nat) /\ Head(wire) \in Nat
      /\ complete = FALSE /\ TLV_MAGIC_LEN \in Nat /\ clear \in Nat
      /\ TLV_HDR_LEN \in Nat /\ TLV_MAX_FRAME \in Nat /\ TLV_HDR_LEN <= TLV_MAX_FRAME
      /\ want = 0 => Len(buf) < TLV_HDR_LEN
  <2>1. buf \in Seq(Nat) /\ wire \in Seq(Nat) /\ complete = FALSE
    BY <1>1 DEF ReasmInv, BytesOK
  <2>2. Head(wire) \in Nat /\ Len(buf) \in Nat  BY <1>1, <2>1
  <2>3. want = 0 => Len(buf) < TLV_HDR_LEN  BY <1>1 DEF ReasmInv, BufferFits, Collected
  <2> QED  BY <2>1, <2>2, <2>3, MagicLength, SizesAssumption
<1>3. \/ buf' = Append(buf, Head(wire))
      \/ want = 0 /\ buf' = <<>> /\ match' = 0 /\ complete' = complete
  BY <1>1 DEF Collect, tlv_reset
<1>4. CASE buf' = Append(buf, Head(wire))
  <2>1. Len(buf') = Len(buf) + 1 /\ buf' # <<>>
    BY <1>2, <1>4, AppendProperties
  <2>2. Len(buf') >= TLV_MAGIC_LEN + clear + (p + 1)
    <3>1. \A a, b, c, d \in Nat : d >= a + b + c => d + 1 >= a + b + (c + 1)  OBVIOUS
    <3> QED  BY <1>1, <1>2, <2>1, <3>1
  <2>3. CASE ~complete'
    BY <1>1, <2>1, <2>2, <2>3 DEF Stale
  <2>4. CASE complete'
    <3>1. Len(buf') \in Nat /\ Len(buf') <= TLV_MAX_FRAME
      BY <1>2, <2>1, <2>4 DEF ReasmInv, BufferFits, Collected
    <3>2. \A a, b, c, d, e \in Nat : d >= a + b + (c + 1) /\ d <= e => b + a < e  OBVIOUS
    <3>3. clear + TLV_MAGIC_LEN < TLV_MAX_FRAME  BY <1>2, <2>2, <3>1, <3>2
    <3> QED  BY <1>1, <2>4, <3>3 DEF Astray, TLV_MAGIC_LEN
  <2> QED  BY <2>3, <2>4
<1>5. CASE want = 0 /\ buf' = <<>> /\ match' = 0 /\ complete' = complete
  <2>1. \A a, b, c, d, e, h \in Nat : d >= a + b + c /\ d < h /\ h <= e => b + a < e
    OBVIOUS
  <2>2. clear + TLV_MAGIC_LEN < TLV_MAX_FRAME  BY <1>1, <1>2, <1>5, <2>1
  <2> QED  BY <1>1, <1>5, <2>2 DEF Astray, TLV_MAGIC_LEN
<1> QED  BY <1>3, <1>4, <1>5

\* Inside a plain frame no magic word is found, and what matches so far began in it.
LEMMA AstrayStep ==
  ASSUME ReasmInv, NEW f \in Sendable, NEW p \in Nat, f \in Seq(Nat), Plain(f),
         Upto(f, p), Astray(f, p), tlv_push
  PROVE  Astray(f, p + 1)'
<1>1. /\ ~complete /\ buf = <<>> /\ wire # <<>> /\ Hunt(Head(wire)) /\ clear' = clear
      /\ clear + TLV_MAGIC_LEN < TLV_MAX_FRAME /\ p >= 1 /\ match < p
      /\ \A j \in 1 .. match : f[p - match + j] = tlv_magic[j]
  BY DEF tlv_push, Astray
<1>2. /\ match \in Nat /\ match + 1 <= TLV_MAGIC_LEN /\ TLV_MAGIC_LEN \in Nat \ {0}
      /\ wire \in Seq(Nat) /\ Len(f) \in Nat
  BY MagicLength DEF ReasmInv, BytesOK
<1>3. /\ Len(wire) \in Nat /\ Len(wire) >= 1 /\ Head(wire) = wire[1]
      /\ p + Len(wire) = Len(f) /\ wire[1] = f[p + 1]
  BY <1>1, <1>2 DEF Upto
<1> DEFINE byte == Head(wire)
           at == p - match
<1>4. /\ at \in Nat /\ at >= 1 /\ at + match = p /\ p + 1 <= Len(f)
  BY <1>1, <1>2, <1>3
<1>5. byte = f[at + (match + 1)]
  <2>1. at + (match + 1) = p + 1  BY <1>2, <1>4
  <2> QED  BY <1>3, <2>1
<1>6. \A j \in 1 .. match : f[at + j] = tlv_magic[j]
  BY <1>1
<1>10. byte = f[p + 1]  BY <1>3
<1>11. Hunt(byte)  BY <1>1
<1> HIDE DEF byte, at
<1>7. CASE byte = tlv_magic[match + 1]
  <2>1. \A j \in 1 .. match + 1 : f[at + j] = tlv_magic[j]
    <3>1. \A j \in 1 .. match + 1 : j \in 1 .. match \/ j = match + 1  BY <1>2
    <3> QED  BY <1>5, <1>6, <1>7, <3>1
  <2>2. match + 1 # TLV_MAGIC_LEN
    <3> SUFFICES ASSUME match + 1 = TLV_MAGIC_LEN PROVE FALSE  OBVIOUS
    <3>1. at \in 1 .. Len(f) - TLV_MAGIC_LEN  BY <1>2, <1>4
    <3>2. \A j \in 1 .. TLV_MAGIC_LEN : f[at + j] = tlv_magic[j]  BY <2>1
    <3> QED  BY <3>1, <3>2 DEF Plain
  <2>3. match' = match + 1 /\ buf' = <<>>
    BY <1>1, <1>7, <1>11, <2>2 DEF Hunt
  <2>4. match + 1 < p + 1 /\ p + 1 >= 1 /\ p + 1 - (match + 1) = at
    BY <1>1, <1>2, <1>4
  <2> QED  BY <1>1, <2>1, <2>3, <2>4 DEF Astray, TLV_MAGIC_LEN
<1>8. CASE byte # tlv_magic[match + 1]
  <2>1. match' = Rematch(byte) /\ buf' = <<>>  BY <1>1, <1>8, <1>11 DEF Hunt
  <2>2. CASE byte = tlv_magic[1]
    <3>1. match' = 1  BY <2>1, <2>2 DEF Rematch
    <3>2. p + 1 - 1 + 1 = p + 1 /\ 1 < p + 1 /\ p + 1 >= 1  BY <1>1
    <3>3. \A j \in 1 .. 1 : f[p + 1 - 1 + j] = tlv_magic[j]
      <4>1. \A j \in 1 .. 1 : j = 1  OBVIOUS
      <4> QED  BY <1>10, <2>2, <3>2, <4>1
    <3> QED  BY <1>1, <2>1, <3>1, <3>2, <3>3 DEF Astray, TLV_MAGIC_LEN
  <2>3. CASE byte # tlv_magic[1]
    <3>1. match' = 0  BY <2>1, <2>3 DEF Rematch
    <3>2. 0 < p + 1 /\ p + 1 >= 1 /\ \A j \in 1 .. 0 : FALSE  OBVIOUS
    <3> QED  BY <1>1, <2>1, <3>1, <3>2 DEF Astray, TLV_MAGIC_LEN
  <2> QED  BY <2>2, <2>3
<1> QED  BY <1>7, <1>8

LEMMA PushStep ==
  ASSUME ReasmInv, ReasmInv', FramesFit, NEW f \in Sendable, NEW p \in Nat, clear \in Nat,
         Plain(f), Upto(f, p), Where(f, p), tlv_push
  PROVE  Upto(f, p + 1)' /\ Where(f, p + 1)'
<1>1. /\ ~complete /\ wire # <<>> /\ wire' = Tail(wire) /\ wire \in Seq(Nat)
      /\ f \in Seq(Nat) /\ Len(f) \in Nat
      /\ buf = <<>> => Hunt(Head(wire))
      /\ buf # <<>> => Collect(Head(wire))
  BY FrameFacts DEF tlv_push, ReasmInv, BytesOK
<1>2. Upto(f, p + 1)'
  <2>1. /\ Len(wire) \in Nat /\ Len(wire') = Len(wire) - 1
        /\ \A i \in 1 .. Len(wire') : wire'[i] = wire[i + 1]
    BY <1>1
  <2>2. p + Len(wire) = Len(f) /\ \A i \in 1 .. Len(wire) : wire[i] = f[p + i]
    BY DEF Upto
  <2>3. p + 1 + Len(wire') = Len(f)  BY <1>1, <2>1, <2>2
  <2>4. \A i \in 1 .. Len(wire') : i + 1 \in 1 .. Len(wire) /\ p + (i + 1) = p + 1 + i
    BY <2>1
  <2> QED  BY <2>1, <2>2, <2>3, <2>4 DEF Upto
<1>3. CASE Ready(f)
  BY <1>2, <1>3, ReadyStep DEF Where
<1>4. CASE Reading(f)
  <2>1. Reading(f)' \/ (complete' /\ buf' = f /\ wire' = <<>>)
    BY <1>1, <1>4, HuntInStep, CollectInStep
  <2> QED  BY <1>2, <2>1 DEF Where, Held
<1>5. CASE Stale(p)
  BY <1>2, <1>5, StaleStep DEF Where
<1>6. CASE Astray(f, p)
  BY <1>1, <1>2, <1>6, AstrayStep DEF Where
<1>7. ~Held(f) /\ ~Given(f)  BY <1>1 DEF Held, Given
<1> QED  BY <1>2, <1>3, <1>4, <1>5, <1>6, <1>7 DEF Where

\* At the end of a whole frame the next one finds nothing in its way, or something
\* that has taken all the bytes since.
LEMMA NextFrame ==
  ASSUME ReasmInv, FramesFit, NEW f \in Sendable, NEW g \in Sendable, NEW p \in Nat,
         clear \in Nat, wire = <<>>, wire' = g, UNCHANGED reasm,
         Upto(f, p), Where(f, p), clear' = clear + Len(f)
  PROVE  Where(g, 0)'
<1>1. Len(f) \in Nat /\ f # <<>> /\ p = Len(f)
  <2>1. f \in Seq(Nat) /\ Len(f) \in Nat /\ f # <<>>  BY FrameFacts
  <2>2. p + 0 = Len(f)  BY EmptyIsBytes DEF Upto
  <2> QED  BY <2>1, <2>2
<1>2. UNCHANGED <<buf, want, match, complete>>  BY DEF reasm
<1>3. ~Ready(f) /\ ~Reading(f)  BY <1>1 DEF Ready, Reading
<1>4. CASE Held(f) \/ Given(f) \/ Astray(f, p)
  <2>1. complete \/ buf = <<>>  BY <1>4 DEF Held, Given, Astray
  <2> QED  BY <1>2, <2>1 DEF Where, Ready
<1>5. CASE Stale(p)
  <2>1. ~complete' /\ buf' # <<>> /\ Len(buf) >= TLV_MAGIC_LEN + clear + Len(f)
    BY <1>1, <1>2, <1>5 DEF Stale
  <2>2. \A a, b, c, d \in Nat : d >= a + b + c => d >= a + (b + c) + 0  OBVIOUS
  <2>3. Len(buf) \in Nat /\ TLV_MAGIC_LEN \in Nat  BY MagicLength DEF ReasmInv, BytesOK
  <2>4. Len(buf) >= TLV_MAGIC_LEN + (clear + Len(f)) + 0
    BY <1>1, <2>1, <2>2, <2>3
  <2> QED  BY <1>2, <2>1, <2>4 DEF Where, Stale, TLV_MAGIC_LEN
<1> QED  BY <1>3, <1>4, <1>5 DEF Where

\* The first frame after a hurt one, or the first of all.
LEMMA FirstFrame ==
  ASSUME ReasmInv, NEW g \in Sendable, wire' = g, UNCHANGED reasm, clear' = 0
  PROVE  Where(g, 0)'
<1>1. UNCHANGED <<buf, want, match, complete>>  BY DEF reasm
<1>2. CASE complete \/ buf = <<>>
  BY <1>1, <1>2 DEF Where, Ready
<1>3. CASE ~complete /\ buf # <<>>
  <2>1. Len(buf) \in Nat /\ TLV_MAGIC_LEN \in Nat /\ Len(buf) >= TLV_MAGIC_LEN
    BY <1>3, MagicLength DEF ReasmInv, BytesOK, Framing
  <2>2. Len(buf) >= TLV_MAGIC_LEN + 0 + 0  BY <2>1
  <2> QED  BY <1>1, <1>3, <2>2 DEF Where, Stale, TLV_MAGIC_LEN
<1> QED  BY <1>2, <1>3

\* What was complete is handed on.
LEMMA TakeStep ==
  ASSUME ReasmInv, FramesFit, NEW f \in Sendable, NEW p \in Nat, got \in Seq(Seq(Nat)),
         Upto(f, p), Where(f, p), TakeFrame
  PROVE  Upto(f, p)' /\ Where(f, p)'
<1>1. /\ complete /\ got' = Append(got, buf) /\ buf' = <<>> /\ match' = 0
      /\ complete' = FALSE /\ UNCHANGED <<wire, clear>>
  BY DEF TakeFrame, tlv_reset
<1>2. Upto(f, p)'  BY <1>1 DEF Upto
<1>3. CASE Ready(f)
  BY <1>1, <1>2, <1>3 DEF Where, Ready
<1>4. CASE Held(f)
  <2>1. buf \in Seq(Nat)  BY DEF ReasmInv, BytesOK
  <2>2. got' # <<>> /\ got'[Len(got')] = buf  BY <1>1, <2>1, AppendProperties
  <2> QED  BY <1>1, <1>2, <1>4, <2>2 DEF Where, Held, Given
<1>5. CASE Astray(f, p)
  <2>1. 0 < p /\ \A j \in 1 .. 0 : FALSE  BY <1>5 DEF Astray
  <2> QED  BY <1>1, <1>2, <1>5, <2>1 DEF Where, Astray
<1>6. ~Reading(f) /\ ~Given(f) /\ ~Stale(p)  BY <1>1 DEF Reading, Given, Stale
<1> QED  BY <1>2, <1>3, <1>4, <1>5, <1>6 DEF Where

LEMMA SyncStep ==
  ASSUME FramesFit, ReasmInv, ReasmInv', SyncInv, [Next]_vars
  PROVE  SyncInv'
<1>0. /\ got \in Seq(Seq(Nat)) /\ sent \in Seq(Sendable) /\ clear \in Nat
      /\ sent = <<>> => wire = <<>> /\ buf = <<>> /\ ~complete
      /\ sent # <<>> => Last \in Sendable /\ (AllPlain => Plain(Last))
  <2>1. sent \in Seq(Sendable)  BY DEF SyncInv
  <2>2. ASSUME sent # <<>> PROVE Len(sent) \in 1 .. Len(sent)  BY <2>1, <2>2
  <2>3. ASSUME sent # <<>> PROVE Last \in Sendable  BY <2>1, <2>2, <2>3 DEF Last
  <2> QED  BY <2>2, <2>3 DEF SyncInv, AllPlain, Last
<1>1. ASSUME NEW payload \in Payloads, SendFrame(payload) PROVE SyncInv'
  <2> DEFINE g == FrameOf(payload)
  <2>1. g \in Sendable /\ g \in Seq(Nat) /\ g # <<>> /\ Len(g) \in Nat
    BY <1>1, FrameFacts DEF Sendable
  <2>2. /\ wire = <<>> /\ wire' = g /\ sent' = Append(sent, g)
        /\ clear' = IF sent # <<>> /\ Whole(Len(sent)) THEN clear + Len(Last) ELSE 0
        /\ UNCHANGED <<reasm, hurt, got>>
    BY <1>1 DEF SendFrame
  <2> HIDE DEF g
  <2>3. /\ sent' \in Seq(Sendable) /\ sent' # <<>> /\ Last' = g
        /\ Len(sent') = Len(sent) + 1
        /\ \A k \in 1 .. Len(sent) : sent'[k] = sent[k]
    BY <1>0, <2>1, <2>2, AppendProperties DEF Last
  <2>4. clear' \in Nat
    <3>1. ASSUME sent # <<>> PROVE Len(Last) \in Nat  BY <1>0, <3>1, FrameFacts
    <3> QED  BY <1>0, <2>2, <3>1
  <2>5. ASSUME AllPlain' PROVE Upto(g, 0)' /\ Where(g, 0)'
    <3>1. Upto(g, 0)'  BY <2>1, <2>2 DEF Upto
    <3>2. AllPlain
      <4>1. \A k \in 1 .. Len(sent) : k \in 1 .. Len(sent')  BY <1>0, <2>3
      <4> QED  BY <2>3, <2>5, <4>1 DEF AllPlain, Plain
    <3>3. CASE sent # <<>> /\ Whole(Len(sent))
      <4>1. PICK p \in Nat : Upto(Last, p) /\ Where(Last, p)  BY <3>2, <3>3 DEF SyncInv
      <4> QED  BY <1>0, <2>1, <2>2, <3>1, <3>3, <4>1, NextFrame
    <3>4. CASE ~(sent # <<>> /\ Whole(Len(sent)))
      BY <2>1, <2>2, <3>1, <3>4, FirstFrame
    <3> QED  BY <3>3, <3>4
  <2> QED  BY <1>0, <2>2, <2>3, <2>4, <2>5 DEF SyncInv
<1>2. CASE LoseByte \/ Restart
  <2>1. /\ wire # <<>> /\ UNCHANGED <<sent, clear, got>> /\ hurt' = hurt \cup {Len(sent)}
    BY <1>2 DEF LoseByte, Restart
  <2>2. sent' # <<>> /\ ~Whole(Len(sent))'  BY <1>0, <2>1 DEF Whole
  <2> QED  BY <1>0, <2>1, <2>2 DEF SyncInv, Whole
<1>3. CASE tlv_push
  <2>1. wire # <<>> /\ UNCHANGED <<sent, hurt, clear, got>>  BY <1>3 DEF tlv_push
  <2>2. sent # <<>>  BY <1>0, <2>1
  <2>3. Last' = Last /\ AllPlain' = AllPlain /\ Whole(Len(sent))' = Whole(Len(sent))
    BY <2>1 DEF Last, AllPlain, Whole, Plain
  <2>4. ASSUME AllPlain, Whole(Len(sent))
        PROVE  \E p \in Nat : Upto(Last, p)' /\ Where(Last, p)'
    <3>1. PICK p \in Nat : Upto(Last, p) /\ Where(Last, p)  BY <2>2, <2>4 DEF SyncInv
    <3>2. PICK f \in Sendable : f = Last /\ Plain(f)  BY <1>0, <2>2, <2>4
    <3>3. Upto(f, p + 1)' /\ Where(f, p + 1)'
      BY <1>0, <1>3, <3>1, <3>2, PushStep
    <3>4. p + 1 \in Nat  OBVIOUS
    <3> QED  BY <2>3, <3>2, <3>3, <3>4
  <2> QED  BY <1>0, <2>1, <2>2, <2>3, <2>4 DEF SyncInv
<1>4. CASE TakeFrame
  <2>1. /\ got' = Append(got, buf) /\ complete /\ UNCHANGED <<wire, sent, hurt, clear>>
    BY <1>4 DEF TakeFrame
  <2>2. sent # <<>>  BY <1>0, <2>1
  <2>3. got' \in Seq(Seq(Nat))
    <3>1. buf \in Seq(Nat)  BY DEF ReasmInv, BytesOK
    <3> QED  BY <1>0, <2>1, <3>1
  <2>4. Last' = Last /\ AllPlain' = AllPlain /\ Whole(Len(sent))' = Whole(Len(sent))
    BY <2>1 DEF Last, AllPlain, Whole, Plain
  <2>5. ASSUME AllPlain, Whole(Len(sent))
        PROVE  \E p \in Nat : Upto(Last, p)' /\ Where(Last, p)'
    <3>1. PICK p \in Nat : Upto(Last, p) /\ Where(Last, p)  BY <2>2, <2>5 DEF SyncInv
    <3>2. PICK f \in Sendable : f = Last  BY <1>0, <2>2
    <3>3. Upto(f, p)' /\ Where(f, p)'  BY <1>0, <1>4, <3>1, <3>2, TakeStep
    <3> QED  BY <2>4, <3>2, <3>3
  <2> QED  BY <1>0, <2>1, <2>2, <2>3, <2>4, <2>5 DEF SyncInv
<1>5. CASE UNCHANGED vars
  <2>1. UNCHANGED <<buf, want, match, complete, wire, sent, hurt, clear, got>>
    BY <1>5 DEF vars, reasm
  <2> QED  BY <2>1 DEF SyncInv, AllPlain, Plain, Whole, Last, Upto, Where, Ready, Reading,
              Held, Given, Stale, Astray, Consumed, Sendable
<1> QED  BY <1>1, <1>2, <1>3, <1>4, <1>5 DEF Next

\* tlv.h:23-25, 47-49.  Losing any number of bytes anywhere desynchronises the
\* stream for no longer than the largest frame: after that many whole bytes every
\* frame that arrives whole is handed on, whatever length a damaged header
\* claimed, as long as the frames fit the buffer and hold no second magic word.
THEOREM LossesResync ==
  ASSUME FramesFit
  PROVE  Spec => []ResyncsWithinMaxFrame
<1>1. Init => SyncInv
  <2> SUFFICES ASSUME Init PROVE SyncInv  OBVIOUS
  <2> QED  BY DEF Init, SyncInv
<1>2. ReasmInv /\ ReasmInv' /\ SyncInv /\ [Next]_vars => SyncInv'  BY SyncStep
<1>3. ReasmInv /\ SyncInv => ResyncsWithinMaxFrame
  <2> SUFFICES ASSUME ReasmInv, SyncInv, AllPlain, sent # <<>>, Whole(Len(sent)), wire = <<>>,
                      clear + TLV_MAGIC_LEN >= TLV_MAX_FRAME
               PROVE  IF complete THEN buf = Last ELSE got # <<>> /\ got[Len(got)] = Last
    BY DEF ResyncsWithinMaxFrame, AllPlain
  <2>1. PICK p \in Nat : Upto(Last, p) /\ Where(Last, p)  BY DEF SyncInv
  <2>2. Last \in Sendable  BY DEF SyncInv, Last
  <2>3. Last \in Seq(Nat) /\ Len(Last) \in Nat /\ Last # <<>> /\ Len(Last) >= 1
    BY <2>2, FrameFacts, SizesAssumption, MagicLength
  <2>4. p = Len(Last)
    <3>1. p + 0 = Len(Last)  BY <2>1, EmptyIsBytes DEF Upto
    <3> QED  BY <3>1
  <2>5. /\ Len(buf) \in Nat /\ Len(buf) <= TLV_MAX_FRAME /\ TLV_MAX_FRAME \in Nat
        /\ TLV_MAGIC_LEN \in Nat /\ clear \in Nat
    BY MagicLength, SizesAssumption DEF ReasmInv, BytesOK, BufferFits, Collected, SyncInv
  <2>6. ~Stale(p)
    <3>1. \A a, b, c, d, e \in Nat : d <= e /\ b + a >= e /\ c >= 1 => ~(d >= a + b + c)
      OBVIOUS
    <3>2. ~(Len(buf) >= TLV_MAGIC_LEN + clear + p)  BY <2>3, <2>4, <2>5, <3>1
    <3> QED  BY <3>2 DEF Stale
  <2>7. ~Astray(Last, p)
    <3>1. ~(clear + TLV_MAGIC_LEN < TLV_MAX_FRAME)  BY <2>5
    <3> QED  BY <3>1 DEF Astray
  <2>8. ~Ready(Last) /\ ~Reading(Last)  BY <2>3 DEF Ready, Reading
  <2> QED  BY <2>1, <2>6, <2>7, <2>8 DEF Where, Held, Given
<1> QED  BY <1>1, <1>2, <1>3, ReasmInit, ReasmStep, PTL DEF Spec

-----------------------------------------------------------------------------
(* The decoder.                                                            *)

\* What the decoder relies on between its steps.
DecodeInv ==
  /\ frame \in Seq(Nat) /\ off \in Nat
  /\ hit.at \in Nat /\ hit.len \in Nat
  /\ dpc \in {"list", "presence", "targets", "zones"} =>
       TLV_HDR_LEN <= total /\ total <= TLV_MAX_FRAME
  /\ dpc \in {"list", "presence"} => off <= total
  /\ dpc \in {"targets", "zones"} => hit.at + hit.len <= total

StreamInv == ReasmInv /\ DecodeInv

-----------------------------------------------------------------------------
(* Arithmetic of the widths and sizes.                                     *)

\* Below the width nothing wraps.
LEMMA NoWrap ==
  ASSUME NEW x \in Nat, x <= 2 * TLV_MAX_FRAME + TLV_ITEM
  PROVE  x % Word = x
<1>1. x < Word /\ Word \in Nat \ {0}
  BY WordAssumption, SizesAssumption DEF TLV_ITEM
<1> QED BY <1>1

LEMMA WholeParts ==
  ASSUME NEW len \in Nat, NEW size \in Nat \ {0}
  PROVE  (len \div size) \in Nat /\ (len \div size) * size <= len
  OBVIOUS

\* A multiple is made of its whole parts.
LEMMA WholeExactly ==
  ASSUME NEW len \in Nat, NEW size \in Nat, size # 0, len % size = 0
  PROVE  (len \div size) \in Nat /\ (len \div size) * size = len
<1>1. size \in Nat \ {0}  OBVIOUS
<1>2. len % size = len - size * (len \div size)  BY <1>1
<1>3. (len \div size) \in Nat  BY <1>1
<1> QED  BY <1>2, <1>3

LEMMA LessTimes ==
  ASSUME NEW a \in Nat, NEW b \in Nat, NEW size \in Nat, size # 0, b > a
  PROVE  a * size < b * size
<1>1. PICK d \in Nat : b = a + 1 + d
  <2>1. b - a - 1 \in Nat /\ b = a + 1 + (b - a - 1)  OBVIOUS
  <2> QED  BY <2>1
<1>2. b * size = a * size + size + d * size  BY <1>1
<1>3. d * size \in Nat /\ a * size \in Nat /\ size > 0  OBVIOUS
<1> QED  BY <1>2, <1>3

\* No more targets than the payload's bytes hold.
LEMMA TargetsFit ==
  ASSUME NEW len \in Nat
  PROVE  /\ Targets(len) \in Nat /\ TargetSize(len) \in Nat
         /\ Targets(len) * TargetSize(len) <= len
<1>1. TargetSize(len) \in Nat
  BY TargetSizesAssumption DEF TargetSize
<1>2. CASE len = 0 \/ TargetSize(len) = 0
  BY <1>1, <1>2 DEF Targets
<1>3. CASE ~(len = 0 \/ TargetSize(len) = 0)
  <2> DEFINE size == TargetSize(len)
             whole == len \div size
  <2>1. size \in Nat \ {0}
    BY <1>1, <1>3
  <2> HIDE DEF size
  <2>2. whole \in Nat /\ whole * size <= len
    BY <2>1, WholeParts
  <2> HIDE DEF whole
  <2>3. Targets(len) = IF whole > RADAR_MAX_TARGETS THEN RADAR_MAX_TARGETS ELSE whole
    BY <1>3 DEF Targets, AtMost, whole, size
  <2>4. Targets(len) \in Nat /\ Targets(len) <= whole
    BY <2>2, <2>3, RoomAssumption
  <2>5. Targets(len) * size <= whole * size
    BY <2>1, <2>2, <2>4
  <2>6. Targets(len) * size \in Nat /\ whole * size \in Nat
    BY <2>1, <2>2, <2>4
  <2> QED BY <1>1, <2>2, <2>4, <2>5, <2>6 DEF size
<1> QED BY <1>2, <1>3

-----------------------------------------------------------------------------
(* The invariant.                                                          *)

\* A byte of a frame is a number.
LEMMA ByteOfFrame ==
  ASSUME frame \in Seq(Nat), NEW o \in Nat, o < total
  PROVE  At(o) \in Nat
BY DEF At, total

LEMMA StreamStart == StreamInit => StreamInv
<1> SUFFICES ASSUME StreamInit PROVE StreamInv
  OBVIOUS
<1>1. ReasmInv
  BY ReasmInit DEF StreamInit
<1>2. DecodeInv
  BY DEF StreamInit, DecodeInit, DecodeInv, NoHit
<1> QED BY <1>1, <1>2 DEF StreamInv

\* A TLV that is not truncated lies within the frame, as does the one after it.
LEMMA TlvFits ==
  ASSUME DecodeInv, dpc \in {"list", "presence"}, MoreTlvs, ~Truncated(At(off + 1))
  PROVE  /\ At(off + 1) \in Nat
         /\ off + TLV_ITEM <= total
         /\ off + TLV_ITEM + At(off + 1) <= total
         /\ Onward(At(off + 1)) = off + TLV_ITEM + At(off + 1)
<1> DEFINE ln == At(off + 1)
<1>1. /\ frame \in Seq(Nat) /\ off \in Nat /\ total \in Nat
      /\ off <= total /\ total <= TLV_MAX_FRAME /\ TLV_MAX_FRAME \in Nat
  BY SizesAssumption DEF DecodeInv, total
<1>2. off + TLV_ITEM <= total
  <2>1. (off + TLV_ITEM) % Word = off + TLV_ITEM
    BY <1>1, NoWrap DEF TLV_ITEM
  <2> QED BY <2>1 DEF MoreTlvs
<1>3. ln \in Nat
  BY <1>1, <1>2, ByteOfFrame DEF TLV_ITEM
<1>4. ln <= total /\ (off + TLV_ITEM + ln) % Word <= total
  BY <1>1, <1>3, WordAssumption DEF Truncated, TLV_ITEM
<1> HIDE DEF ln
<1>5. (off + TLV_ITEM + ln) % Word = off + TLV_ITEM + ln
  BY <1>1, <1>3, <1>4, NoWrap DEF TLV_ITEM
<1> QED BY <1>2, <1>3, <1>4, <1>5 DEF Onward, ln

LEMMA FindKeeps ==
  ASSUME DecodeInv, NEW type, NEW pc \in {"list", "presence"},
         NEW found \in {"targets", "zones"}, NEW missed \in {"presence", "report"},
         FindAt(type, pc, found, missed)
  PROVE  DecodeInv'
<1> DEFINE ln == At(off + 1)
<1>1. /\ dpc = pc /\ frame' = frame /\ total' = total
      /\ frame \in Seq(Nat) /\ off \in Nat /\ total \in Nat
      /\ TLV_HDR_LEN <= total /\ total <= TLV_MAX_FRAME /\ off <= total
      /\ hit.at \in Nat /\ hit.len \in Nat /\ TLV_HDR_LEN \in Nat
  BY SizesAssumption DEF FindAt, DecodeInv, total
<1>2. CASE MoreTlvs /\ ~Truncated(ln) /\ off' = Onward(ln) /\ UNCHANGED <<dpc, hit>>
  <2>1. off' \in Nat /\ off' <= total
    BY <1>1, <1>2, TlvFits DEF TLV_ITEM
  <2> QED BY <1>1, <1>2, <2>1 DEF DecodeInv
<1>3. CASE /\ MoreTlvs /\ ~Truncated(ln) /\ hit' = [at |-> off + TLV_ITEM, len |-> ln]
           /\ dpc' = found /\ UNCHANGED off
  <2>1. hit'.at = off + TLV_ITEM /\ hit'.len = ln
    BY <1>3
  <2>2. hit'.at \in Nat /\ hit'.len \in Nat /\ hit'.at + hit'.len <= total
    BY <1>1, <1>3, <2>1, TlvFits DEF TLV_ITEM
  <2> QED BY <1>1, <1>3, <2>2 DEF DecodeInv
<1>4. CASE dpc' = missed /\ off' = TLV_HDR_LEN /\ UNCHANGED hit
  BY <1>1, <1>4 DEF DecodeInv
<1> QED BY <1>2, <1>3, <1>4 DEF FindAt

LEMMA DecodeKeeps ==
  ASSUME DecodeInv, DecodeStep
  PROVE  DecodeInv'
<1>1. CASE tlv_find
  BY <1>1, FindKeeps DEF tlv_find
<1>2. CASE tlv_targets \/ tlv_presence
  BY <1>2, SizesAssumption DEF tlv_targets, tlv_presence, Count, DecodeInv
<1>3. CASE Report
  <2>1. off' \in Nat
    <3>1. CASE \E ln \in LengthRead : off' = Onward(ln)
      <4>1. PICK ln \in LengthRead : off' = Onward(ln)
        BY <3>1
      <4>2. ln \in Nat
        <5>1. CASE off + 1 < total
          BY <4>1, <5>1, ByteOfFrame DEF LengthRead, DecodeInv
        <5>2. CASE ~(off + 1 < total)
          BY <4>1, <5>2, WordAssumption DEF LengthRead, Byte
        <5> QED BY <5>1, <5>2
      <4> QED BY <4>1, <4>2, WordAssumption, SizesAssumption DEF Onward, DecodeInv, TLV_ITEM
    <3>2. CASE UNCHANGED off
      BY <3>2 DEF DecodeInv
    <3> QED BY <1>3, <3>1, <3>2 DEF Report
  <2>2. dpc' \in {"report", "done"} /\ UNCHANGED <<frame, hit>>
    BY <1>3 DEF Report
  <2> QED BY <2>1, <2>2 DEF DecodeInv
<1> QED BY <1>1, <1>2, <1>3 DEF DecodeStep

\* Every step of the thread is a step of the reassembler, or none of its own.
LEMMA StreamIsReasm == [StreamNext]_streamVars => [Next]_vars
BY DEF StreamNext, streamVars, Receive, Decode, FrameDone, Configure, Listen, Configured, Next

LEMMA StreamStep == StreamInv /\ [StreamNext]_streamVars => StreamInv'
<1> SUFFICES ASSUME StreamInv, [StreamNext]_streamVars PROVE StreamInv'
  OBVIOUS
<1>1. ReasmInv'
  BY StreamIsReasm, ReasmStep DEF StreamInv
<1>2. DecodeInv'
  <2>1. CASE UNCHANGED decodeVars
    BY <2>1 DEF decodeVars, StreamInv, DecodeInv, total
  <2>2. CASE \E num_tlvs \in 0 .. MaxTlvs : complete /\ on_frame(buf, num_tlvs)
    <3>1. Framed(buf) /\ buf \in Seq(Nat)
      BY <2>2, CompleteIsFramed DEF StreamInv, ReasmInv, BytesOK
    <3>2. frame' = buf /\ off' = TLV_HDR_LEN /\ dpc' = "list" /\ hit' = hit
      BY <2>2 DEF on_frame
    <3>3. TLV_HDR_LEN <= Len(frame') /\ Len(frame') <= TLV_MAX_FRAME
      BY <3>1, <3>2, SizesAssumption DEF Framed
    <3> QED BY <3>1, <3>2, <3>3, SizesAssumption DEF StreamInv, DecodeInv, total
  <2>3. CASE DecodeStep
    BY <2>3, DecodeKeeps DEF StreamInv
  <2>4. CASE Return
    BY <2>4 DEF Return, NoHit, DecodeInv
  <2> QED BY <2>1, <2>2, <2>3, <2>4
     DEF StreamNext, streamVars, Receive, Decode, FrameDone, Configure, Listen, Configured
<1> QED BY <1>1, <1>2 DEF StreamInv

-----------------------------------------------------------------------------
(* The CLI.                                                                *)

\* EndsWith, byte by byte.
EndsAt(s, e, token) ==
  /\ Len(token) <= e
  /\ \A j \in 1 .. Len(token) : token[j] = s[e - Len(token) + j]

\* What cli_wait knows of its buffer: the last bytes of what it heard, and all
\* of them or as many as a slide keeps.
EndOf(b, h) ==
  /\ Len(b) <= Len(h)
  /\ \A i \in 1 .. Len(b) : b[i] = h[Len(h) - Len(b) + i]
  /\ Len(b) = Len(h) \/ Len(b) >= CLI_KEEP

LastHeard == EndOf(cliBuf, heard)

CliInv ==
  /\ CliTypeOK
  /\ cliPc = "off" => cliBuf = <<>> /\ heard = <<>> /\ cliDone = FALSE
  /\ cliPc = "wait" => Len(cliBuf) <= CLI_BUF - 2
  /\ LastHeard /\ DoneIsHeard /\ RepliesAreHeard

LEMMA TokenFacts ==
  ASSUME NEW token \in {DONE, RADAR_PROMPT}
  PROVE  /\ token \in Seq(Nat) /\ token # <<>>
         /\ Len(token) \in Nat \ {0} /\ Len(token) <= CLI_KEEP
<1>1. token \in Seq(Nat \ {0}) /\ token # <<>> /\ Len(token) <= CLI_KEEP
  BY TokensAssumption
<1> QED  BY <1>1

LEMMA EndsByByte ==
  ASSUME NEW s \in Seq(Nat), NEW e \in 0 .. Len(s), NEW token \in Seq(Nat)
  PROVE  EndsWith(SubSeq(s, 1, e), token) <=> EndsAt(s, e, token)
<1> DEFINE u == SubSeq(s, 1, e)
           k == Len(token)
           w == SubSeq(u, Len(u) - k + 1, Len(u))
<1>1. /\ u \in Seq(Nat) /\ Len(u) = e
      /\ \A i \in 1 .. e : u[i] = s[i]
  <2>1. \A i \in 1 .. e : s[i] \in Nat  OBVIOUS
  <2>2. /\ u \in Seq(Nat) /\ Len(u) = IF 1 <= e THEN e - 1 + 1 ELSE 0
        /\ \A i \in 1 .. e - 1 + 1 : u[i] = s[1 + i - 1]
    BY <2>1, SubSeqProperties
  <2> QED  BY <2>2
<1>2. k \in Nat  OBVIOUS
<1> HIDE DEF u
<1>3. ASSUME k <= e
      PROVE  /\ w \in Seq(Nat) /\ Len(w) = k
             /\ \A j \in 1 .. k : w[j] = s[e - k + j]
  <2>1. \A i \in e - k + 1 .. e : u[i] \in Nat  BY <1>1, <1>2, <1>3
  <2>2. /\ w \in Seq(Nat) /\ Len(w) = IF e - k + 1 <= e THEN e - (e - k + 1) + 1 ELSE 0
        /\ \A j \in 1 .. e - (e - k + 1) + 1 : w[j] = u[(e - k + 1) + j - 1]
    <3> DEFINE m == e - k + 1
    <3>1. m \in Int /\ e \in Int /\ \A i \in m .. e : u[i] \in Nat  BY <1>2, <2>1
    <3>2. w = SubSeq(u, m, e)  BY <1>1
    <3> HIDE DEF m, w
    <3>3. /\ w \in Seq(Nat) /\ Len(w) = IF m <= e THEN e - m + 1 ELSE 0
          /\ \A j \in 1 .. e - m + 1 : w[j] = u[m + j - 1]
      BY <3>1, <3>2, SubSeqProperties
    <3> QED  BY <3>3 DEF m
  <2>3. e - (e - k + 1) + 1 = k /\ (e - k + 1 <= e <=> k # 0)  BY <1>2
  <2>4. \A j \in 1 .. k : (e - k + 1) + j - 1 = e - k + j /\ e - k + j \in 1 .. e
    BY <1>2, <1>3
  <2>5. ASSUME NEW j \in 1 .. k PROVE w[j] = s[e - k + j]
    <3>1. w[j] = u[(e - k + 1) + j - 1]  BY <2>2, <2>3
    <3>2. (e - k + 1) + j - 1 = e - k + j /\ e - k + j \in 1 .. e  BY <2>4
    <3> QED  BY <1>1, <3>1, <3>2
  <2>6. Len(w) = k  BY <1>2, <2>2, <2>3
  <2> QED  BY <2>2, <2>5, <2>6
<1>4. EndsWith(u, token) <=> k <= e /\ w = token
  BY <1>1 DEF EndsWith
<1>5. ASSUME k <= e PROVE w = token <=> \A j \in 1 .. k : token[j] = s[e - k + j]
  <2>1. ASSUME \A j \in 1 .. k : token[j] = s[e - k + j] PROVE w = token
    <3>1. \A j \in 1 .. Len(w) : w[j] = token[j]  BY <1>3, <1>5, <2>1
    <3> QED  BY <1>3, <1>5, <3>1, SeqEqual
  <2> QED  BY <1>3, <1>5, <2>1
<1> QED  BY <1>4, <1>5 DEF EndsAt, u

\* A byte more moves no token that has ended, and what the buffer holds is where
\* it was heard.
LEMMA EndsMoved ==
  ASSUME NEW s \in Seq(Nat), NEW t \in Seq(Nat), NEW token \in Seq(Nat),
         NEW e \in Nat, NEW d \in Nat,
         \A i \in 1 .. e : e - Len(token) < i => s[i] = t[i + d],
         EndsAt(s, e, token)
  PROVE  EndsAt(t, e + d, token)
<1>1. Len(token) \in Nat /\ Len(token) <= e  BY DEF EndsAt
<1>2. ASSUME NEW j \in 1 .. Len(token) PROVE token[j] = t[e + d - Len(token) + j]
  <2>1. e - Len(token) + j \in 1 .. e /\ e - Len(token) < e - Len(token) + j
    BY <1>1
  <2>2. (e - Len(token) + j) + d = e + d - Len(token) + j  BY <1>1
  <2>3. s[e - Len(token) + j] = t[(e - Len(token) + j) + d]  BY <2>1
  <2> QED  BY <2>2, <2>3 DEF EndsAt
<1> QED  BY <1>1, <1>2 DEF EndsAt

LEMMA EndsMovedBack ==
  ASSUME NEW s \in Seq(Nat), NEW t \in Seq(Nat), NEW token \in Seq(Nat),
         NEW e \in Nat, NEW d \in Nat, Len(token) <= e,
         \A i \in 1 .. e : e - Len(token) < i => s[i] = t[i + d],
         EndsAt(t, e + d, token)
  PROVE  EndsAt(s, e, token)
<1>1. Len(token) \in Nat  OBVIOUS
<1>2. ASSUME NEW j \in 1 .. Len(token) PROVE token[j] = s[e - Len(token) + j]
  <2>1. e - Len(token) + j \in 1 .. e /\ e - Len(token) < e - Len(token) + j
    BY <1>1
  <2>2. (e - Len(token) + j) + d = e + d - Len(token) + j  BY <1>1
  <2>3. s[e - Len(token) + j] = t[(e - Len(token) + j) + d]  BY <2>1
  <2> QED  BY <2>2, <2>3 DEF EndsAt
<1> QED  BY <1>2 DEF EndsAt

\* strstr finds what ends in the buffer's string, and nothing else.
StringHolds(s, token) ==
  \E e \in 0 .. Len(s) : (\A i \in 1 .. e : s[i] # 0) /\ EndsAt(s, e, token)

LEMMA StrstrByByte ==
  ASSUME NEW s \in Seq(Nat), NEW token \in Seq(Nat)
  PROVE  strstr(s, token) <=> StringHolds(s, token)
BY EndsByByte DEF strstr, StringHolds

HeardAt(h, token, e) ==
  /\ EndsAt(h, e, token)
  /\ \A i \in 1 .. e : i > e - (CLI_BUF - 1) => h[i] # 0

\* DoneIsHeard and RepliesAreHeard, byte by byte.
LEMMA ClaimsByByte ==
  ASSUME heard \in Seq(Nat)
  PROVE  /\ DoneIsHeard <=> (cliDone => \E e \in 0 .. Len(heard) : EndsAt(heard, e, DONE))
         /\ RepliesAreHeard <=>
              (cliPc # "off" =>
                 /\ (\E e \in 0 .. Len(heard) : HeardAt(heard, DONE, e)) => cliDone
                 /\ \A e \in 0 .. Len(heard) :
                      HeardAt(heard, RADAR_PROMPT, e) => cliPc = "back" /\ e = Len(heard))
<1>1. \A token \in {DONE, RADAR_PROMPT} : \A e \in 0 .. Len(heard) :
        /\ EndsWith(SubSeq(heard, 1, e), token) <=> EndsAt(heard, e, token)
        /\ Audible(token, e) <=> HeardAt(heard, token, e)
  BY TokenFacts, EndsByByte DEF Audible, HeardAt
<1> QED  BY <1>1 DEF DoneIsHeard, RepliesAreHeard, Holds

IsLonger(g, h, x) ==
  Len(g) = Len(h) + 1 /\ g[Len(h) + 1] = x /\ \A i \in 1 .. Len(h) : g[i] = h[i]

\* One byte more.  A token that ends with it lies in the buffer, whole.
LEMMA ByteHeard ==
  ASSUME NEW h \in Seq(Nat), NEW b \in Seq(Nat), NEW x \in Nat,
         NEW token \in {DONE, RADAR_PROMPT}, EndOf(b, h), Len(b) <= CLI_BUF - 2,
         NEW g \in Seq(Nat), NEW s \in Seq(Nat), IsLonger(g, h, x), IsLonger(s, b, x)
  PROVE  /\ HeardAt(g, token, Len(g)) => StringHolds(s, token)
         /\ StringHolds(s, token) => \E e \in 0 .. Len(g) : EndsAt(g, e, token)
         /\ \A e \in 0 .. Len(h) : EndsAt(g, e, token) <=> EndsAt(h, e, token)
         /\ \A e \in 0 .. Len(h) : HeardAt(g, token, e) => HeardAt(h, token, e)
<1>00. /\ Len(b) <= Len(h)
       /\ \A i \in 1 .. Len(b) : b[i] = h[Len(h) - Len(b) + i]
       /\ Len(b) = Len(h) \/ Len(b) >= CLI_KEEP
  BY DEF EndOf
<1>0. /\ token \in Seq(Nat) /\ Len(token) \in Nat \ {0} /\ Len(token) <= CLI_KEEP
      /\ CLI_BUF \in Nat /\ CLI_KEEP \in Nat /\ Len(b) \in Nat /\ Len(h) \in Nat
  <2>1. token \in Seq(Nat) /\ Len(token) \in Nat \ {0} /\ Len(token) <= CLI_KEEP
    BY TokenFacts
  <2> QED  BY <2>1, CliSizesAssumption
<1>1. /\ g \in Seq(Nat) /\ Len(g) = Len(h) + 1 /\ g[Len(h) + 1] = x
      /\ \A i \in 1 .. Len(h) : g[i] = h[i]
  BY DEF IsLonger
<1>2. /\ s \in Seq(Nat) /\ Len(s) = Len(b) + 1 /\ s[Len(b) + 1] = x
      /\ \A i \in 1 .. Len(b) : s[i] = b[i]
  BY DEF IsLonger
<1>3. PICK d \in Nat : d = Len(h) - Len(b) /\ \A i \in 1 .. Len(s) : s[i] = g[i + d]
  <2> DEFINE d == Len(h) - Len(b)
  <2>1. d \in Nat  BY <1>00, <1>0
  <2>2. ASSUME NEW i \in 1 .. Len(b) PROVE s[i] = g[i + d]
    <3>0. \A p, q, j \in Nat : p <= q /\ 1 <= j /\ j <= p =>
            j + (q - p) \in 1 .. q /\ q - p + j = j + (q - p)
      OBVIOUS
    <3>1. i + d \in 1 .. Len(h) /\ Len(h) - Len(b) + i = i + d  BY <1>00, <1>0, <3>0
    <3> QED  BY <1>00, <1>1, <1>2, <3>1
  <2>3. (Len(b) + 1) + d = Len(h) + 1  BY <1>00, <1>0
  <2>4. \A i \in 1 .. Len(s) : i \in 1 .. Len(b) \/ i = Len(b) + 1  BY <1>00, <1>0, <1>2
  <2> QED  BY <1>1, <1>2, <2>1, <2>2, <2>3, <2>4
<1>4. Len(s) + d = Len(g) /\ Len(s) \in Nat /\ Len(g) \in Nat
  <2>1. \A p, q \in Nat : p <= q => p + 1 + (q - p) = q + 1  OBVIOUS
  <2> QED  BY <1>00, <1>0, <1>1, <1>2, <1>3, <2>1
<1>5. HeardAt(g, token, Len(g)) => StringHolds(s, token)
  <2> SUFFICES ASSUME HeardAt(g, token, Len(g)) PROVE StringHolds(s, token)
    OBVIOUS
  <2>1. EndsAt(g, Len(s) + d, token) /\ Len(token) <= Len(g)
    BY <1>4 DEF HeardAt, EndsAt
  <2>2. Len(token) <= Len(s)  BY <1>00, <1>0, <1>1, <1>2, <2>1
  <2>3. EndsAt(s, Len(s), token)
    BY <1>00, <1>0, <1>1, <1>2, <1>3, <1>4, <2>1, <2>2, EndsMovedBack
  <2>4. \A i \in 1 .. Len(s) : s[i] # 0
    <3> SUFFICES ASSUME NEW i \in 1 .. Len(s) PROVE g[i + d] # 0  BY <1>3
    <3>1. i + d \in 1 .. Len(g) /\ i + d > Len(g) - (CLI_BUF - 1)
      <4>1. \A p, k, c, j, q \in Nat : p <= c - 1 /\ 1 <= j /\ j <= p /\ p + k = q =>
              j + k \in 1 .. q /\ j + k > q - (c - 1)
        OBVIOUS
      <4>2. Len(s) <= CLI_BUF - 1  BY <1>00, <1>0, <1>2
      <4>3. i \in Nat /\ 1 <= i /\ i <= Len(s)  BY <1>4
      <4> QED  BY <1>0, <1>4, <4>1, <4>2, <4>3
    <3> QED  BY <3>1 DEF HeardAt
  <2>5. Len(s) \in 0 .. Len(s)  BY <1>4
  <2> QED  BY <2>3, <2>4, <2>5 DEF StringHolds
<1>6. StringHolds(s, token) => \E e \in 0 .. Len(g) : EndsAt(g, e, token)
  <2> SUFFICES ASSUME StringHolds(s, token) PROVE \E e \in 0 .. Len(g) : EndsAt(g, e, token)
    OBVIOUS
  <2>1. PICK e \in 0 .. Len(s) : EndsAt(s, e, token)  BY DEF StringHolds
  <2>2. \A i \in 1 .. e : s[i] = g[i + d]  BY <1>3, <1>4
  <2>4. e \in Nat  BY <1>4
  <2>5. EndsAt(g, e + d, token)  BY <1>00, <1>0, <1>1, <1>2, <2>1, <2>2, <2>4, EndsMoved
  <2>3. e + d \in 0 .. Len(g)  BY <1>3, <1>4
  <2> QED  BY <2>3, <2>5
<1>7. ASSUME NEW e \in 0 .. Len(h) PROVE EndsAt(g, e, token) <=> EndsAt(h, e, token)
  <2>1. ASSUME NEW j \in 1 .. Len(token), Len(token) <= e
        PROVE  e - Len(token) + j \in 1 .. Len(h)
    <3>1. \A k, m, l, i \in Nat : m <= l /\ k <= m /\ 1 <= i /\ i <= k => m - k + i \in 1 .. l
      OBVIOUS
    <3>2. e \in Nat /\ e <= Len(h) /\ j \in Nat /\ 1 <= j /\ j <= Len(token)  BY <1>00, <1>0
    <3> QED  BY <1>00, <1>0, <2>1, <3>1, <3>2
  <2> QED  BY <1>1, <2>1 DEF EndsAt
<1>8. ASSUME NEW e \in 0 .. Len(h), HeardAt(g, token, e) PROVE HeardAt(h, token, e)
  <2>1. EndsAt(h, e, token)  BY <1>7, <1>8 DEF HeardAt
  <2>2. \A i \in 1 .. e : i \in 1 .. Len(h)  BY <1>00, <1>0
  <2> QED  BY <1>1, <1>8, <2>1, <2>2 DEF HeardAt
<1> QED  BY <1>5, <1>6, <1>7, <1>8

\* A full buffer keeps its end.
LEMMA SlideKeeps ==
  ASSUME NEW s \in Seq(Nat), Len(s) <= CLI_BUF - 1
  PROVE  /\ Slide(s) \in Seq(Nat)
         /\ Len(Slide(s)) <= CLI_BUF - 2 /\ Len(Slide(s)) <= Len(s)
         /\ Len(Slide(s)) = Len(s) \/ Len(Slide(s)) = CLI_KEEP
         /\ \A i \in 1 .. Len(Slide(s)) : Slide(s)[i] = s[Len(s) - Len(Slide(s)) + i]
<1>0. CLI_BUF \in Nat /\ CLI_KEEP \in Nat /\ CLI_KEEP < CLI_BUF - 1 /\ Len(s) \in Nat
  BY CliSizesAssumption
<1>1. CASE ~(Len(s) >= CLI_BUF - 1)
  <2>1. Slide(s) = s /\ Len(s) <= CLI_BUF - 2  BY <1>0, <1>1 DEF Slide
  <2>2. \A i \in 1 .. Len(s) : Len(s) - Len(s) + i = i  BY <1>0
  <2> QED  BY <1>0, <2>1, <2>2
<1>2. CASE Len(s) >= CLI_BUF - 1
  <2> DEFINE m == Len(s) - CLI_KEEP + 1
  <2>1. m \in Nat /\ m >= 1 /\ Len(s) - m + 1 = CLI_KEEP  BY <1>0, <1>2
  <2>2. \A i \in m .. Len(s) : s[i] \in Nat  BY <1>0, <2>1
  <2>3. Slide(s) = SubSeq(s, m, Len(s))  BY <1>2 DEF Slide
  <2>4. /\ Slide(s) \in Seq(Nat)
        /\ Len(Slide(s)) = IF m <= Len(s) THEN Len(s) - m + 1 ELSE 0
        /\ \A i \in 1 .. Len(s) - m + 1 : Slide(s)[i] = s[m + i - 1]
    BY <1>0, <2>1, <2>2, <2>3, SubSeqProperties
  <2>5. Len(Slide(s)) = CLI_KEEP  BY <1>0, <2>1, <2>4
  <2>6. \A i \in 1 .. CLI_KEEP : m + i - 1 = Len(s) - CLI_KEEP + i  BY <1>0
  <2>7. CLI_KEEP <= CLI_BUF - 2 /\ CLI_KEEP <= Len(s)  BY <1>0, <1>2
  <2> QED  BY <2>1, <2>4, <2>5, <2>6, <2>7
<1> QED  BY <1>1, <1>2

LEMMA CliStart == StreamInit => CliInv
<1> SUFFICES ASSUME CliInit PROVE CliInv
  BY DEF StreamInit
<1>1. /\ cliPc = "off" /\ cliBuf = <<>> /\ cliDone = FALSE /\ line = <<>> /\ heard = <<>>
      /\ Len(cliBuf) = 0 /\ Len(heard) = 0
  BY DEF CliInit
<1>2. CliTypeOK
  <2>1. 0 < CLI_BUF  BY CliSizesAssumption
  <2> QED  BY <1>1, <2>1, EmptyIsBytes DEF CliTypeOK
<1>3. LastHeard  BY <1>1 DEF LastHeard, EndOf
<1> QED  BY <1>1, <1>2, <1>3 DEF CliInv, DoneIsHeard, RepliesAreHeard

\* cli_wait takes a byte.
LEMMA CliWaitKeeps ==
  ASSUME CliInv, cli_wait
  PROVE  CliInv'
<1> DEFINE x == Head(line)
           s == Append(cliBuf, x)
           g == Append(heard, x)
<1>0. /\ cliBuf \in Seq(Nat) /\ heard \in Seq(Nat) /\ line \in Seq(Nat) /\ cliDone \in BOOLEAN
      /\ cliPc = "wait" /\ line # <<>> /\ Len(cliBuf) <= CLI_BUF - 2
      /\ Len(cliBuf) <= Len(heard)
      /\ \A i \in 1 .. Len(cliBuf) : cliBuf[i] = heard[Len(heard) - Len(cliBuf) + i]
      /\ Len(cliBuf) = Len(heard) \/ Len(cliBuf) >= CLI_KEEP
      /\ EndOf(cliBuf, heard)
  BY DEF CliInv, CliTypeOK, LastHeard, EndOf, cli_wait
<1>1. x \in Nat /\ Tail(line) \in Seq(Nat)  BY <1>0
<1>2. /\ line' = Tail(line) /\ heard' = g /\ cliDone' = DoneSeen(s)
      /\ \/ strstr(s, RADAR_PROMPT) /\ cliPc' = "back" /\ cliBuf' = s
         \/ ~strstr(s, RADAR_PROMPT) /\ cliPc' = "wait" /\ cliBuf' = Slide(s)
  BY <1>0 DEF cli_wait
<1>3. /\ g \in Seq(Nat) /\ Len(g) = Len(heard) + 1 /\ g[Len(heard) + 1] = x
      /\ \A i \in 1 .. Len(heard) : g[i] = heard[i]
  BY <1>0, <1>1, AppendProperties
<1>4. /\ s \in Seq(Nat) /\ Len(s) = Len(cliBuf) + 1 /\ s[Len(cliBuf) + 1] = x
      /\ \A i \in 1 .. Len(cliBuf) : s[i] = cliBuf[i]
  BY <1>0, <1>1, AppendProperties
<1>5. ASSUME NEW token \in {DONE, RADAR_PROMPT}
      PROVE  /\ HeardAt(g, token, Len(g)) => StringHolds(s, token)
             /\ StringHolds(s, token) => \E e \in 0 .. Len(g) : EndsAt(g, e, token)
             /\ \A e \in 0 .. Len(heard) : EndsAt(g, e, token) <=> EndsAt(heard, e, token)
             /\ \A e \in 0 .. Len(heard) : HeardAt(g, token, e) => HeardAt(heard, token, e)
  <2>1. IsLonger(g, heard, x) /\ IsLonger(s, cliBuf, x)  BY <1>3, <1>4 DEF IsLonger
  <2>2. g \in Seq(Nat) /\ s \in Seq(Nat)  BY <1>3, <1>4
  <2> HIDE DEF g, s, x
  <2> QED  BY <1>0, <1>1, <2>1, <2>2, ByteHeard
<1>6. \A token \in {DONE, RADAR_PROMPT} : strstr(s, token) <=> StringHolds(s, token)
  BY <1>4, TokenFacts, StrstrByByte
<1> HIDE DEF g, s, x
<1>7. CLI_BUF \in Nat /\ CLI_KEEP \in Nat /\ Len(cliBuf) \in Nat /\ Len(heard) \in Nat
      /\ Len(s) <= CLI_BUF - 1
  BY <1>0, <1>4, CliSizesAssumption
<1>8. LastHeard' /\ cliBuf' \in Seq(Nat) /\ Len(cliBuf') < CLI_BUF
      /\ (cliPc' = "wait" => Len(cliBuf') <= CLI_BUF - 2)
  <2>1. PICK k \in Nat : k = Len(heard) - Len(cliBuf)
    <3>1. \A p, q \in Nat : p <= q => q - p \in Nat  OBVIOUS
    <3> QED  BY <1>0, <1>7, <3>1
  <2>2. \A i \in 1 .. Len(s) : s[i] = g[k + i]
    <3>1. ASSUME NEW i \in 1 .. Len(cliBuf) PROVE s[i] = g[k + i]
      <4>1. k + i \in 1 .. Len(heard)  BY <1>7, <2>1
      <4> QED  BY <1>0, <1>3, <1>4, <2>1, <4>1
    <3>2. k + (Len(cliBuf) + 1) = Len(heard) + 1  BY <1>7, <2>1
    <3>3. \A i \in 1 .. Len(s) : i \in 1 .. Len(cliBuf) \/ i = Len(cliBuf) + 1  BY <1>4, <1>7
    <3> QED  BY <1>3, <1>4, <3>1, <3>2, <3>3
  <2>3. Len(g) = k + Len(s)  BY <1>3, <1>4, <1>7, <2>1
  <2>4. k = 0 \/ Len(s) >= CLI_KEEP  BY <1>0, <1>4, <1>7, <2>1
  <2>5. PICK b : b = cliBuf'  OBVIOUS
  <2>6. /\ b \in Seq(Nat) /\ Len(b) <= Len(s) /\ Len(b) <= CLI_BUF - 1
        /\ cliPc' = "wait" => Len(b) <= CLI_BUF - 2
        /\ Len(b) = Len(s) \/ Len(b) = CLI_KEEP
        /\ \A i \in 1 .. Len(b) : b[i] = s[Len(s) - Len(b) + i]
    <3>1. CASE b = s /\ cliPc' = "back"
      <4>1. \A i \in 1 .. Len(s) : Len(s) - Len(s) + i = i  BY <1>4, <1>7
      <4> QED  BY <1>4, <1>7, <3>1, <4>1
    <3>2. CASE b = Slide(s)
      <4>1. CLI_BUF - 2 <= CLI_BUF - 1  BY <1>7
      <4>2. /\ b \in Seq(Nat) /\ Len(b) <= CLI_BUF - 2 /\ Len(b) <= Len(s)
            /\ Len(b) = Len(s) \/ Len(b) = CLI_KEEP
            /\ \A i \in 1 .. Len(b) : b[i] = s[Len(s) - Len(b) + i]
        BY <1>4, <1>7, <3>2, SlideKeeps
      <4>3. Len(b) \in Nat  BY <4>2
      <4> QED  BY <1>7, <4>1, <4>2, <4>3
    <3> QED  BY <1>2, <2>5, <3>1, <3>2
  <2>7. Len(b) \in Nat /\ Len(s) \in Nat /\ Len(g) \in Nat  BY <1>3, <1>4, <2>6
  <2>8. ASSUME NEW i \in 1 .. Len(b) PROVE b[i] = g[Len(g) - Len(b) + i]
    <3>1. /\ Len(s) - Len(b) + i \in 1 .. Len(s)
          /\ k + (Len(s) - Len(b) + i) = Len(g) - Len(b) + i
      <4>1. \A p, q, j \in Nat : p <= q /\ 1 <= j /\ j <= p =>
              q - p + j \in 1 .. q /\ \A z \in Nat : z + (q - p + j) = z + q - p + j
        OBVIOUS
      <4> QED  BY <2>3, <2>6, <2>7, <4>1
    <3> QED  BY <2>2, <2>6, <3>1
  <2>9. Len(b) <= Len(g) /\ (Len(b) = Len(g) \/ Len(b) >= CLI_KEEP)
    BY <1>7, <2>3, <2>4, <2>6, <2>7
  <2> QED  BY <1>2, <1>7, <2>5, <2>6, <2>7, <2>8, <2>9 DEF LastHeard, EndOf
<1>9. CliTypeOK'
  <2>1. DoneSeen(s) \in BOOLEAN  BY <1>0 DEF DoneSeen, strstr
  <2> QED  BY <1>1, <1>2, <1>3, <1>8, <2>1 DEF CliTypeOK
<1>10. /\ cliDone => \E e \in 0 .. Len(heard) : EndsAt(heard, e, DONE)
       /\ (\E e \in 0 .. Len(heard) : HeardAt(heard, DONE, e)) => cliDone
       /\ \A e \in 0 .. Len(heard) : ~HeardAt(heard, RADAR_PROMPT, e)
  BY <1>0, ClaimsByByte DEF CliInv
<1>11. \A e \in 0 .. Len(g) : e \in 0 .. Len(heard) \/ e = Len(g)
  BY <1>3, <1>7
<1>12. \A e \in 0 .. Len(heard) : e \in 0 .. Len(g)
  BY <1>3, <1>7
<1>13. cliDone' => \E e \in 0 .. Len(g) : EndsAt(g, e, DONE)
  BY <1>2, <1>5, <1>6, <1>10, <1>12 DEF DoneSeen
<1>14. (\E e \in 0 .. Len(g) : HeardAt(g, DONE, e)) => cliDone'
  BY <1>2, <1>5, <1>6, <1>10, <1>11 DEF DoneSeen
<1>15. \A e \in 0 .. Len(g) : HeardAt(g, RADAR_PROMPT, e) => cliPc' = "back" /\ e = Len(g)
  BY <1>2, <1>5, <1>6, <1>10, <1>11
<1>16. (heard \in Seq(Nat) =>
         /\ DoneIsHeard <=> (cliDone => \E e \in 0 .. Len(heard) : EndsAt(heard, e, DONE))
         /\ RepliesAreHeard <=>
              (cliPc # "off" =>
                 /\ (\E e \in 0 .. Len(heard) : HeardAt(heard, DONE, e)) => cliDone
                 /\ \A e \in 0 .. Len(heard) :
                      HeardAt(heard, RADAR_PROMPT, e) => cliPc = "back" /\ e = Len(heard)))'
  BY ClaimsByByte, PTL
<1>17. DoneIsHeard' /\ RepliesAreHeard'
  BY <1>2, <1>3, <1>13, <1>14, <1>15, <1>16 DEF EndsAt, HeardAt
<1>18. cliPc' # "off"  BY <1>2
<1> QED  BY <1>8, <1>9, <1>17, <1>18 DEF CliInv

LEMMA CliKeeps == CliInv /\ [StreamNext]_streamVars /\ StreamInv => CliInv'
<1> SUFFICES ASSUME CliInv, [StreamNext]_streamVars, StreamInv PROVE CliInv'
  OBVIOUS
<1>0. /\ cliBuf \in Seq(Nat) /\ heard \in Seq(Nat) /\ line \in Seq(Nat) /\ cliDone \in BOOLEAN
      /\ cliPc \in {"off", "wait", "back"} /\ Len(cliBuf) < CLI_BUF
      /\ cliPc = "off" => cliBuf = <<>> /\ heard = <<>> /\ cliDone = FALSE
  BY DEF CliInv, CliTypeOK
<1>1. CASE cli_wait
  BY <1>1, CliWaitKeeps
<1>2. CASE UNCHANGED cliVars
  <2>1. cliPc' = cliPc /\ cliBuf' = cliBuf /\ cliDone' = cliDone /\ line' = line /\ heard' = heard
    BY <1>2 DEF cliVars
  <2> QED  BY <2>1 DEF CliInv, CliTypeOK, LastHeard, EndOf, DoneIsHeard, RepliesAreHeard, Audible
<1>3. CASE CliTimeout
  <2>1. cliPc = "wait" /\ cliPc' = "back" /\ UNCHANGED <<cliBuf, cliDone, line, heard>>
    BY <1>3 DEF CliTimeout
  <2>2. CliTypeOK'  BY <1>0, <2>1 DEF CliTypeOK
  <2>3. LastHeard' /\ DoneIsHeard'  BY <2>1 DEF CliInv, LastHeard, EndOf, DoneIsHeard
  <2>4. RepliesAreHeard'
    BY <2>1 DEF CliInv, RepliesAreHeard, Audible
  <2> QED  BY <2>1, <2>2, <2>3, <2>4 DEF CliInv
<1>4. CASE CliReturn
  <2>1. /\ cliPc' = "off" /\ cliBuf' = <<>> /\ cliDone' = FALSE /\ line' = <<>> /\ heard' = <<>>
        /\ Len(cliBuf') = 0 /\ Len(heard') = 0
    BY <1>4, EmptyIsBytes DEF CliReturn
  <2>2. 0 < CLI_BUF  BY CliSizesAssumption
  <2>3. CliTypeOK'  BY <2>1, <2>2, EmptyIsBytes DEF CliTypeOK
  <2>4. LastHeard'  BY <2>1 DEF LastHeard, EndOf
  <2>5. DoneIsHeard' /\ RepliesAreHeard'  BY <2>1 DEF DoneIsHeard, RepliesAreHeard
  <2> QED  BY <2>1, <2>3, <2>4, <2>5 DEF CliInv
<1>5. ASSUME NEW undrained \in {wire, <<>>}, NEW reply \in Replies, cli_line(undrained \o reply)
      PROVE  CliInv'
  <2>1. undrained \in Seq(Nat) /\ reply \in Seq(Nat)
    BY RepliesAssumption, EmptyIsBytes DEF StreamInv, ReasmInv, BytesOK
  <2>2. (undrained \o reply) \in Seq(Nat)  BY <2>1
  <2>3. /\ cliPc = "off" /\ cliPc' = "wait" /\ line' = undrained \o reply
        /\ UNCHANGED <<cliBuf, cliDone, heard>>
        /\ cliBuf = <<>> /\ heard = <<>> /\ cliDone = FALSE
        /\ Len(cliBuf) = 0 /\ Len(heard) = 0
    BY <1>0, <1>5, EmptyIsBytes DEF cli_line
  <2>4. CliTypeOK'  BY <1>0, <2>2, <2>3 DEF CliTypeOK
  <2>5. LastHeard' /\ DoneIsHeard'  BY <2>3 DEF LastHeard, EndOf, DoneIsHeard
  <2>6. 0 <= CLI_BUF - 2  BY CliSizesAssumption
  <2>7. RepliesAreHeard'
    <3>1. \A token \in {DONE, RADAR_PROMPT} : ~EndsWith(SubSeq(<<>>, 1, 0), token)
      <4> SUFFICES ASSUME NEW token \in {DONE, RADAR_PROMPT} PROVE ~EndsAt(<<>>, 0, token)
        <5>1. 0 \in 0 .. Len(<<>>)  BY EmptyIsBytes
        <5> QED  BY <5>1, TokenFacts, EndsByByte, EmptyIsBytes
      <4>1. ~(Len(token) <= 0)  BY TokenFacts
      <4> QED  BY <4>1 DEF EndsAt
    <3>2. \A e \in 0 .. Len(heard') : e = 0  BY <2>3
    <3> QED  BY <2>3, <3>1, <3>2 DEF RepliesAreHeard, Audible
  <2> QED  BY <2>3, <2>4, <2>5, <2>6, <2>7 DEF CliInv
<1> QED  BY <1>1, <1>2, <1>3, <1>4, <1>5
   DEF StreamNext, streamVars, Receive, Decode, FrameDone, Configure, Listen, Configured

-----------------------------------------------------------------------------
(* The types of the rest.                                                  *)

QueuesOK ==
  /\ sent \in Seq(Seq(Nat)) /\ got \in Seq(Seq(Nat))
  /\ hurt \subseteq Nat /\ lost \in Nat /\ clear \in Nat

LEMMA SizesBelowWidth == 0 < Word /\ TLV_HDR_LEN < Word /\ TLV_MAX_FRAME < Word /\ Word \in Nat
BY WordAssumption, SizesAssumption DEF TLV_ITEM

LEMMA OnwardIsByte == ASSUME off \in Nat, NEW len \in Nat PROVE Onward(len) \in Byte
<1>1. \A x \in Nat, w \in Nat \ {0} : x % w \in 0 .. w - 1  OBVIOUS
<1>2. off + TLV_ITEM + len \in Nat /\ Word \in Nat \ {0}  BY SizesBelowWidth DEF TLV_ITEM
<1> QED  BY <1>1, <1>2 DEF Onward, Byte

LEMMA QueuesKeep ==
  ASSUME ReasmInv, QueuesOK, [Next]_vars
  PROVE  QueuesOK'
<1>1. ASSUME NEW payload \in Payloads, SendFrame(payload) PROVE QueuesOK'
  <2>1. FrameOf(payload) \in Seq(Nat)  BY PayloadsAssumption, FrameIsBytes
  <2> HIDE DEF FrameOf
  <2>2. sent' = Append(sent, FrameOf(payload)) /\ UNCHANGED <<hurt, lost, got>>
    BY <1>1 DEF SendFrame
  <2>3. clear' \in Nat
    <3>1. ASSUME sent # <<>> PROVE Len(Last) \in Nat
      <4>1. Len(sent) \in 1 .. Len(sent)  BY <3>1 DEF QueuesOK
      <4>2. Last \in Seq(Nat)  BY <4>1 DEF QueuesOK, Last
      <4> QED  BY <4>2
    <3> QED  BY <1>1, <3>1 DEF SendFrame, QueuesOK
  <2> QED  BY <2>1, <2>2, <2>3 DEF QueuesOK
<1>2. CASE LoseByte \/ Restart
  <2>1. /\ hurt' = hurt \cup {Len(sent)} /\ lost' = lost + 1
        /\ UNCHANGED <<sent, clear, got>>
    BY <1>2 DEF LoseByte, Restart
  <2>2. Len(sent) \in Nat /\ lost \in Nat  BY DEF QueuesOK
  <2>3. lost' \in Nat  BY <2>1, <2>2
  <2>4. hurt' \subseteq Nat  BY <2>1, <2>2 DEF QueuesOK
  <2> QED  BY <2>1, <2>3, <2>4 DEF QueuesOK
<1>3. CASE tlv_push
  BY <1>3 DEF tlv_push, QueuesOK
<1>4. CASE TakeFrame
  <2>1. got' = Append(got, buf) /\ UNCHANGED <<sent, hurt, lost, clear>>
        /\ buf \in Seq(Nat)
    BY <1>4 DEF TakeFrame, ReasmInv, BytesOK
  <2> QED  BY <2>1 DEF QueuesOK
<1>5. CASE UNCHANGED vars
  BY <1>5 DEF vars, QueuesOK
<1> QED  BY <1>1, <1>2, <1>3, <1>4, <1>5 DEF Next

LEMMA FindKeepsTypes ==
  ASSUME DecodeInv, DecodeTypeOK, NEW type, NEW pc \in {"list", "presence"},
         NEW found \in {"targets", "zones"}, NEW missed \in {"presence", "report"},
         FindAt(type, pc, found, missed)
  PROVE  DecodeTypeOK'
<1> DEFINE ln == At(off + 1)
<1>0. /\ dpc = pc /\ UNCHANGED <<frame, tracker, n, left>>
      /\ dpc' \in {dpc, found, missed} /\ off \in Nat
  BY DEF FindAt, DecodeInv
<1>1. CASE MoreTlvs /\ ~Truncated(ln) /\ off' = Onward(ln) /\ UNCHANGED hit
  <2>1. ln \in Nat  BY <1>0, <1>1, TlvFits
  <2>2. off' \in Byte  BY <1>0, <1>1, <2>1, OnwardIsByte
  <2> QED  BY <1>0, <1>1, <2>2 DEF DecodeTypeOK
<1>2. CASE MoreTlvs /\ ~Truncated(ln) /\ hit' = [at |-> off + TLV_ITEM, len |-> ln] /\ UNCHANGED off
  <2>1. ln \in Nat /\ ln <= total  BY <1>0, <1>2, TlvFits DEF Truncated, total
  <2>2. total \in Nat /\ total <= TLV_MAX_FRAME  BY <1>0 DEF DecodeInv, total
  <2>3. ln \in Byte  BY <2>1, <2>2, SizesBelowWidth, SizesAssumption DEF Byte
  <2>4. off + TLV_ITEM \in Nat  BY <1>0 DEF TLV_ITEM
  <2>5. hit' \in Hit  BY <1>2, <2>3, <2>4 DEF Hit
  <2> QED  BY <1>0, <1>2, <2>5 DEF DecodeTypeOK
<1>3. CASE off' = TLV_HDR_LEN /\ UNCHANGED hit
  <2>1. off' \in Byte  BY <1>3, SizesBelowWidth, SizesAssumption DEF Byte
  <2> QED  BY <1>0, <1>3, <2>1 DEF DecodeTypeOK
<1> QED  BY <1>1, <1>2, <1>3 DEF FindAt

LEMMA DecodeTypesKeep ==
  ASSUME StreamInv, DecodeTypeOK, [StreamNext]_streamVars
  PROVE  DecodeTypeOK'
<1>0. TLV_HDR_LEN \in Byte /\ 0 \in Byte
  BY SizesBelowWidth, SizesAssumption DEF Byte
<1>1. CASE UNCHANGED decodeVars
  BY <1>1 DEF decodeVars, DecodeTypeOK
<1>2. CASE \E num_tlvs \in 0 .. MaxTlvs : complete /\ on_frame(buf, num_tlvs)
  <2>1. buf \in Seq(Nat)  BY DEF StreamInv, ReasmInv, BytesOK
  <2> QED  BY <1>0, <1>2, <2>1 DEF on_frame, DecodeTypeOK
<1>3. CASE tlv_find
  BY <1>3, FindKeepsTypes DEF tlv_find, StreamInv
<1>4. ASSUME NEW isTracker \in BOOLEAN, NEW people \in 0 .. RADAR_MAX_TARGETS,
             Count(isTracker, people)
      PROVE  DecodeTypeOK'
  BY <1>0, <1>4 DEF Count, DecodeTypeOK
<1>5. CASE tlv_targets
  <2>1. hit.len \in Nat  BY DEF StreamInv, DecodeInv
  <2>2. Targets(hit.len) \in Nat  BY <2>1, TargetsFit
  <2>3. Targets(hit.len) <= RADAR_MAX_TARGETS
    <3>1. \A k : AtMost(k, RADAR_MAX_TARGETS) \in Nat => AtMost(k, RADAR_MAX_TARGETS) <= RADAR_MAX_TARGETS
      BY RoomAssumption DEF AtMost
    <3> QED  BY <2>2, <3>1, RoomAssumption DEF Targets
  <2>4. Targets(hit.len) \in 0 .. RADAR_MAX_TARGETS  BY <2>2, <2>3, RoomAssumption
  <2> QED  BY <1>4, <1>5, <2>4 DEF tlv_targets
<1>6. CASE tlv_presence
  <2>1. 0 \in 0 .. RADAR_MAX_TARGETS /\ 1 \in 0 .. RADAR_MAX_TARGETS  BY RoomAssumption
  <2> QED  BY <1>4, <1>6, <2>1 DEF tlv_presence
<1>7. CASE Report
  <2>1. frame \in Seq(Nat) /\ off \in Nat  BY DEF StreamInv, DecodeInv
  <2>2. CASE ReportMore /\ (\E ln \in LengthRead : off' = Onward(ln)) /\ left' = left - 1 /\ UNCHANGED dpc
    <3>1. PICK ln \in LengthRead : off' = Onward(ln)  BY <2>2
    <3>2. ln \in Nat
      <4>1. CASE off + 1 < total
        BY <2>1, <3>1, <4>1, ByteOfFrame DEF LengthRead
      <4>2. CASE ~(off + 1 < total)
        BY <3>1, <4>2, WordAssumption DEF LengthRead, Byte
      <4> QED  BY <4>1, <4>2
    <3>3. off' \in Byte  BY <2>1, <3>1, <3>2, OnwardIsByte
    <3>4. left' \in 0 .. MaxTlvs
      BY <2>2, RoomAssumption DEF ReportMore, DecodeTypeOK
    <3> QED  BY <1>7, <2>2, <3>3, <3>4 DEF Report, DecodeTypeOK
  <2>3. CASE dpc' = "done" /\ UNCHANGED <<off, left>>
    BY <1>7, <2>3 DEF Report, DecodeTypeOK
  <2> QED  BY <1>7, <2>2, <2>3 DEF Report
<1>8. CASE Return
  <2>1. NoHit \in Hit  BY <1>0 DEF NoHit, Hit
  <2>2. 0 \in 0 .. RADAR_MAX_TARGETS /\ 0 \in 0 .. MaxTlvs  BY RoomAssumption
  <2> QED  BY <1>0, <1>8, <2>1, <2>2, EmptyIsBytes DEF Return, DecodeTypeOK
<1> QED  BY <1>1, <1>2, <1>3, <1>5, <1>6, <1>7, <1>8
   DEF StreamNext, streamVars, Receive, Decode, DecodeStep, FrameDone, Configure, Listen, Configured

-----------------------------------------------------------------------------
(* The walk over the TLVs, against the definition of what a TLV is.        *)

LEMMA Least ==
  ASSUME NEW T, T \subseteq Nat, T # {}
  PROVE  \E x \in T : \A y \in T : x <= y
<1> DEFINE R == OpToRel(<, Nat)
<1>1. IsWellFoundedOn(R, Nat)  BY NatLessThanWellFounded
<1>2. \A x, y \in Nat : y < x => <<y, x>> \in R  BY DEF OpToRel
<1> HIDE DEF R
<1>3. \E x \in T : \A y \in T : <<y, x>> \notin R  BY <1>1, WFMin
<1>4. PICK x \in T : \A y \in T : <<y, x>> \notin R  BY <1>3
<1>5. \A y \in T : ~(y < x)  BY <1>2, <1>4
<1>6. \A y \in T : x \in Int /\ y \in Int  OBVIOUS
<1>7. \A a, b \in Int : ~(b < a) => a <= b  OBVIOUS
<1> QED  BY <1>5, <1>6, <1>7

\* What holds at the end of a frame, and of an offset if it holds of the one
\* after it, holds of every offset.
LEMMA Downwards ==
  ASSUME NEW max \in Nat, NEW T, T \subseteq 0 .. max, max \in T,
         \A k \in 1 .. max : k \in T => k - 1 \in T
  PROVE  0 \in T
<1>1. T \subseteq Nat /\ T # {}  OBVIOUS
<1>2. PICK m \in T : \A y \in T : m <= y  BY <1>1, Least
<1>3. m \in 0 .. max  OBVIOUS
<1>4. CASE m = 0
  BY <1>4
<1>5. CASE m # 0
  <2>1. m \in 1 .. max  BY <1>3, <1>5
  <2>2. m - 1 \in T  BY <2>1
  <2>3. m <= m - 1  BY <1>2, <2>2
  <2> QED  BY <1>3, <2>3
<1> QED  BY <1>4, <1>5

\* The TLV at offset o of frame f.
Item(f, o)  == [type |-> f[o + 1], at |-> o + TLV_ITEM, len |-> f[o + 1 + 1]]
Over(f, o)  == o + TLV_ITEM > Len(f) \/ o + TLV_ITEM + f[o + 1 + 1] > Len(f)
After(f, o) == o + TLV_ITEM + f[o + 1 + 1]

IsWalk(f, w) ==
  w = [o \in 0 .. Len(f) |->
         IF o + TLV_ITEM > Len(f) \/ o + TLV_ITEM + f[o + 1 + 1] > Len(f) THEN <<>>
         ELSE <<[type |-> f[o + 1], at |-> o + TLV_ITEM, len |-> f[o + 1 + 1]]>>
              \o w[o + TLV_ITEM + f[o + 1 + 1]]]

Walk(f) == CHOOSE w : IsWalk(f, w)

LEMMA TlvsIsWalk == Tlvs = Walk(frame)[TLV_HDR_LEN]
BY DEF Tlvs, Walk, IsWalk, At, total

\* The step of the walk.
LEMMA AfterIsFurther ==
  ASSUME NEW f \in Seq(Nat), NEW o \in 0 .. Len(f), ~Over(f, o)
  PROVE  /\ f[o + 1] \in Nat /\ f[o + 1 + 1] \in Nat
         /\ After(f, o) \in o + 1 .. Len(f)
<1>0. Len(f) \in Nat /\ o \in Nat  OBVIOUS
<1>1. o + 2 <= Len(f)  BY <1>0 DEF Over, TLV_ITEM
<1>2. o + 1 \in 1 .. Len(f) /\ o + 1 + 1 \in 1 .. Len(f)  BY <1>0, <1>1
<1>3. f[o + 1] \in Nat /\ f[o + 1 + 1] \in Nat  BY <1>2
<1>4. PICK v \in Nat : v = f[o + 1 + 1]  BY <1>3
<1>5. o + 2 + v <= Len(f)  BY <1>4 DEF Over, TLV_ITEM
<1>6. After(f, o) = o + 2 + v  BY <1>4 DEF After, TLV_ITEM
<1> QED  BY <1>0, <1>3, <1>4, <1>5, <1>6

\* There is such a walk: from the end of the frame to its start.
LEMMA WalkExists ==
  ASSUME NEW f \in Seq(Nat)
  PROVE  \E w : IsWalk(f, w)
<1> DEFINE max == Len(f)
           Part(k, w) == w = [o \in k .. max |->
                                IF Over(f, o) THEN <<>> ELSE <<Item(f, o)>> \o w[After(f, o)]]
           T == {k \in 0 .. max : \E w : Part(k, w)}
<1>0. max \in Nat  OBVIOUS
<1>1. max \in T
  <2>1. \A o \in max .. max : Over(f, o)  BY <1>0 DEF Over, TLV_ITEM
  <2> DEFINE w == [o \in max .. max |-> <<>>]
  <2>2. Part(max, w)  BY <2>1, Zenon
  <2> HIDE DEF w, Part
  <2>3. max \in 0 .. max  BY <1>0
  <2> QED  BY <2>2, <2>3
<1>2. ASSUME NEW k \in 1 .. max, k \in T PROVE k - 1 \in T
  <2>1. PICK w : Part(k, w)  BY <1>2
  <2> DEFINE first == IF Over(f, k - 1) THEN <<>> ELSE <<Item(f, k - 1)>> \o w[After(f, k - 1)]
             v == [o \in k - 1 .. max |-> IF o = k - 1 THEN first ELSE w[o]]
  <2>2. ASSUME NEW o \in k - 1 .. max
        PROVE  v[o] = IF Over(f, o) THEN <<>> ELSE <<Item(f, o)>> \o v[After(f, o)]
    <3>1. o \in 0 .. max /\ k - 1 \in Nat  BY <1>0
    <3>2. ~Over(f, o) => After(f, o) \in k .. max /\ v[After(f, o)] = w[After(f, o)]
      <4> SUFFICES ASSUME ~Over(f, o)
                   PROVE  After(f, o) \in k .. max /\ v[After(f, o)] = w[After(f, o)]
        OBVIOUS
      <4>1. After(f, o) \in o + 1 .. max  BY <3>1, AfterIsFurther
      <4>2. After(f, o) \in k .. max /\ After(f, o) # k - 1 /\ After(f, o) \in k - 1 .. max
        BY <1>0, <3>1, <4>1
      <4> QED  BY <4>2
    <3>3. CASE o = k - 1
      <4>1. v[o] = first  BY <3>3
      <4> QED  BY <3>2, <3>3, <4>1
    <3>4. CASE o # k - 1
      <4>1. o \in k .. max  BY <1>0, <3>1, <3>4
      <4>2. v[o] = w[o]  BY <3>4
      <4>3. w[o] = IF Over(f, o) THEN <<>> ELSE <<Item(f, o)>> \o w[After(f, o)]
        BY <2>1, <4>1
      <4> QED  BY <3>2, <4>2, <4>3
    <3> QED  BY <3>3, <3>4
  <2>3. Part(k - 1, v)
    <3> DEFINE u == [o \in k - 1 .. max |->
                       IF Over(f, o) THEN <<>> ELSE <<Item(f, o)>> \o v[After(f, o)]]
    <3>1. \A o \in k - 1 .. max : v[o] = u[o]  BY <2>2
    <3>2. v = u
      <4>1. DOMAIN v = k - 1 .. max /\ DOMAIN u = k - 1 .. max
            /\ v = [o \in DOMAIN v |-> v[o]] /\ u = [o \in DOMAIN u |-> u[o]]
        OBVIOUS
      <4> HIDE DEF v, u
      <4> QED  BY <3>1, <4>1
    <3> QED  BY <3>2
  <2> HIDE DEF v, Part
  <2>4. k - 1 \in 0 .. max  BY <1>0
  <2> QED  BY <2>3, <2>4
<1>3. 0 \in T
  <2>1. T \subseteq 0 .. max  OBVIOUS
  <2> HIDE DEF T
  <2> QED  BY <1>0, <1>1, <1>2, <2>1, Downwards
<1> QED  BY <1>3 DEF IsWalk, Item, Over, After

ItemType == [type : Nat, at : Nat, len : Nat]

\* What the walk is at each offset.
LEMMA WalkFacts ==
  ASSUME NEW f \in Seq(Nat), NEW o \in 0 .. Len(f)
  PROVE  /\ Over(f, o) => Walk(f)[o] = <<>>
         /\ ~Over(f, o) => Walk(f)[o] = <<Item(f, o)>> \o Walk(f)[After(f, o)]
<1>1. IsWalk(f, Walk(f))  BY WalkExists DEF Walk
<1> DEFINE w == Walk(f)
<1> HIDE DEF w
<1>2. w = [i \in 0 .. Len(f) |-> IF Over(f, i) THEN <<>> ELSE <<Item(f, i)>> \o w[After(f, i)]]
  BY <1>1 DEF w, IsWalk, Over, Item, After
<1>3. w[o] = IF Over(f, o) THEN <<>> ELSE <<Item(f, o)>> \o w[After(f, o)]  BY <1>2
<1> QED  BY <1>3 DEF w

LEMMA WalkIsItems ==
  ASSUME NEW f \in Seq(Nat), NEW o \in 0 .. Len(f)
  PROVE  Walk(f)[o] \in Seq(ItemType)
<1> DEFINE max == Len(f)
           T == {k \in 0 .. max : \A i \in k .. max : Walk(f)[i] \in Seq(ItemType)}
<1>0. max \in Nat  OBVIOUS
<1>1. max \in T
  <2>1. \A i \in max .. max : i \in 0 .. max /\ Over(f, i)  BY <1>0 DEF Over, TLV_ITEM
  <2>2. \A i \in max .. max : Walk(f)[i] = <<>>  BY <2>1, WalkFacts
  <2>3. max \in 0 .. max /\ <<>> \in Seq(ItemType)  BY <1>0
  <2> QED  BY <2>2, <2>3
<1>2. ASSUME NEW k \in 1 .. max, k \in T PROVE k - 1 \in T
  <2>1. \A i \in k .. max : Walk(f)[i] \in Seq(ItemType)  BY <1>2
  <2>2. k - 1 \in 0 .. max  BY <1>0
  <2>3. Walk(f)[k - 1] \in Seq(ItemType)
    <3>1. CASE Over(f, k - 1)
      <4>1. Walk(f)[k - 1] = <<>>  BY <2>2, <3>1, WalkFacts
      <4>2. <<>> \in Seq(ItemType)  OBVIOUS
      <4> QED  BY <4>1, <4>2
    <3>2. CASE ~Over(f, k - 1)
      <4>1. /\ f[k - 1 + 1] \in Nat /\ f[k - 1 + 1 + 1] \in Nat
            /\ After(f, k - 1) \in k - 1 + 1 .. max
        BY <2>2, <3>2, AfterIsFurther
      <4>2. After(f, k - 1) \in k .. max  BY <1>0, <4>1
      <4>3. Item(f, k - 1) \in ItemType  BY <2>2, <4>1 DEF Item, ItemType, TLV_ITEM
      <4>4. Walk(f)[After(f, k - 1)] \in Seq(ItemType)  BY <2>1, <4>2
      <4>5. Walk(f)[k - 1] = <<Item(f, k - 1)>> \o Walk(f)[After(f, k - 1)]
        BY <2>2, <3>2, WalkFacts
      <4>6. <<Item(f, k - 1)>> \in Seq(ItemType)  BY <4>3
      <4> HIDE DEF max, T, Item, After, ItemType
      <4> QED  BY <4>4, <4>5, <4>6, ConcatProperties
    <3> QED  BY <3>1, <3>2
  <2>4. \A i \in k - 1 .. max : i = k - 1 \/ i \in k .. max  BY <1>0
  <2> QED  BY <2>1, <2>2, <2>3, <2>4
<1>3. 0 \in T
  <2>1. T \subseteq 0 .. max  OBVIOUS
  <2> HIDE DEF T
  <2> QED  BY <1>0, <1>1, <1>2, <2>1, Downwards
<1> QED  BY <1>3

\* Where k TLVs have been passed.
Passed(f, k, o) ==
  LET t == Walk(f)[TLV_HDR_LEN]
      w == Walk(f)[o]
  IN  /\ k \in 0 .. Len(t) /\ o \in 0 .. Len(f)
      /\ o = IF k = 0 THEN TLV_HDR_LEN ELSE t[k].at + t[k].len
      /\ Len(t) = k + Len(w)
      /\ \A i \in 1 .. Len(w) : t[k + i] = w[i]

LEMMA PassedNone ==
  ASSUME NEW f \in Seq(Nat), TLV_HDR_LEN <= Len(f)
  PROVE  Passed(f, 0, TLV_HDR_LEN)
<1>1. TLV_HDR_LEN \in 0 .. Len(f)  BY SizesAssumption
<1>2. Walk(f)[TLV_HDR_LEN] \in Seq(ItemType)  BY <1>1, WalkIsItems
<1> QED  BY <1>1, <1>2 DEF Passed

LEMMA PassedAll ==
  ASSUME NEW f \in Seq(Nat), NEW k, NEW o, Passed(f, k, o), Over(f, o)
  PROVE  k = Len(Walk(f)[TLV_HDR_LEN])
<1>1. Walk(f)[o] = <<>>  BY WalkFacts DEF Passed
<1>2. Len(Walk(f)[o]) = 0  BY <1>1
<1> QED  BY <1>2 DEF Passed

\* One more.
LEMMA PassedNext ==
  ASSUME NEW f \in Seq(Nat), NEW k, NEW o, Passed(f, k, o), ~Over(f, o), TLV_HDR_LEN <= Len(f)
  PROVE  /\ k + 1 \in 1 .. Len(Walk(f)[TLV_HDR_LEN])
         /\ Walk(f)[TLV_HDR_LEN][k + 1] = Item(f, o)
         /\ Passed(f, k + 1, After(f, o))
<1> DEFINE t == Walk(f)[TLV_HDR_LEN]
           w == Walk(f)[o]
           v == Walk(f)[After(f, o)]
<1>1. /\ k \in 0 .. Len(t) /\ o \in 0 .. Len(f) /\ Len(t) = k + Len(w)
      /\ \A i \in 1 .. Len(w) : t[k + i] = w[i]
  BY DEF Passed
<1>2. /\ f[o + 1] \in Nat /\ f[o + 1 + 1] \in Nat /\ o \in Nat
      /\ After(f, o) \in o + 1 .. Len(f) /\ After(f, o) \in 0 .. Len(f)
  <2>1. /\ f[o + 1] \in Nat /\ f[o + 1 + 1] \in Nat /\ After(f, o) \in o + 1 .. Len(f)
    BY <1>1, AfterIsFurther
  <2>2. o \in Nat /\ Len(f) \in Nat  BY <1>1
  <2> QED  BY <2>1, <2>2
<1>3. TLV_HDR_LEN \in 0 .. Len(f)  BY SizesAssumption
<1>4. t \in Seq(ItemType) /\ w \in Seq(ItemType) /\ v \in Seq(ItemType)
  BY <1>1, <1>2, <1>3, WalkIsItems
<1>5. w = <<Item(f, o)>> \o v  BY <1>1, WalkFacts
<1>6. Item(f, o) \in ItemType  BY <1>2 DEF Item, ItemType, TLV_ITEM
<1>7. Item(f, o).at + Item(f, o).len = After(f, o)
  BY <1>2 DEF Item, After
<1> HIDE DEF t, w, v, Item, ItemType, After
<1>8. /\ Len(w) = 1 + Len(v) /\ w[1] = Item(f, o)
      /\ \A i \in 1 .. Len(v) : w[1 + i] = v[i]
  <2>1. <<Item(f, o)>> \in Seq(ItemType) /\ Len(<<Item(f, o)>>) = 1
        /\ <<Item(f, o)>>[1] = Item(f, o)
    BY <1>6
  <2>2. PICK u \in Seq(ItemType) : u = <<Item(f, o)>> /\ Len(u) = 1 /\ u[1] = Item(f, o)
    BY <2>1
  <2>3. /\ Len(u \o v) = Len(u) + Len(v)
        /\ \A i \in 1 .. Len(u) : (u \o v)[i] = u[i]
        /\ \A i \in Len(u) + 1 .. Len(u) + Len(v) : (u \o v)[i] = v[i - Len(u)]
    BY <1>4, ConcatProperties
  <2>4. Len(v) \in Nat  BY <1>4
  <2>5. \A i \in 1 .. Len(v) : 1 + i \in 1 + 1 .. 1 + Len(v) /\ (1 + i) - 1 = i  BY <2>4
  <2>6. 1 \in 1 .. 1  OBVIOUS
  <2> QED  BY <1>5, <2>2, <2>3, <2>5, <2>6
<1>9. Len(t) \in Nat /\ Len(w) \in Nat /\ Len(v) \in Nat /\ k \in Nat  BY <1>1, <1>4
<1>10. k + 1 \in 1 .. Len(t) /\ Len(t) = k + 1 + Len(v)  BY <1>1, <1>8, <1>9
<1>11. t[k + 1] = Item(f, o)
  <2>1. 1 \in 1 .. Len(w)  BY <1>8, <1>9
  <2> QED  BY <1>1, <1>8, <2>1
<1>12. \A i \in 1 .. Len(v) : t[k + 1 + i] = v[i]
  <2> SUFFICES ASSUME NEW i \in 1 .. Len(v) PROVE t[k + 1 + i] = v[i]
    OBVIOUS
  <2>1. 1 + i \in 1 .. Len(w) /\ k + (1 + i) = k + 1 + i  BY <1>8, <1>9
  <2> QED  BY <1>1, <1>8, <2>1
<1>13. k + 1 # 0 /\ k + 1 \in 0 .. Len(t)  BY <1>9, <1>10
<1>14. Passed(f, k + 1, After(f, o))
  BY <1>2, <1>7, <1>10, <1>11, <1>12, <1>13 DEF Passed, t, v
<1> QED  BY <1>10, <1>11, <1>14 DEF t

\* No TLV of this type among the first k.
NoneYet(f, k, type) == \A i \in 1 .. k : Walk(f)[TLV_HDR_LEN][i].type # type

\* OfType and First, of a frame.
Of(f, type)      == {i \in DOMAIN Walk(f)[TLV_HDR_LEN] : Walk(f)[TLV_HDR_LEN][i].type = type}
FirstOf(f, type) ==
  Walk(f)[TLV_HDR_LEN][CHOOSE i \in Of(f, type) : \A j \in Of(f, type) : i <= j]

LEMMA OfIs ==
  ASSUME NEW type
  PROVE  OfType(type) = Of(frame, type) /\ First(type) = FirstOf(frame, type)
<1>1. OfType(type) = Of(frame, type)  BY TlvsIsWalk DEF OfType, Of
<1> HIDE DEF Of
<1> QED  BY <1>1, TlvsIsWalk DEF First, FirstOf

LEMMA FirstIs ==
  ASSUME NEW f \in Seq(Nat), TLV_HDR_LEN <= Len(f), NEW k \in Nat, NEW type,
         k + 1 \in 1 .. Len(Walk(f)[TLV_HDR_LEN]),
         NoneYet(f, k, type), Walk(f)[TLV_HDR_LEN][k + 1].type = type
  PROVE  Of(f, type) # {} /\ FirstOf(f, type) = Walk(f)[TLV_HDR_LEN][k + 1]
<1> DEFINE t == Walk(f)[TLV_HDR_LEN]
<1>0. TLV_HDR_LEN \in 0 .. Len(f)  BY SizesAssumption
<1>1. DOMAIN t = 1 .. Len(t) /\ Len(t) \in Nat
  <2>1. t \in Seq(ItemType)  BY <1>0, WalkIsItems
  <2> QED  BY <2>1
<1>2. k + 1 \in Of(f, type)  BY <1>1 DEF Of
<1>3. \A j \in Of(f, type) : j \in Nat /\ k + 1 <= j
  <2> SUFFICES ASSUME NEW j \in Of(f, type) PROVE j \in Nat /\ k + 1 <= j
    OBVIOUS
  <2>1. j \in 1 .. Len(t) /\ t[j].type = type  BY <1>1 DEF Of
  <2>2. ~(j \in 1 .. k)  BY <2>1 DEF NoneYet
  <2> QED  BY <1>1, <2>1, <2>2
<1> DEFINE c == CHOOSE i \in Of(f, type) : \A j \in Of(f, type) : i <= j
<1>4. c \in Of(f, type) /\ \A j \in Of(f, type) : c <= j
  BY <1>2, <1>3
<1>5. FirstOf(f, type) = t[c]  BY DEF FirstOf
<1> HIDE DEF c
<1>6. c <= k + 1 /\ k + 1 <= c /\ c \in Nat  BY <1>2, <1>3, <1>4
<1>7. c = k + 1  BY <1>6
<1> QED  BY <1>2, <1>5, <1>7

LEMMA NoneIs ==
  ASSUME NEW f \in Seq(Nat), TLV_HDR_LEN <= Len(f), NEW k, NEW o, NEW type,
         Passed(f, k, o), Over(f, o), NoneYet(f, k, type)
  PROVE  Of(f, type) = {}
<1>0. TLV_HDR_LEN \in 0 .. Len(f)  BY SizesAssumption
<1>1. DOMAIN Walk(f)[TLV_HDR_LEN] = 1 .. Len(Walk(f)[TLV_HDR_LEN])
  <2>1. Walk(f)[TLV_HDR_LEN] \in Seq(ItemType)  BY <1>0, WalkIsItems
  <2> QED  BY <2>1
<1>2. k = Len(Walk(f)[TLV_HDR_LEN])  BY PassedAll
<1> QED  BY <1>1, <1>2 DEF Of, NoneYet

\* What tlv_find's tests come to.
LEMMA FindIsWalk ==
  ASSUME frame \in Seq(Nat), off \in Nat, off <= total, total <= TLV_MAX_FRAME
  PROVE  /\ (MoreTlvs => Truncated(At(off + 1))) <=> Over(frame, off)
         /\ MoreTlvs <=> off + TLV_ITEM <= total
         /\ ~Over(frame, off) => Onward(At(off + 1)) = After(frame, off)
         /\ At(off) = frame[off + 1] /\ At(off + 1) = frame[off + 1 + 1]
<1>0. total \in Nat /\ TLV_MAX_FRAME \in Nat /\ total = Len(frame)  BY SizesAssumption DEF total
<1>1. At(off) = frame[off + 1] /\ At(off + 1) = frame[off + 1 + 1]  BY DEF At
<1>2. MoreTlvs <=> off + TLV_ITEM <= total
  <2>1. (off + TLV_ITEM) % Word = off + TLV_ITEM  BY <1>0, NoWrap DEF TLV_ITEM
  <2> QED  BY <2>1 DEF MoreTlvs
<1>3. CASE ~(off + TLV_ITEM <= total)
  <2>1. off + TLV_ITEM > total  BY <1>0, <1>3 DEF TLV_ITEM
  <2> QED  BY <1>0, <1>1, <1>2, <1>3, <2>1 DEF Over
<1>4. CASE off + TLV_ITEM <= total
  <2>1. PICK v \in Nat : v = At(off + 1)  BY <1>0, <1>4, ByteOfFrame DEF TLV_ITEM
  <2>2. Over(frame, off) <=> off + TLV_ITEM + v > total
    BY <1>0, <1>1, <1>4, <2>1 DEF Over, TLV_ITEM
  <2>3. After(frame, off) = off + TLV_ITEM + v /\ Onward(At(off + 1)) = (off + TLV_ITEM + v) % Word
    BY <1>1, <2>1 DEF After, Onward
  <2>4. v <= total => (off + TLV_ITEM + v) % Word = off + TLV_ITEM + v
    <3> SUFFICES ASSUME v <= total PROVE (off + TLV_ITEM + v) % Word = off + TLV_ITEM + v
      OBVIOUS
    <3>1. off + TLV_ITEM + v \in Nat /\ off + TLV_ITEM + v <= 2 * TLV_MAX_FRAME + TLV_ITEM
      BY <1>0 DEF TLV_ITEM
    <3> QED  BY <3>1, NoWrap
  <2>5. Truncated(At(off + 1)) <=> v > total \/ (off + TLV_ITEM + v) % Word > total
    BY <2>1 DEF Truncated
  <2>6. v > total => off + TLV_ITEM + v > total  BY <1>0 DEF TLV_ITEM
  <2>7. ~(v > total) <=> v <= total  BY <1>0
  <2>8. ~(off + TLV_ITEM + v > total) => v <= total  BY <1>0 DEF TLV_ITEM
  <2> QED  BY <1>1, <1>2, <1>4, <2>2, <2>3, <2>4, <2>5, <2>6, <2>7, <2>8
<1> QED  BY <1>3, <1>4

\* The first TLV of this type is the one that was found.
TakenFirst(f, type, h) ==
  Of(f, type) # {} /\ FirstOf(f, type).at = h.at /\ FirstOf(f, type).len = h.len

\* Some TLVs have been passed, none of this type.
Walking(f, o, type) == \E k : Passed(f, k, o) /\ NoneYet(f, k, type)

\* SomeoneIn and HeadcountIsHonest, of a frame and a headcount.
Seen(f, at, len) ==
  \E z \in 0 .. MaxZones - 1 :
    /\ ZoneByte(z) < len
    /\ z < f[at + 1]
    /\ (f[at + ZoneByte(z) + 1] \div 4 ^ (z % 4)) % 4 # 0

CountOf(len, people) ==
  /\ TargetSize(len) = 0 => people = 0
  /\ TargetSize(len) # 0 =>
       \/ people <= RADAR_MAX_TARGETS /\ people * TargetSize(len) = len
       \/ people = RADAR_MAX_TARGETS /\ people * TargetSize(len) < len

Honest(f, isTracker, people) ==
  LET list == FirstOf(f, TLV_TARGET_LIST)
      zone == FirstOf(f, TLV_ENHANCED_PRESENCE)
  IN  /\ isTracker <=> Of(f, TLV_TARGET_LIST) # {}
      /\ isTracker => CountOf(list.len, people)
      /\ ~isTracker =>
           /\ people \in {0, 1}
           /\ people = 1 <=> Of(f, TLV_ENHANCED_PRESENCE) # {} /\ Seen(f, zone.at, zone.len)

\* Where the decoder is, in terms of the frame's TLVs.
WalkInv ==
  /\ dpc \in {"idle", "list", "targets", "presence", "zones", "report", "done"}
  /\ dpc # "idle" => TLV_HDR_LEN <= Len(frame) /\ Len(frame) <= TLV_MAX_FRAME
  /\ dpc \in {"idle", "list", "targets", "presence", "zones"} => tracker = FALSE /\ n = 0
  /\ dpc = "list" => Walking(frame, off, TLV_TARGET_LIST)
  /\ dpc = "targets" => TakenFirst(frame, TLV_TARGET_LIST, hit)
  /\ dpc \in {"presence", "zones"} => Of(frame, TLV_TARGET_LIST) = {}
  /\ dpc = "presence" => Walking(frame, off, TLV_ENHANCED_PRESENCE)
  /\ dpc = "zones" => TakenFirst(frame, TLV_ENHANCED_PRESENCE, hit)
  /\ dpc = "report" => Honest(frame, tracker, n)

LEMMA WalkInvSays ==
  ASSUME WalkInv
  PROVE  HeadcountIsHonest
<1>1. \A type : OfType(type) = Of(frame, type) /\ First(type) = FirstOf(frame, type)
  BY OfIs
<1>2. ASSUME NEW p PROVE SomeoneIn(p) <=> Seen(frame, p.at, p.len)
  BY Zenon DEF SomeoneIn, Seen, At
<1> HIDE DEF Seen
<1> SUFFICES ASSUME dpc = "report", Honest(frame, tracker, n) PROVE HeadcountIsHonest
  BY DEF WalkInv, HeadcountIsHonest
<1>3. tracker <=> OfType(TLV_TARGET_LIST) # {}
  BY <1>1, Zenon DEF Honest
<1>4. tracker => CountOf(First(TLV_TARGET_LIST).len, n)
  BY <1>1, Zenon DEF Honest
<1>5. ~tracker =>
        /\ n \in {0, 1}
        /\ n = 1 <=> /\ OfType(TLV_ENHANCED_PRESENCE) # {}
                     /\ SomeoneIn(First(TLV_ENHANCED_PRESENCE))
  BY <1>1, <1>2, Zenon DEF Honest
<1> QED  BY <1>3, <1>4, <1>5, Zenon DEF HeadcountIsHonest, CountOf

LEMMA WalkStarts ==
  ASSUME NEW f \in Seq(Nat), TLV_HDR_LEN <= Len(f), NEW type
  PROVE  Walking(f, TLV_HDR_LEN, type)
<1>1. NoneYet(f, 0, type)  BY DEF NoneYet
<1> QED  BY <1>1, PassedNone DEF Walking

\* tlv_find takes the first TLV of the type, or there is none.
LEMMA FindWalks ==
  ASSUME StreamInv, WalkInv, NEW type, Walking(frame, off, type),
         NEW pc \in {"list", "presence"}, NEW found \in {"targets", "zones"},
         NEW missed \in {"presence", "report"}, FindAt(type, pc, found, missed)
  PROVE  /\ UNCHANGED <<frame, tracker, n>>
         /\ \/ dpc' = dpc /\ Walking(frame, off', type)
            \/ dpc' = found /\ TakenFirst(frame, type, hit')
            \/ dpc' = missed /\ Of(frame, type) = {} /\ off' = TLV_HDR_LEN
<1> DEFINE ln == At(off + 1)
<1>1. /\ frame \in Seq(Nat) /\ off \in Nat /\ off <= total /\ total <= TLV_MAX_FRAME
      /\ TLV_HDR_LEN <= Len(frame) /\ UNCHANGED <<frame, tracker, n>>
  BY DEF FindAt, StreamInv, DecodeInv, total
<1>2. PICK k : Passed(frame, k, off) /\ NoneYet(frame, k, type)  BY DEF Walking
<1>3. k \in Nat  BY <1>2 DEF Passed
<1>4. /\ (MoreTlvs => Truncated(ln)) <=> Over(frame, off)
      /\ ~Over(frame, off) => Onward(ln) = After(frame, off)
      /\ At(off) = frame[off + 1] /\ ln = frame[off + 1 + 1]
  BY <1>1, FindIsWalk
<1> DEFINE t == Walk(frame)[TLV_HDR_LEN]
<1>5. ~Over(frame, off) => /\ k + 1 \in 1 .. Len(t)
                           /\ t[k + 1] = Item(frame, off)
                           /\ Passed(frame, k + 1, After(frame, off))
  BY <1>1, <1>2, PassedNext
<1>6. /\ Item(frame, off).type = At(off) /\ Item(frame, off).at = off + TLV_ITEM
      /\ Item(frame, off).len = ln
  BY <1>4 DEF Item
<1> HIDE DEF t, ln
<1>7. CASE MoreTlvs /\ ~Truncated(ln) /\ ~Matches(type) /\ off' = Onward(ln) /\ UNCHANGED dpc
  <2>1. t[k + 1].type # type  BY <1>4, <1>5, <1>6, <1>7 DEF Matches
  <2>2. \A i \in 1 .. k + 1 : i \in 1 .. k \/ i = k + 1  BY <1>3
  <2>3. NoneYet(frame, k + 1, type)  BY <1>2, <2>1, <2>2 DEF NoneYet, t
  <2> QED  BY <1>1, <1>4, <1>5, <1>7, <2>3 DEF Walking
<1>8. CASE /\ MoreTlvs /\ ~Truncated(ln) /\ Matches(type)
           /\ hit' = [at |-> off + TLV_ITEM, len |-> ln] /\ dpc' = found
  <2>1. ~Over(frame, off) /\ t[k + 1].type = type  BY <1>4, <1>5, <1>6, <1>8 DEF Matches
  <2>2. Of(frame, type) # {} /\ FirstOf(frame, type) = t[k + 1]
    BY <1>1, <1>2, <1>3, <1>5, <2>1, FirstIs DEF t
  <2>3. hit'.at = off + TLV_ITEM /\ hit'.len = ln  BY <1>8
  <2> QED  BY <1>1, <1>5, <1>6, <1>8, <2>1, <2>2, <2>3 DEF TakenFirst
<1>9. CASE (MoreTlvs => Truncated(ln)) /\ dpc' = missed /\ off' = TLV_HDR_LEN
  <2>1. Of(frame, type) = {}  BY <1>1, <1>2, <1>4, <1>9, NoneIs
  <2> QED  BY <1>1, <1>9, <2>1
<1> QED  BY <1>7, <1>8, <1>9 DEF FindAt, ln

\* What tlv_targets counts of the list that was found.
LEMMA TargetsCount ==
  ASSUME NEW len \in Nat
  PROVE  CountOf(len, Targets(len))
<1> DEFINE size == TargetSize(len)
           whole == len \div size
<1>1. size \in Nat /\ (size # 0 => len % size = 0)
  BY TargetSizesAssumption DEF TargetSize
<1>2. CASE size = 0
  BY <1>2 DEF CountOf, Targets
<1>3. CASE size # 0 /\ len = 0
  <2>1. Targets(len) = 0  BY <1>3 DEF Targets
  <2>2. 0 * size = 0  BY <1>1
  <2> QED  BY <1>3, <2>1, <2>2, RoomAssumption DEF CountOf
<1>4. CASE size # 0 /\ len # 0
  <2> HIDE DEF size
  <2>1. whole \in Nat /\ whole * size = len
    BY <1>1, <1>4, WholeExactly
  <2> HIDE DEF whole
  <2>2. Targets(len) = IF whole > RADAR_MAX_TARGETS THEN RADAR_MAX_TARGETS ELSE whole
    BY <1>4 DEF Targets, AtMost, whole, size
  <2>3. CASE whole > RADAR_MAX_TARGETS
    <3>1. RADAR_MAX_TARGETS * size < whole * size
      BY <1>1, <1>4, <2>1, <2>3, RoomAssumption, LessTimes
    <3> QED  BY <1>4, <2>1, <2>2, <2>3, <3>1 DEF CountOf, size
  <2>4. CASE ~(whole > RADAR_MAX_TARGETS)
    <3>1. whole <= RADAR_MAX_TARGETS  BY <2>1, <2>4, RoomAssumption
    <3> QED  BY <1>4, <2>1, <2>2, <2>4, <3>1 DEF CountOf, size
  <2> QED  BY <2>3, <2>4
<1> QED  BY <1>2, <1>3, <1>4

LEMMA TargetsHonest ==
  ASSUME NEW f, NEW h, h.len \in Nat, TakenFirst(f, TLV_TARGET_LIST, h)
  PROVE  Honest(f, TRUE, Targets(h.len))
<1>1. CountOf(h.len, Targets(h.len))  BY TargetsCount
<1> HIDE DEF Targets, CountOf
<1> QED  BY <1>1 DEF Honest, TakenFirst

\* What is made of the zones, or without any.
LEMMA ZonesHonest ==
  ASSUME NEW people \in {0, 1}, Of(frame, TLV_TARGET_LIST) = {},
         TakenFirst(frame, TLV_ENHANCED_PRESENCE, hit),
         people = 1 <=> Seen(frame, hit.at, hit.len)
  PROVE  Honest(frame, FALSE, people)
BY Zenon DEF Honest, TakenFirst

LEMMA NobodyHonest ==
  ASSUME Of(frame, TLV_TARGET_LIST) = {}, Of(frame, TLV_ENHANCED_PRESENCE) = {}
  PROVE  Honest(frame, FALSE, 0)
<1>1. 0 # 1  OBVIOUS
<1> QED  BY <1>1, Zenon DEF Honest

\* tlv_presence looks at the zones its payload carries, and at no others.
LEMMA ZonesSeen ==
  ASSUME DecodeInv, dpc = "zones"
  PROVE  (\E z \in 0 .. Zones - 1 : ZoneState(z) # 0) <=> Seen(frame, hit.at, hit.len)
<1>1. /\ frame \in Seq(Nat) /\ hit.at \in Nat /\ hit.len \in Nat
      /\ hit.at + hit.len <= Len(frame)
  BY DEF DecodeInv, total
<1>2. PICK l \in Nat : l = hit.len  BY <1>1
<1>3. \A z \in Nat : ZoneByte(z) \in Nat /\ ZoneByte(z) >= 1  BY DEF ZoneByte
<1>4. CASE l < 2
  <2>1. ~\E z \in 0 .. Zones - 1 : ZoneState(z) # 0
    <3>1. Zones = 0  BY <1>2, <1>4 DEF Zones
    <3>2. 0 .. 0 - 1 = {}  OBVIOUS
    <3> QED  BY <3>1, <3>2
  <2>2. ~Seen(frame, hit.at, hit.len)
    <3> SUFFICES ASSUME NEW z \in 0 .. MaxZones - 1, ZoneByte(z) < l PROVE FALSE
      BY <1>2 DEF Seen
    <3>1. z \in Nat  BY RoomAssumption
    <3> QED  BY <1>3, <1>4, <3>1 DEF ZoneByte
  <2> QED  BY <2>1, <2>2
<1>5. CASE ~(l < 2)
  <2>1. PICK a \in Nat : a = hit.at  BY <1>1
  <2>2. a + 1 \in 1 .. Len(frame)
    <3>1. \A p, q, h \in Nat : p + q <= h /\ ~(q < 2) => p + 1 \in 1 .. h  OBVIOUS
    <3>2. Len(frame) \in Nat  BY <1>1
    <3>3. a + l <= Len(frame)  BY <1>1, <1>2, <2>1
    <3> QED  BY <1>5, <3>1, <3>2, <3>3
  <2>3. frame[a + 1] \in Nat  BY <1>1, <2>2
  <2>4. PICK c \in Nat : c = frame[a + 1]  BY <2>3
  <2>5. Zones = AtMost(c, MaxZones)  BY <1>2, <1>5, <2>1, <2>4 DEF Zones, At
  <2>6. \A z : z \in 0 .. Zones - 1 <=> z \in 0 .. MaxZones - 1 /\ z < c
    BY <2>5, RoomAssumption DEF AtMost
  <2>7. ASSUME NEW z
        PROVE  ZoneState(z) # 0 <=>
                 /\ ZoneByte(z) < hit.len
                 /\ (frame[hit.at + ZoneByte(z) + 1] \div 4 ^ (z % 4)) % 4 # 0
    BY Zenon DEF ZoneState, At
  <2> HIDE DEF ZoneState, ZoneByte, Zones
  <2>8. c = frame[hit.at + 1]  BY <2>1, <2>4
  <2> QED  BY <2>6, <2>7, <2>8, Zenon DEF Seen
<1> QED  BY <1>4, <1>5

LEMMA WalkInvKeeps ==
  ASSUME StreamInv, DecodeTypeOK, WalkInv, [StreamNext]_streamVars
  PROVE  WalkInv'
<1>0. frame \in Seq(Nat) /\ off \in Nat /\ hit.len \in Nat  BY DEF StreamInv, DecodeInv
<1>1. CASE UNCHANGED decodeVars
  <2>1. UNCHANGED <<dpc, frame, off, hit, tracker, n>>  BY <1>1 DEF decodeVars
  <2> QED  BY <2>1 DEF WalkInv
<1>2. CASE \E num_tlvs \in 0 .. MaxTlvs : complete /\ on_frame(buf, num_tlvs)
  <2>1. Framed(buf) /\ buf \in Seq(Nat)
    BY <1>2, CompleteIsFramed DEF StreamInv, ReasmInv, BytesOK
  <2>2. /\ dpc = "idle" /\ dpc' = "list" /\ frame' = buf /\ off' = TLV_HDR_LEN
        /\ UNCHANGED <<tracker, n>>
    BY <1>2 DEF on_frame
  <2>3. TLV_HDR_LEN <= Len(buf) /\ Len(buf) <= TLV_MAX_FRAME
    BY <2>1, SizesAssumption DEF Framed
  <2>4. Walking(buf, TLV_HDR_LEN, TLV_TARGET_LIST)  BY <2>1, <2>3, WalkStarts
  <2> QED  BY <2>2, <2>3, <2>4 DEF WalkInv
<1>3. CASE tlv_find
  <2>0. TLV_HDR_LEN <= Len(frame) /\ Len(frame) <= TLV_MAX_FRAME /\ tracker = FALSE /\ n = 0
    BY <1>3 DEF tlv_find, FindAt, WalkInv
  <2>1. CASE FindAt(TLV_TARGET_LIST, "list", "targets", "presence")
    <3>1. dpc = "list"  BY <2>1 DEF FindAt
    <3>2. /\ UNCHANGED <<frame, tracker, n>>
          /\ \/ dpc' = dpc /\ Walking(frame, off', TLV_TARGET_LIST)
             \/ dpc' = "targets" /\ TakenFirst(frame, TLV_TARGET_LIST, hit')
             \/ dpc' = "presence" /\ Of(frame, TLV_TARGET_LIST) = {} /\ off' = TLV_HDR_LEN
      BY <2>1, <3>1, FindWalks DEF WalkInv
    <3>3. Walking(frame, TLV_HDR_LEN, TLV_ENHANCED_PRESENCE)  BY <1>0, <2>0, WalkStarts
    <3> QED  BY <2>0, <3>1, <3>2, <3>3 DEF WalkInv
  <2>2. CASE FindAt(TLV_ENHANCED_PRESENCE, "presence", "zones", "report")
    <3>1. dpc = "presence"  BY <2>2 DEF FindAt
    <3>2. /\ UNCHANGED <<frame, tracker, n>>
          /\ \/ dpc' = dpc /\ Walking(frame, off', TLV_ENHANCED_PRESENCE)
             \/ dpc' = "zones" /\ TakenFirst(frame, TLV_ENHANCED_PRESENCE, hit')
             \/ dpc' = "report" /\ Of(frame, TLV_ENHANCED_PRESENCE) = {} /\ off' = TLV_HDR_LEN
      BY <2>2, <3>1, FindWalks DEF WalkInv
    <3>3. Of(frame, TLV_TARGET_LIST) = {}  BY <3>1 DEF WalkInv
    <3>4. Of(frame, TLV_ENHANCED_PRESENCE) = {} => Honest(frame, FALSE, 0)
      BY <3>3, NobodyHonest
    <3> QED  BY <2>0, <3>1, <3>2, <3>3, <3>4 DEF WalkInv
  <2> QED  BY <1>3, <2>1, <2>2 DEF tlv_find
<1>4. ASSUME NEW isTracker, NEW people, Count(isTracker, people), Honest(frame, isTracker, people),
             dpc \in {"targets", "zones"}
      PROVE  WalkInv'
  <2>1. dpc' = "report" /\ frame' = frame /\ tracker' = isTracker /\ n' = people
    BY <1>4 DEF Count
  <2>2. TLV_HDR_LEN <= Len(frame) /\ Len(frame) <= TLV_MAX_FRAME  BY <1>4 DEF WalkInv
  <2> QED  BY <1>4, <2>1, <2>2 DEF WalkInv
<1>5. CASE tlv_targets
  <2>1. dpc = "targets" /\ Count(TRUE, Targets(hit.len))  BY <1>5 DEF tlv_targets
  <2>2. Honest(frame, TRUE, Targets(hit.len))  BY <1>0, <2>1, TargetsHonest DEF WalkInv
  <2> QED  BY <1>4, <2>1, <2>2
<1>6. CASE tlv_presence
  <2> DEFINE seen == \E z \in 0 .. Zones - 1 : ZoneState(z) # 0
             people == IF seen THEN 1 ELSE 0
  <2>1. dpc = "zones" /\ Count(FALSE, people)  BY <1>6 DEF tlv_presence
  <2>2. Of(frame, TLV_TARGET_LIST) = {} /\ TakenFirst(frame, TLV_ENHANCED_PRESENCE, hit)
    BY <2>1 DEF WalkInv
  <2>3. seen <=> Seen(frame, hit.at, hit.len)
    BY <2>1, ZonesSeen DEF StreamInv
  <2>4. CASE seen
    <3>1. Honest(frame, FALSE, 1)  BY <2>2, <2>3, <2>4, ZonesHonest
    <3>2. Count(FALSE, 1)  BY <2>1, <2>4
    <3> QED  BY <1>4, <2>1, <3>1, <3>2
  <2>5. CASE ~seen
    <3>0. 0 \in {0, 1} /\ (0 = 1 <=> Seen(frame, hit.at, hit.len))  BY <2>3, <2>5
    <3>1. Honest(frame, FALSE, 0)  BY <2>2, <3>0, ZonesHonest
    <3>2. Count(FALSE, 0)  BY <2>1, <2>5
    <3> QED  BY <1>4, <2>1, <3>1, <3>2
  <2> QED  BY <2>4, <2>5
<1>7. CASE Report
  <2>1. dpc = "report" /\ dpc' \in {"report", "done"} /\ UNCHANGED <<frame, tracker, n>>
    BY <1>7 DEF Report
  <2> QED  BY <2>1 DEF WalkInv
<1>8. CASE Return
  BY <1>8 DEF Return, WalkInv
<1> QED  BY <1>1, <1>2, <1>3, <1>5, <1>6, <1>7, <1>8
   DEF StreamNext, streamVars, Receive, Decode, DecodeStep, FrameDone, Configure, Listen, Configured

-----------------------------------------------------------------------------
\* Whatever lengths a frame claims, tlv_find (tlv.c:92-104), tlv_targets and
\* tlv_presence read within it: 2 * TLV_MAX_FRAME is far below the width of an
\* offset, and a length is compared with the frame before it is added to one.
THEOREM StreamWalkStaysInside == StreamSpec => []WalkStaysInside
<1>1. StreamInv => WalkStaysInside
  <2> SUFFICES ASSUME StreamInv, NEW c \in ReadsNow PROVE c \in 0 .. total - 1
    BY DEF WalkStaysInside
  <2>1. total \in Nat /\ off \in Nat /\ hit.at \in Nat /\ hit.len \in Nat
    BY DEF StreamInv, DecodeInv, total
  <2>2. CASE dpc \in {"list", "presence"}
    <3>1. MoreTlvs /\ c \in off .. off + TLV_ITEM - 1
      BY <2>2 DEF ReadsNow
    <3>2. (off + TLV_ITEM) % Word = off + TLV_ITEM
      BY <2>1, <2>2, NoWrap, SizesAssumption DEF StreamInv, DecodeInv, TLV_ITEM
    <3>3. off + TLV_ITEM <= total
      BY <3>1, <3>2 DEF MoreTlvs
    <3> QED BY <2>1, <3>1, <3>3 DEF TLV_ITEM
  <2>3. CASE dpc = "targets"
    <3> DEFINE cells == Targets(hit.len) * TargetSize(hit.len)
    <3>1. c \in hit.at .. hit.at + cells - 1
      BY <2>3 DEF ReadsNow
    <3>2. cells \in Nat /\ cells <= hit.len
      BY <2>1, TargetsFit
    <3> HIDE DEF cells
    <3>3. hit.at + hit.len <= total
      BY <2>3 DEF StreamInv, DecodeInv
    <3> QED BY <2>1, <3>1, <3>2, <3>3
  <2>4. CASE dpc = "zones"
    <3>1. PICK j \in {0} \cup {ZoneByte(z) : z \in 0 .. MaxZones - 1} : j < hit.len /\ c = hit.at + j
      BY <2>4 DEF ReadsNow
    <3>2. j \in Nat
      BY RoomAssumption DEF ZoneByte
    <3>3. hit.at + hit.len <= total
      BY <2>4 DEF StreamInv, DecodeInv
    <3> QED BY <2>1, <3>1, <3>2, <3>3
  <2>5. CASE dpc \notin {"list", "presence", "targets", "zones"}
    BY <2>5 DEF ReadsNow
  <2> QED BY <2>2, <2>3, <2>4, <2>5
<1> QED BY <1>1, StreamStart, StreamStep, PTL DEF StreamSpec

\* tlv_find returns: each TLV it passes takes it further within the frame.
THEOREM StreamWalkAdvances == StreamSpec => []WalkAdvances
<1>1. StreamInv => WalkAdvances
  <2> SUFFICES ASSUME StreamInv, dpc \in {"list", "presence"}, MoreTlvs, ~Truncated(At(off + 1))
               PROVE  Onward(At(off + 1)) \in off + 1 .. total
    BY DEF WalkAdvances
  <2>1. /\ At(off + 1) \in Nat /\ off \in Nat /\ total \in Nat
        /\ off + TLV_ITEM + At(off + 1) <= total
        /\ Onward(At(off + 1)) = off + TLV_ITEM + At(off + 1)
    BY TlvFits DEF StreamInv, DecodeInv, total
  <2> QED BY <2>1 DEF TLV_ITEM
<1> QED BY <1>1, StreamStart, StreamStep, PTL DEF StreamSpec

\* The thread's state keeps to its types: an offset and a length within their
\* width, a headcount within tgt[] and a reply within buf (radar.c:307-347,
\* 424-470), whatever the sensor sends.
THEOREM StreamTypes == StreamSpec => []StreamTypeOK
<1> DEFINE AllInv == StreamInv /\ CliInv /\ QueuesOK /\ DecodeTypeOK
<1>1. StreamInit => AllInv
  <2> SUFFICES ASSUME StreamInit PROVE AllInv
    OBVIOUS
  <2>1. QueuesOK  BY DEF StreamInit, Init, QueuesOK
  <2>2. 0 \in Byte /\ 0 \in 0 .. RADAR_MAX_TARGETS /\ 0 \in 0 .. MaxTlvs
    BY SizesBelowWidth, RoomAssumption DEF Byte
  <2>3. DecodeTypeOK
    BY <2>2, EmptyIsBytes DEF StreamInit, DecodeInit, DecodeTypeOK, NoHit, Hit
  <2> QED  BY <2>1, <2>3, StreamStart, CliStart
<1>2. AllInv /\ [StreamNext]_streamVars => AllInv'
  BY StreamStep, CliKeeps, QueuesKeep, DecodeTypesKeep, StreamIsReasm DEF StreamInv
<1>3. AllInv => StreamTypeOK
  BY DEF StreamInv, ReasmInv, BytesOK, QueuesOK, CliInv, StreamTypeOK, TypeOK
<1> QED  BY <1>1, <1>2, <1>3, PTL DEF StreamSpec

\* radar.c:269.  cli_wait returns 1 only after "Done" among the bytes it took off
\* the ring in this very wait, however the buffer slid over them.
THEOREM StreamDoneIsHeard == StreamSpec => []DoneIsHeard
<1>1. CliInv => DoneIsHeard  BY DEF CliInv
<1> QED  BY <1>1, StreamStart, CliStart, StreamStep, CliKeeps, PTL DEF StreamSpec

\* radar.c:335-336.  A token that no 0 hides is noticed with its last byte,
\* wherever the slides of the buffer fall: "Done" is remembered, and the prompt
\* ends the wait at once.
THEOREM StreamRepliesAreHeard == StreamSpec => []RepliesAreHeard
<1>1. CliInv => RepliesAreHeard  BY DEF CliInv
<1> QED  BY <1>1, StreamStart, CliStart, StreamStep, CliKeeps, PTL DEF StreamSpec

LEMMA WalkInvHolds == StreamSpec => [](StreamInv /\ DecodeTypeOK /\ WalkInv)
<1>1. StreamInit => DecodeTypeOK /\ WalkInv
  <2> SUFFICES ASSUME DecodeInit PROVE DecodeTypeOK /\ WalkInv
    BY DEF StreamInit
  <2>1. 0 \in Byte /\ 0 \in 0 .. RADAR_MAX_TARGETS /\ 0 \in 0 .. MaxTlvs
    BY SizesBelowWidth, RoomAssumption DEF Byte
  <2>2. DecodeTypeOK
    BY <2>1, EmptyIsBytes DEF DecodeInit, DecodeTypeOK, NoHit, Hit
  <2>3. WalkInv  BY DEF DecodeInit, WalkInv
  <2> QED  BY <2>2, <2>3
<1>2. StreamInv /\ DecodeTypeOK /\ WalkInv /\ [StreamNext]_streamVars => DecodeTypeOK' /\ WalkInv'
  BY DecodeTypesKeep, WalkInvKeeps
<1> QED  BY <1>1, <1>2, StreamStart, StreamStep, PTL DEF StreamSpec

\* radar.h:16-17, radar.c:434-435.  For every frame the reassembler can give out,
\* whatever it claims of itself, the headcount is the one its TLVs determine: the
\* whole targets of its first target list, up to what tgt[] holds, or else 1 or 0
\* as its first presence TLV has a zone that is not empty or has none.
THEOREM StreamHeadcountIsHonest == StreamSpec => []HeadcountIsHonest
BY WalkInvHolds, WalkInvSays, PTL

\* The reassembler's promises hold in the thread that uses it as they do alone.
THEOREM StreamFramesAreFramed == StreamSpec => []FramesAreFramed
<1>1. StreamSpec => Spec
  BY StreamIsReasm, PTL DEF StreamSpec, StreamInit, Spec
<1> QED BY <1>1, ReasmFramesAreFramed, PTL

\* What the reassembler makes of a stream with and without losses holds with the
\* decoder and the CLI beside it, which share its buffer and its bytes
\* (radar.c:557-579).
THEOREM StreamReassembles ==
  ASSUME FramesFit
  PROVE  StreamSpec => [](BufferFits /\ LosslessIsExact /\ ResyncsWithinMaxFrame)
<1>1. StreamSpec => Spec
  BY StreamIsReasm, PTL DEF StreamSpec, StreamInit, Spec
<1> QED BY <1>1, ReasmBufferFits, LosslessIsWhole, LossesResync, PTL
=============================================================================
