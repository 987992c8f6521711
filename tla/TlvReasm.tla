------------------------------ MODULE TlvReasm ------------------------------
(***************************************************************************)
(* The streaming reassembler of src/tlv.c with the loop of src/radar.c's    *)
(* radar_thread around it: bytes come off the uart ring, tlv_push takes     *)
(* them one at a time, and a complete frame is handed to on_frame before    *)
(* tlv_reset.                                                               *)
(*                                                                          *)
(* The sender is the radar: whole frames, back to back, each starting with  *)
(* the magic word and carrying its length in the header.  Between the two   *)
(* the ring may overrun and lose bytes.                                     *)
(***************************************************************************)
EXTENDS TlvFormat

CONSTANTS
  Payloads,        \* payloads the radar sends
  MaxFrames,       \* bound: frames sent
  MaxLoss          \* bound: bytes lost to ring overruns

ASSUME PayloadsAssumption == Payloads \subseteq Seq(Nat)
ASSUME BoundsAssumption == MaxFrames \in Nat /\ MaxLoss \in Nat

VARIABLES
  buf,       \* the bytes collected; r->len is its length
  want,      \* full frame length once the header is in, else 0
  match,     \* magic bytes matched so far while hunting
  complete,  \* tlv_push returned 1 and tlv_reset has not come yet
  wire,      \* the rest of the frame that is being sent
  sent,      \* frames begun, each with what it was
  hurt,      \* frames that lost a byte
  lost,      \* bytes lost so far
  clear,     \* bytes of whole frames sent since one was hurt, this one left out
  got        \* frames handed to on_frame

reasm == <<buf, want, match, complete>>
vars  == <<reasm, wire, sent, hurt, lost, clear, got>>

Collected == Len(buf)

TypeOK ==
  /\ buf \in Seq(Nat)
  /\ want \in Nat
  /\ match \in 0 .. TLV_MAGIC_LEN - 1
  /\ complete \in BOOLEAN
  /\ wire \in Seq(Nat) /\ sent \in Seq(Seq(Nat)) /\ got \in Seq(Seq(Nat))
  /\ hurt \subseteq Nat
  /\ lost \in Nat /\ clear \in Nat

-----------------------------------------------------------------------------
(* The radar.                                                              *)

\* A frame with this payload, a header like the SDK's.
FrameOf(payload) ==
  LET total == TLV_HDR_LEN + Len(payload) IN
  [i \in 1 .. total |->
     IF i <= TLV_MAGIC_LEN THEN tlv_magic[i]
     ELSE IF i = LEN_AT THEN total
     ELSE IF i <= TLV_HDR_LEN THEN 0
     ELSE payload[i - TLV_HDR_LEN]]

Init ==
  /\ buf = <<>> /\ want = 0 /\ match = 0 /\ complete = FALSE
  /\ wire = <<>> /\ sent = <<>> /\ hurt = {} /\ lost = 0 /\ clear = 0
  /\ got = <<>>

Last == sent[Len(sent)]

Whole(k) == k \notin hurt

SendFrame(payload) ==
  /\ wire = <<>>
  /\ Len(sent) < MaxFrames
  /\ wire' = FrameOf(payload)
  /\ sent' = Append(sent, FrameOf(payload))
  /\ clear' = IF sent # <<>> /\ Whole(Len(sent)) THEN clear + Len(Last) ELSE 0
  /\ UNCHANGED <<reasm, hurt, lost, got>>

\* uart_isr: the ring is full and the byte is dropped.
LoseByte ==
  /\ wire # <<>>
  /\ lost < MaxLoss
  /\ wire' = Tail(wire)
  /\ lost' = lost + 1
  /\ hurt' = hurt \cup {Len(sent)}
  /\ UNCHANGED <<reasm, sent, clear, got>>

-----------------------------------------------------------------------------
(* tlv_push.                                                               *)

\* Mutant: a byte that breaks the match is not looked at again.
Rematch_Blind(byte) == 0

\* The byte that broke the match may itself begin a new one.
Rematch(byte) == IF byte = tlv_magic[1] THEN 1 ELSE 0

\* Mutant: the matcher is not rewound when the magic word is complete.
Hunt_NoRewind(byte) ==
  IF byte # tlv_magic[match + 1]
    THEN match' = Rematch(byte) /\ UNCHANGED <<buf, want, complete>>
    ELSE /\ match' = match + 1
         /\ buf' = IF match + 1 = TLV_MAGIC_LEN THEN tlv_magic ELSE buf
         /\ UNCHANGED <<want, complete>>

Hunt(byte) ==
  IF byte # tlv_magic[match + 1]
    THEN match' = Rematch(byte) /\ UNCHANGED <<buf, want, complete>>
    ELSE IF match + 1 = TLV_MAGIC_LEN
      THEN buf' = tlv_magic /\ want' = 0 /\ match' = 0 /\ UNCHANGED complete
      ELSE match' = match + 1 /\ UNCHANGED <<buf, want, complete>>

tlv_reset == buf' = <<>> /\ want' = 0 /\ match' = 0

\* Mutant: only a length that is too short is bogus.
Bogus_NoMax(total) == total < TLV_HDR_LEN

\* A length no frame has: resync on the next magic.
Bogus(total) == total < TLV_HDR_LEN \/ total > TLV_MAX_FRAME

\* Mutant: a frame is complete one byte early.
FrameIsIn_Early(n, total) == n >= total - 1

FrameIsIn(n, total) == n >= total

\* Append the byte; when the header is in, take the length from it.
Collect(byte) ==
  LET b     == Append(buf, byte)
      total == IF want = 0 /\ Len(b) >= TLV_HDR_LEN THEN b[LEN_AT] ELSE want
  IN  IF want = 0 /\ Len(b) < TLV_HDR_LEN
        THEN buf' = b /\ UNCHANGED <<want, match, complete>>
      ELSE IF want = 0 /\ Bogus(total)
        THEN tlv_reset /\ UNCHANGED complete
      ELSE IF FrameIsIn(Len(b), total)
        THEN buf' = b /\ want' = 0 /\ complete' = TRUE /\ UNCHANGED match
        ELSE buf' = b /\ want' = total /\ UNCHANGED <<match, complete>>

\* One byte off the ring into tlv_push.
tlv_push ==
  /\ ~complete
  /\ wire # <<>>
  /\ wire' = Tail(wire)
  /\ IF buf = <<>> THEN Hunt(Head(wire)) ELSE Collect(Head(wire))
  /\ UNCHANGED <<sent, hurt, lost, clear, got>>

\* Mutant: the caller goes on without tlv_reset.
TakeFrame_NoReset ==
  /\ complete
  /\ got' = Append(got, buf)
  /\ complete' = FALSE
  /\ UNCHANGED <<buf, want, match, wire, sent, hurt, lost, clear>>

\* radar_thread: on_frame(re.buf), then tlv_reset.
TakeFrame ==
  /\ complete
  /\ got' = Append(got, buf)
  /\ tlv_reset
  /\ complete' = FALSE
  /\ UNCHANGED <<wire, sent, hurt, lost, clear>>

\* The thread finds the sensor silent, and resets the reassembler once it has
\* configured it again; the frame being sent is lost with the sensor's reset.
Restart ==
  /\ ~complete
  /\ wire # <<>>
  /\ wire' = <<>>
  /\ lost < MaxLoss
  /\ lost' = lost + 1
  /\ hurt' = hurt \cup {Len(sent)}
  /\ tlv_reset
  /\ UNCHANGED <<complete, sent, clear, got>>

Next ==
  \/ \E payload \in Payloads : SendFrame(payload)
  \/ LoseByte
  \/ tlv_push
  \/ TakeFrame
  \/ Restart

Spec == Init /\ [][Next]_vars

-----------------------------------------------------------------------------
(* What is claimed of the reassembler.                                     *)

\* The buffer is never written past its end: the length in the header is
\* believed only up to TLV_MAX_FRAME, and a complete frame is taken away
\* before the next byte.
BufferFits ==
  /\ Collected <= TLV_MAX_FRAME
  /\ ~complete /\ want # 0 => Collected < want /\ want <= TLV_MAX_FRAME
  /\ ~complete /\ want = 0 => Collected < TLV_HDR_LEN

\* A frame that on_frame sees is as long as its own header says, so every
\* offset tlv_find derives from that length lies inside the buffer.
FramesAreFramed == \A i \in 1 .. Len(got) : Framed(got[i])

\* The magic word is nowhere in the frame but at its beginning.
Plain(frame) ==
  ~\E i \in 1 .. Len(frame) - TLV_MAGIC_LEN :
     \A j \in 1 .. TLV_MAGIC_LEN : frame[i + j] = tlv_magic[j]

\* tlv.h:23-25, 47-49.  While the magic word is nowhere but at the beginning of
\* a frame, a loss does not desynchronise the stream for longer than the largest
\* frame: once that many bytes of whole frames have passed, less the magic word
\* that began it all, each frame that arrives whole is handed on or about to be,
\* although nothing but the length tells where a frame ends, and a damaged one
\* may claim any.
ResyncsWithinMaxFrame ==
  /\ \A k \in 1 .. Len(sent) : Plain(sent[k])
  /\ sent # <<>> /\ Whole(Len(sent)) /\ wire = <<>>
  /\ clear + TLV_MAGIC_LEN >= TLV_MAX_FRAME
  => IF complete THEN buf = Last ELSE got # <<>> /\ got[Len(got)] = Last

\* tlv.h:47-49.  Without a loss, exactly the frames sent come out, in order and
\* once each, even if a payload contains the magic word.
LosslessIsExact ==
  hurt = {} /\ wire = <<>> /\ ~complete => got = sent
=============================================================================
