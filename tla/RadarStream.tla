----------------------------- MODULE RadarStream -----------------------------
(***************************************************************************)
(* The bytes of the radar thread, from the uart ring to a headcount:        *)
(* radar_thread of src/radar.c composes the reassembler (TlvReasm), the     *)
(* decoder (TlvDecode) and the CLI (CliWait).  It runs one of them at a     *)
(* time: a complete frame is decoded in the reassembler's own buffer before *)
(* the next byte is pushed, and while the sensor is configured again the    *)
(* CLI takes the bytes off the ring.  The interrupt goes on losing bytes    *)
(* while a frame is decoded.                                                *)
(*                                                                         *)
(* A restart is one cli_wait here; it stands for each of those of           *)
(* radar_configure, which all start from nothing.  What it hears is the end *)
(* of the frame that was on the line, undrained, and then a reply.          *)
(***************************************************************************)
EXTENDS TlvReasm, TlvDecode, CliWait

CONSTANT Replies   \* what the sensor may answer, sequences of bytes

ASSUME RepliesAssumption == Replies \subseteq Seq(Nat)

streamVars == <<vars, decodeVars, cliVars>>

StreamTypeOK == TypeOK /\ DecodeTypeOK /\ CliTypeOK

StreamInit == Init /\ DecodeInit /\ CliInit

\* The radar and the ring, and tlv_push on what came through.
Receive ==
  /\ cliPc = "off"
  /\ \/ \E payload \in Payloads : SendFrame(payload)
     \/ LoseByte
     \/ tlv_push
  /\ UNCHANGED <<decodeVars, cliVars>>

Decode ==
  /\ \/ complete /\ \E num_tlvs \in 0 .. MaxTlvs : on_frame(buf, num_tlvs)
     \/ DecodeStep
  /\ UNCHANGED <<vars, cliVars>>

\* on_frame returns, and tlv_reset makes room for the next frame.
FrameDone == Return /\ TakeFrame /\ UNCHANGED cliVars

\* Ten seconds without a frame: the sensor is configured again.  What is left of
\* its frame comes after the drain, or came before it; a part of it is what was
\* left a little later.
Configure ==
  /\ ~complete /\ wire # <<>> /\ lost < MaxLoss
  /\ \E undrained \in {wire, <<>>}, reply \in Replies : cli_line(undrained \o reply)
  /\ UNCHANGED <<vars, decodeVars>>

Listen == (cli_wait \/ CliTimeout) /\ UNCHANGED <<vars, decodeVars>>

Configured == CliReturn /\ Restart /\ UNCHANGED decodeVars

StreamNext ==
  \/ Receive
  \/ Decode
  \/ FrameDone
  \/ Configure
  \/ Listen
  \/ Configured

StreamSpec == StreamInit /\ [][StreamNext]_streamVars
=============================================================================
