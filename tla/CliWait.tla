------------------------------- MODULE CliWait -------------------------------
(***************************************************************************)
(* cli_wait of src/radar.c, which reads the radar's reply to a line byte by *)
(* byte into a small buffer, looks for "Done" and for the prompt with       *)
(* strstr, and slides the buffer when it is full.  The reply comes on a     *)
(* line that may still carry the radar's binary stream, and a byte 0 in the *)
(* buffer ends the string that strstr sees.                                 *)
(*                                                                         *)
(* Time is left out: the wait may run out between any two bytes.  What is   *)
(* kept of the bytes for a print (cli_rx_head and its kin) is left out too. *)
(***************************************************************************)
EXTENDS Integers, Sequences

CONSTANTS
  DONE, RADAR_PROMPT,   \* the two tokens, sequences of bytes
  CLI_BUF,              \* sizeof(buf), the terminating 0 included
  CLI_KEEP              \* what a slide keeps

ASSUME TokensAssumption ==
  \A token \in {DONE, RADAR_PROMPT} :
    /\ token \in Seq(Nat \ {0}) /\ token # <<>>
    /\ Len(token) <= CLI_KEEP
ASSUME CliSizesAssumption ==
  CLI_BUF \in Nat /\ CLI_KEEP \in Nat /\ CLI_KEEP < CLI_BUF - 1

VARIABLES
  cliPc,     \* "off", "wait", or "back": about to return
  cliBuf,    \* buf, its last fill bytes
  cliDone,   \* what it will return
  line,      \* bytes that are still to come
  heard      \* bytes of this wait so far

cliVars == <<cliPc, cliBuf, cliDone, line, heard>>

CliTypeOK ==
  /\ cliPc \in {"off", "wait", "back"}
  /\ cliBuf \in Seq(Nat) /\ Len(cliBuf) < CLI_BUF
  /\ cliDone \in BOOLEAN
  /\ line \in Seq(Nat) /\ heard \in Seq(Nat)

EndsWith(s, token) ==
  Len(token) <= Len(s) /\ SubSeq(s, Len(s) - Len(token) + 1, Len(s)) = token

Holds(s, token) == \E e \in 0 .. Len(s) : EndsWith(SubSeq(s, 1, e), token)

\* Bytes up to a 0 are the string.
strstr(s, token) ==
  \E e \in 0 .. Len(s) :
    /\ \A i \in 1 .. e : s[i] # 0
    /\ EndsWith(SubSeq(s, 1, e), token)

-----------------------------------------------------------------------------
CliInit ==
  /\ cliPc = "off" /\ cliBuf = <<>> /\ cliDone = FALSE
  /\ line = <<>> /\ heard = <<>>

\* cli_line: the ring is drained, the line is written, and these bytes follow.
cli_line(bytes) ==
  /\ cliPc = "off"
  /\ cliPc' = "wait"
  /\ line' = bytes
  /\ UNCHANGED <<cliBuf, cliDone, heard>>

\* Mutant: a reply is taken for good when it came to a prompt.
DoneSeen_AtPrompt(s) == cliDone \/ strstr(s, RADAR_PROMPT)

DoneSeen(s) == cliDone \/ strstr(s, DONE)

\* Mutant: a full buffer is emptied.
Slide_Empties(s) == IF Len(s) >= CLI_BUF - 1 THEN <<>> ELSE s

Slide(s) ==
  IF Len(s) >= CLI_BUF - 1 THEN SubSeq(s, Len(s) - CLI_KEEP + 1, Len(s)) ELSE s

\* One byte; the prompt ends the wait.
cli_wait ==
  LET s == Append(cliBuf, Head(line)) IN
  /\ cliPc = "wait"
  /\ line # <<>>
  /\ line' = Tail(line)
  /\ heard' = Append(heard, Head(line))
  /\ cliDone' = DoneSeen(s)
  /\ IF strstr(s, RADAR_PROMPT)
       THEN cliPc' = "back" /\ cliBuf' = s
       ELSE cliBuf' = Slide(s) /\ UNCHANGED cliPc

\* The deadline.
CliTimeout ==
  /\ cliPc = "wait"
  /\ cliPc' = "back"
  /\ UNCHANGED <<cliBuf, cliDone, line, heard>>

CliReturn ==
  /\ cliPc = "back"
  /\ cliPc' = "off" /\ cliBuf' = <<>> /\ cliDone' = FALSE
  /\ line' = <<>> /\ heard' = <<>>

-----------------------------------------------------------------------------
(* What is claimed of it.                                                  *)

\* radar.c:269, "Returns 1 only if Done was seen": nothing but Done among the
\* bytes of this very reply is taken for an acceptance.
DoneIsHeard == cliDone => Holds(heard, DONE)

\* The token ends at byte e, and no byte as old as the buffer can hold was 0.
Audible(token, e) ==
  /\ EndsWith(SubSeq(heard, 1, e), token)
  /\ \A i \in 1 .. e : i > e - (CLI_BUF - 1) => heard[i] # 0

\* radar.c:335-336: a token that lies across a slide is not lost, whatever came
\* before it; and a 0 deafens the wait for the length of the buffer and no
\* longer.
RepliesAreHeard ==
  cliPc # "off" =>
    /\ (\E e \in 0 .. Len(heard) : Audible(DONE, e)) => cliDone
    /\ \A e \in 0 .. Len(heard) : Audible(RADAR_PROMPT, e) => cliPc = "back" /\ e = Len(heard)
=============================================================================
