------------------------------ MODULE DumpProofs ------------------------------
(* Theorems about the dump path: for every ring, every MTU and any number of    *)
(* requests and reconnections, what a subscriber receives.                      *)
EXTENDS Dump, SequenceTheorems, TLAPS

-----------------------------------------------------------------------------
(* The tokens.                                                             *)

HeaderToken == [kind : {"header"}, n : Nat, first : Nat, start : Nat, upto : Nat]
RecordToken == [kind : {"record"}, seq : Nat, stored : BOOLEAN]
Piece       == HeaderToken \cup RecordToken
CrcToken    == [kind : {"crc"}, sum : Seq(Piece)]
Token       == Piece \cup CrcToken

TokensOK ==
  /\ pend \in Seq(Token) /\ stream \in Seq(Token)
  /\ crc \in Seq(Piece)
  /\ pc = "place" => rec \in RecordToken

TypeInv == TypeOK /\ TokensOK

-----------------------------------------------------------------------------
(* Frames.                                                                 *)

\* c sums what t has from its g-th token on.
SumsFrom(c, t, g) == \A i \in 1 .. Len(c) : c[i] = t[g + i - 1]

\* Frames back to back, the CRC of each in its place and over its tokens; the
\* first one may lack its beginning and the last one its end.
Frames(t) ==
  /\ \A i \in 2 .. Len(t) :
       /\ t[i].kind = "header" => t[i - 1].kind = "crc"
       /\ t[i].kind = "record" =>
            \/ t[i - 1].kind = "header" /\ t[i].seq = t[i - 1].start
            \/ t[i - 1].kind = "record" /\ t[i].seq = t[i - 1].seq + 1
  /\ \A g, j \in 1 .. Len(t) : t[g].kind = "header" /\ g < j =>
       /\ j <= g + t[g].n => t[j].kind = "record"
       /\ j = g + t[g].n + 1 => /\ t[j].kind = "crc" /\ Len(t[j].sum) = j - g
                                /\ SumsFrom(t[j].sum, t, g)

\* Nothing of the last frame is missing.
Ended(t) ==
  /\ t # <<>> => t[Len(t)].kind = "crc"
  /\ \A g \in 1 .. Len(t) : t[g].kind = "header" => g + t[g].n + 1 <= Len(t)

\* c is the header of n records from a on, and the first m of them.
Covers(c, a, n, m) ==
  /\ Len(c) = m + 1
  /\ c[1].kind = "header" /\ c[1].n = n /\ c[1].start = a
  /\ \A i \in 2 .. m + 1 : c[i].kind = "record" /\ c[i].seq = a + i - 2

\* t ends in c, or is the end of c; and all its other frames are whole.
EndsIn(t, c) ==
  /\ \A i \in 0 .. Len(c) - 1 : i < Len(t) => t[Len(t) - i] = c[Len(c) - i]
  /\ \A g \in 1 .. Len(t) : t[g].kind = "header" =>
       g + t[g].n + 1 <= Len(t) \/ g = Len(t) - Len(c) + 1

-----------------------------------------------------------------------------
(* The invariant of the frames.                                            *)

\* What the subscriber has, and what is going to be sent to it.
Sent == stream \o pend

\* A frame is being put together, and how many of its records are.
Building == pc \in {"get", "place", "crc"}
Placed   == seq - start

SumInv ==
  /\ seq >= start /\ seq <= start + count
  /\ pc \in {"get", "place"} => seq < start + count
  /\ pc = "crc" => seq = start + count
  /\ pc = "place" => rec.seq = seq
  /\ Covers(crc, start, count, Placed)
  /\ EndsIn(Sent, crc)

FramesInv ==
  /\ Frames(Sent)
  /\ pc \in {"wait", "check", "range", "range2"} => pend = <<>>
  /\ pc \in {"wait", "check"} /\ link /\ notify_enabled => Ended(Sent)
  /\ pc \in {"range", "range2", "last"} => Ended(Sent)
  /\ Building => SumInv

-----------------------------------------------------------------------------
(* What the tokens say of the ring and of the request.                     *)

\* A header's range, when o is the oldest number in the ring.
Answers(h, o) ==
  /\ \A s \in h.first .. h.upto - 1 :
       s \in h.start .. h.start + h.n - 1 \/ s < o
         \/ (h.n = UINT16_MAX /\ s >= h.start + h.n)
  /\ h.n > 0 => h.start >= h.first

\* A placeholder's record is gone for good.
Gone(r, nx, hd) == ~r.stored => r.seq < nx /\ r.seq \notin hd

Sound(t, o, nx, hd) ==
  /\ t.kind = "header" => Answers(t, o)
  /\ t.kind = "record" => Gone(t, nx, hd)

AllSound(t, o, nx, hd) == \A i \in 1 .. Len(t) : Sound(t[i], o, nx, hd)

RangeInv ==
  /\ pc \in {"range", "range2"} => upto <= next_seq
  /\ lo # -1 => lo <= oldest
  /\ hi # -1 => upto <= hi /\ hi <= next_seq
  /\ pc # "range2" => lo = -1 /\ hi = -1
  /\ pc \in {"get", "place"} => start + count <= next_seq
  /\ pc = "place" => Sound(rec, oldest, next_seq, held)
  /\ AllSound(Sent, oldest, next_seq, held)

\* A request that waits is a subscriber's.
OwedInv ==
  /\ owed => link /\ notify_enabled
  /\ NoRequestLost

-----------------------------------------------------------------------------
(* Tokens and sequences of them.                                           *)

\* What each kind of token carries.
LEMMA TokenFacts ==
  ASSUME NEW t \in Token
  PROVE  /\ t.kind \in {"header", "record", "crc"}
         /\ t.kind = "header" => t.n \in Nat /\ t.first \in Nat /\ t.start \in Nat /\ t.upto \in Nat
         /\ t.kind = "record" => t.seq \in Nat /\ t.stored \in BOOLEAN
         /\ t.kind = "crc" => t.sum \in Seq(Piece)
<1>1. CASE t \in HeaderToken  BY <1>1 DEF HeaderToken
<1>2. CASE t \in RecordToken  BY <1>2 DEF RecordToken
<1>3. CASE t \in CrcToken     BY <1>3 DEF CrcToken
<1> QED  BY <1>1, <1>2, <1>3 DEF Token, Piece

\* An element of a sequence of tokens is a token.
LEMMA Elements ==
  ASSUME NEW t \in Seq(Token)
  PROVE  /\ Len(t) \in Nat
         /\ \A i \in 1 .. Len(t) : t[i] \in Token
BY LenProperties, ElementOfSeq

\* A stretch of frames is frames.
LEMMA FramesPart ==
  ASSUME NEW t \in Seq(Token), NEW u \in Seq(Token), NEW d \in Nat,
         Len(u) + d <= Len(t), \A i \in 1 .. Len(u) : u[i] = t[i + d],
         Frames(t)
  PROVE  Frames(u)
<1>0. Len(t) \in Nat /\ Len(u) \in Nat  BY Elements
<1>1. ASSUME NEW i \in 2 .. Len(u)
      PROVE  /\ u[i].kind = "header" => u[i - 1].kind = "crc"
             /\ u[i].kind = "record" =>
                  \/ u[i - 1].kind = "header" /\ u[i].seq = u[i - 1].start
                  \/ u[i - 1].kind = "record" /\ u[i].seq = u[i - 1].seq + 1
  <2>1. i + d \in 2 .. Len(t) /\ i - 1 \in 1 .. Len(u) /\ i \in 1 .. Len(u)  BY <1>0
  <2>2. u[i] = t[i + d] /\ u[i - 1] = t[(i + d) - 1]
    <3>1. u[i - 1] = t[(i - 1) + d]  BY <2>1
    <3>2. (i - 1) + d = (i + d) - 1  OBVIOUS
    <3> QED  BY <2>1, <3>1, <3>2
  <2>3. /\ t[i + d].kind = "header" => t[(i + d) - 1].kind = "crc"
        /\ t[i + d].kind = "record" =>
             \/ t[(i + d) - 1].kind = "header" /\ t[i + d].seq = t[(i + d) - 1].start
             \/ t[(i + d) - 1].kind = "record" /\ t[i + d].seq = t[(i + d) - 1].seq + 1
    BY <2>1 DEF Frames
  <2> QED  BY <2>2, <2>3, Zenon
<1>2. ASSUME NEW g \in 1 .. Len(u), NEW j \in 1 .. Len(u), u[g].kind = "header", g < j
      PROVE  /\ j <= g + u[g].n => u[j].kind = "record"
             /\ j = g + u[g].n + 1 => /\ u[j].kind = "crc" /\ Len(u[j].sum) = j - g
                                      /\ SumsFrom(u[j].sum, u, g)
  <2>1. g + d \in 1 .. Len(t) /\ j + d \in 1 .. Len(t) /\ g + d < j + d  BY <1>0, <1>2
  <2>2. u[g] = t[g + d] /\ u[j] = t[j + d]  OBVIOUS
  <2>3. u[g].n \in Nat  BY <1>2, Elements, TokenFacts
  <2>4. /\ j + d <= (g + d) + u[g].n => u[j].kind = "record"
        /\ j + d = (g + d) + u[g].n + 1 =>
             /\ u[j].kind = "crc" /\ Len(u[j].sum) = (j + d) - (g + d)
             /\ SumsFrom(u[j].sum, t, g + d)
    BY <1>2, <2>1, <2>2 DEF Frames
  <2>5. ASSUME Len(u[j].sum) = j - g, SumsFrom(u[j].sum, t, g + d)
        PROVE  SumsFrom(u[j].sum, u, g)
    <3>1. SUFFICES ASSUME NEW i \in 1 .. Len(u[j].sum) PROVE u[j].sum[i] = u[g + i - 1]
      BY DEF SumsFrom
    <3>2. u[j].sum[i] = t[(g + d) + i - 1]  BY <2>5 DEF SumsFrom
    <3>3. g + i - 1 \in 1 .. Len(u)  BY <1>0, <2>5
    <3>4. u[g + i - 1] = t[(g + i - 1) + d]  BY <3>3
    <3>5. (g + d) + i - 1 = (g + i - 1) + d  BY <3>3
    <3> QED  BY <3>2, <3>4, <3>5
  <2>6. ASSUME NEW n \in Nat
        PROVE  /\ j <= g + n => j + d <= (g + d) + n
               /\ j = g + n + 1 => j + d = (g + d) + n + 1 /\ (j + d) - (g + d) = j - g
    BY <1>0
  <2>7. (j + d) - (g + d) = j - g  BY <1>0
  <2> QED  BY <2>3, <2>4, <2>5, <2>6, <2>7
<1> QED  BY <1>1, <1>2 DEF Frames

\* The end of something that ends with a whole frame ends with one.
LEMMA EndedPart ==
  ASSUME NEW t \in Seq(Token), NEW u \in Seq(Token), NEW d \in Nat,
         Len(u) + d = Len(t), \A i \in 1 .. Len(u) : u[i] = t[i + d],
         Ended(t)
  PROVE  Ended(u)
<1>0. Len(t) \in Nat /\ Len(u) \in Nat  BY Elements
<1>1. ASSUME u # <<>> PROVE u[Len(u)].kind = "crc"
  <2>1. Len(u) \in 1 .. Len(u)  BY <1>0, <1>1, EmptySeq
  <2>2. u[Len(u)] = t[Len(t)] /\ t # <<>>  BY <1>0, <2>1
  <2> QED  BY <2>2 DEF Ended
<1>2. ASSUME NEW g \in 1 .. Len(u), u[g].kind = "header" PROVE g + u[g].n + 1 <= Len(u)
  <2>1. g + d \in 1 .. Len(t) /\ u[g] = t[g + d]  BY <1>0
  <2>2. u[g].n \in Nat  BY <1>2, Elements, TokenFacts
  <2>3. (g + d) + u[g].n + 1 <= Len(t)  BY <1>2, <2>1 DEF Ended
  <2> QED  BY <1>0, <2>2, <2>3
<1> QED  BY <1>1, <1>2 DEF Ended

\* The end of something that ends in c ends in c, or is the end of c.
LEMMA EndsInPart ==
  ASSUME NEW t \in Seq(Token), NEW u \in Seq(Token), NEW d \in Nat, NEW c \in Seq(Piece),
         Len(u) + d = Len(t), \A i \in 1 .. Len(u) : u[i] = t[i + d],
         EndsIn(t, c)
  PROVE  EndsIn(u, c)
<1>0. Len(t) \in Nat /\ Len(u) \in Nat /\ Len(c) \in Nat  BY Elements, LenProperties
<1>1. ASSUME NEW i \in 0 .. Len(c) - 1, i < Len(u) PROVE u[Len(u) - i] = c[Len(c) - i]
  <2>1. Len(u) - i \in 1 .. Len(u) /\ (Len(u) - i) + d = Len(t) - i /\ i < Len(t)  BY <1>0, <1>1
  <2>2. u[Len(u) - i] = t[(Len(u) - i) + d]  BY <2>1
  <2> QED  BY <2>1, <2>2 DEF EndsIn
<1>2. ASSUME NEW g \in 1 .. Len(u), u[g].kind = "header"
      PROVE  g + u[g].n + 1 <= Len(u) \/ g = Len(u) - Len(c) + 1
  <2>1. g + d \in 1 .. Len(t) /\ u[g] = t[g + d]  BY <1>0
  <2>2. u[g].n \in Nat  BY <1>2, Elements, TokenFacts
  <2>3. (g + d) + u[g].n + 1 <= Len(t) \/ g + d = Len(t) - Len(c) + 1
    BY <1>2, <2>1 DEF EndsIn
  <2>4. CASE (g + d) + u[g].n + 1 <= Len(t)  BY <1>0, <2>2, <2>4
  <2>5. CASE g + d = Len(t) - Len(c) + 1
    <3>1. \A a, b, e \in Nat : g + d = a - b + 1 /\ e + d = a => g = e - b + 1  OBVIOUS
    <3> QED  BY <1>0, <2>5, <3>1
  <2> QED  BY <2>3, <2>4, <2>5
<1> QED  BY <1>1, <1>2 DEF EndsIn

\* A token more: what was there stays where it was.
LEMMA Longer ==
  ASSUME NEW t \in Seq(Token), NEW e \in Token
  PROVE  /\ Append(t, e) \in Seq(Token) /\ Append(t, e) # <<>>
         /\ Len(Append(t, e)) = Len(t) + 1
         /\ \A i \in 1 .. Len(t) : Append(t, e)[i] = t[i]
         /\ Append(t, e)[Len(t) + 1] = e
BY AppendProperties

\* A token more on frames gives frames when it follows the last token and is
\* what the frames it falls into want in its place.
LEMMA FramesGrow ==
  ASSUME NEW t \in Seq(Token), NEW e \in Token, Frames(t),
         NEW u, u = Append(t, e),
         t # <<>> =>
           /\ e.kind = "header" => t[Len(t)].kind = "crc"
           /\ e.kind = "record" =>
                \/ t[Len(t)].kind = "header" /\ e.seq = t[Len(t)].start
                \/ t[Len(t)].kind = "record" /\ e.seq = t[Len(t)].seq + 1,
         \A g \in 1 .. Len(t) : t[g].kind = "header" =>
           /\ Len(t) < g + t[g].n => e.kind = "record"
           /\ Len(t) = g + t[g].n => /\ e.kind = "crc" /\ Len(e.sum) = Len(t) + 1 - g
                                     /\ SumsFrom(e.sum, t, g)
  PROVE  Frames(u)
<1>0. /\ Len(t) \in Nat /\ u \in Seq(Token) /\ Len(u) = Len(t) + 1
      /\ \A i \in 1 .. Len(t) : u[i] = t[i]
      /\ u[Len(t) + 1] = e
  BY Elements, Longer
<1>1. ASSUME NEW i \in 2 .. Len(u)
      PROVE  /\ u[i].kind = "header" => u[i - 1].kind = "crc"
             /\ u[i].kind = "record" =>
                  \/ u[i - 1].kind = "header" /\ u[i].seq = u[i - 1].start
                  \/ u[i - 1].kind = "record" /\ u[i].seq = u[i - 1].seq + 1
  <2>1. CASE i <= Len(t)
    <3>1. i \in 2 .. Len(t) /\ u[i] = t[i] /\ u[i - 1] = t[i - 1]  BY <1>0, <2>1
    <3> QED  BY <3>1 DEF Frames
  <2>2. CASE i > Len(t)
    <3>1. i = Len(t) + 1 /\ i - 1 = Len(t) /\ Len(t) \in 1 .. Len(t)  BY <1>0, <2>2
    <3>2. u[i] = e /\ u[i - 1] = t[Len(t)] /\ t # <<>>
      <4>1. t # <<>>  BY <3>1, EmptySeq
      <4> QED  BY <1>0, <3>1, <4>1
    <3> QED  BY <3>2
  <2> QED  BY <1>0, <2>1, <2>2
<1>2. ASSUME NEW g \in 1 .. Len(u), NEW j \in 1 .. Len(u), u[g].kind = "header", g < j
      PROVE  /\ j <= g + u[g].n => u[j].kind = "record"
             /\ j = g + u[g].n + 1 => /\ u[j].kind = "crc" /\ Len(u[j].sum) = j - g
                                      /\ SumsFrom(u[j].sum, u, g)
  <2>1. g \in 1 .. Len(t) /\ u[g] = t[g] /\ t[g].kind = "header"
    <3>1. g \in 1 .. Len(t)  BY <1>0, <1>2
    <3> QED  BY <1>0, <1>2, <3>1
  <2>2. u[g].n \in Nat  BY <2>1, Elements, TokenFacts
  <2>3. /\ j <= g + u[g].n => u[j].kind = "record"
        /\ j = g + u[g].n + 1 => /\ u[j].kind = "crc" /\ Len(u[j].sum) = j - g
                                 /\ SumsFrom(u[j].sum, t, g)
    <3>1. CASE j <= Len(t)
      <4>1. j \in 1 .. Len(t) /\ u[j] = t[j]  BY <1>0, <3>1
      <4> QED  BY <1>2, <2>1, <4>1 DEF Frames
    <3>2. CASE j > Len(t)
      <4>1. j = Len(t) + 1 /\ u[j] = e  BY <1>0, <3>2
      <4>2. \A n \in Nat : /\ j <= g + n => Len(t) < g + n
                           /\ j = g + n + 1 => Len(t) = g + n
        BY <1>0, <4>1
      <4>3. /\ j <= g + u[g].n => Len(t) < g + t[g].n
            /\ j = g + u[g].n + 1 => Len(t) = g + t[g].n
        BY <2>1, <2>2, <4>2
      <4> QED  BY <2>1, <4>1, <4>3
    <3> QED  BY <1>0, <3>1, <3>2
  <2>4. ASSUME Len(u[j].sum) = j - g, SumsFrom(u[j].sum, t, g)
        PROVE  SumsFrom(u[j].sum, u, g)
    <3>1. SUFFICES ASSUME NEW i \in 1 .. Len(u[j].sum) PROVE u[j].sum[i] = u[g + i - 1]
      BY DEF SumsFrom
    <3>2. g + i - 1 \in 1 .. Len(t)  BY <1>0, <1>2, <2>4, <2>1
    <3> QED  BY <1>0, <2>4, <3>2 DEF SumsFrom
  <2> QED  BY <2>3, <2>4
<1> QED  BY <1>1, <1>2 DEF Frames

\* A header after a whole frame begins the next.
LEMMA HeaderGrows ==
  ASSUME NEW t \in Seq(Token), NEW h \in HeaderToken, Frames(t), Ended(t)
  PROVE  /\ Frames(Append(t, h))
         /\ Covers(<<h>>, h.start, h.n, 0)
         /\ EndsIn(Append(t, h), <<h>>)
<1>0. h \in Token /\ h.kind = "header" /\ Len(t) \in Nat  BY Elements DEF HeaderToken, Piece, Token
<1>1. Frames(Append(t, h))
  <2>1. ASSUME t # <<>> PROVE t[Len(t)].kind = "crc"  BY <2>1 DEF Ended
  <2>2. ASSUME NEW g \in 1 .. Len(t), t[g].kind = "header"
        PROVE  ~(Len(t) < g + t[g].n) /\ Len(t) # g + t[g].n
    <3>1. t[g].n \in Nat  BY <2>2, Elements, TokenFacts
    <3>2. g + t[g].n + 1 <= Len(t)  BY <2>2 DEF Ended
    <3>3. \A n \in Nat : g + n + 1 <= Len(t) => ~(Len(t) < g + n) /\ Len(t) # g + n  BY <1>0
    <3> QED  BY <3>1, <3>2, <3>3
  <2> QED  BY <1>0, <2>1, <2>2, FramesGrow
<1>2. Covers(<<h>>, h.start, h.n, 0)  BY <1>0 DEF Covers
<1>3. EndsIn(Append(t, h), <<h>>)
  <2> DEFINE u == Append(t, h)
  <2>1. /\ Len(u) = Len(t) + 1
        /\ \A i \in 1 .. Len(t) : u[i] = t[i]
        /\ u[Len(t) + 1] = h
    BY <1>0, Longer
  <2> HIDE DEF u
  <2>2. \A i \in 0 .. Len(<<h>>) - 1 : i < Len(u) => u[Len(u) - i] = <<h>>[Len(<<h>>) - i]
    BY <1>0, <2>1
  <2>3. ASSUME NEW g \in 1 .. Len(u), u[g].kind = "header"
        PROVE  g + u[g].n + 1 <= Len(u) \/ g = Len(u) - Len(<<h>>) + 1
    <3>1. CASE g <= Len(t)
      <4>1. g \in 1 .. Len(t) /\ u[g] = t[g]  BY <1>0, <2>1, <3>1
      <4>2. t[g].n \in Nat  BY <2>3, <4>1, Elements, TokenFacts
      <4>3. g + t[g].n + 1 <= Len(t)  BY <2>3, <4>1 DEF Ended
      <4>4. \A n \in Nat : g + n + 1 <= Len(t) => g + n + 1 <= Len(u)  BY <1>0, <2>1
      <4> QED  BY <4>1, <4>2, <4>3, <4>4
    <3>2. CASE g > Len(t)  BY <1>0, <2>1, <3>2
    <3> QED  BY <1>0, <2>1, <3>1, <3>2
  <2> QED  BY <2>2, <2>3 DEF EndsIn, u
<1> QED  BY <1>1, <1>2, <1>3

\* Where the frames of t stand that ends in c, the m records of n that c has.
LEMMA FrameUnderWay ==
  ASSUME NEW t \in Seq(Token), NEW c \in Seq(Piece), NEW a \in Nat, NEW n \in Nat, NEW m \in Nat,
         Covers(c, a, n, m), EndsIn(t, c),
         NEW g \in 1 .. Len(t), t[g].kind = "header"
  PROVE  \/ g + t[g].n < Len(t)
         \/ g = Len(t) - m /\ t[g].n = n /\ SumsFrom(c, t, g)
<1>0. Len(t) \in Nat /\ Len(c) = m + 1 /\ t[g].n \in Nat
  BY Elements, TokenFacts DEF Covers
<1>1. CASE g + t[g].n + 1 <= Len(t)
  <2>1. \A x \in Nat : g + x + 1 <= Len(t) => g + x < Len(t)  BY <1>0
  <2> QED  BY <1>0, <1>1, <2>1
<1>2. CASE g = Len(t) - Len(c) + 1
  <2>1. g = Len(t) - m  BY <1>0, <1>2
  <2>2. SumsFrom(c, t, g)
    <3>1. SUFFICES ASSUME NEW i \in 1 .. Len(c) PROVE c[i] = t[g + i - 1]
      BY DEF SumsFrom
    <3>2. Len(c) - i \in 0 .. Len(c) - 1 /\ Len(c) - i < Len(t)  BY <1>0, <2>1
    <3>3. t[Len(t) - (Len(c) - i)] = c[Len(c) - (Len(c) - i)]  BY <3>2 DEF EndsIn
    <3>4. Len(t) - (Len(c) - i) = g + i - 1 /\ Len(c) - (Len(c) - i) = i  BY <1>0, <2>1
    <3> QED  BY <3>3, <3>4
  <2>3. t[g] = c[1]
    <3>1. c[1] = t[g + 1 - 1]  BY <1>0, <2>2 DEF SumsFrom
    <3>2. g + 1 - 1 = g  OBVIOUS
    <3> QED  BY <3>1, <3>2
  <2> QED  BY <2>1, <2>2, <2>3 DEF Covers
<1> QED  BY <1>1, <1>2 DEF EndsIn

\* The token that t, which ends in c, ends with.
LEMMA LastOfFrame ==
  ASSUME NEW t \in Seq(Token), NEW c \in Seq(Piece), NEW a \in Nat, NEW n \in Nat, NEW m \in Nat,
         Covers(c, a, n, m), EndsIn(t, c), t # <<>>
  PROVE  \/ t[Len(t)].kind = "header" /\ t[Len(t)].start = a /\ m = 0
         \/ t[Len(t)].kind = "record" /\ t[Len(t)].seq = a + m - 1
<1>0. Len(t) \in Nat \ {0} /\ Len(c) = m + 1
  BY EmptySeq, Elements DEF Covers
<1>1. t[Len(t)] = c[m + 1]
  <2>1. 0 \in 0 .. Len(c) - 1 /\ 0 < Len(t)  BY <1>0
  <2>2. t[Len(t) - 0] = c[Len(c) - 0]  BY <2>1 DEF EndsIn
  <2>3. Len(t) - 0 = Len(t) /\ Len(c) - 0 = m + 1  BY <1>0
  <2> QED  BY <2>2, <2>3
<1>2. CASE m = 0  BY <1>1, <1>2 DEF Covers
<1>3. CASE m # 0
  <2>1. m + 1 \in 2 .. m + 1  BY <1>3
  <2>2. c[m + 1].kind = "record" /\ c[m + 1].seq = a + (m + 1) - 2  BY <2>1 DEF Covers
  <2>3. a + (m + 1) - 2 = a + m - 1  OBVIOUS
  <2> QED  BY <1>1, <2>2, <2>3
<1> QED  BY <1>2, <1>3

\* A record more of the frame under way.
LEMMA RecordGrows ==
  ASSUME NEW t \in Seq(Token), NEW c \in Seq(Piece), NEW a \in Nat, NEW n \in Nat, NEW m \in Nat,
         Frames(t), Covers(c, a, n, m), EndsIn(t, c),
         NEW r \in RecordToken, r.seq = a + m, m < n
  PROVE  /\ Frames(Append(t, r))
         /\ Covers(Append(c, r), a, n, m + 1)
         /\ EndsIn(Append(t, r), Append(c, r))
<1>0. /\ r \in Token /\ r \in Piece /\ r.kind = "record"
      /\ Len(t) \in Nat /\ Len(c) = m + 1
  BY Elements DEF RecordToken, Piece, Token, Covers
<1>1. Frames(Append(t, r))
  <2>1. ASSUME t # <<>>
        PROVE  \/ t[Len(t)].kind = "header" /\ r.seq = t[Len(t)].start
               \/ t[Len(t)].kind = "record" /\ r.seq = t[Len(t)].seq + 1
    BY <2>1, LastOfFrame
  <2>2. ASSUME NEW g \in 1 .. Len(t), t[g].kind = "header"
        PROVE  Len(t) # g + t[g].n
    <3>1. t[g].n \in Nat  BY <2>2, Elements, TokenFacts
    <3>2. CASE g + t[g].n < Len(t)
      <4>1. \A x \in Nat : g + x < Len(t) => Len(t) # g + x  BY <1>0
      <4> QED  BY <3>1, <3>2, <4>1
    <3>3. CASE g = Len(t) - m /\ t[g].n = n
      <4>1. \A x \in Nat : g = x - m => x # g + n  OBVIOUS
      <4> QED  BY <1>0, <3>3, <4>1
    <3> QED  BY <2>2, <3>2, <3>3, FrameUnderWay
  <2> QED  BY <1>0, <2>1, <2>2, FramesGrow
<1> DEFINE u == Append(t, r)  d == Append(c, r)
<1>2. /\ Len(u) = Len(t) + 1
      /\ \A i \in 1 .. Len(t) : u[i] = t[i]
      /\ u[Len(t) + 1] = r
      /\ Len(d) = m + 2
      /\ \A i \in 1 .. m + 1 : d[i] = c[i]
      /\ d[m + 2] = r
  BY <1>0, AppendProperties
<1> HIDE DEF u, d
<1>3. Covers(d, a, n, m + 1)
  <2>1. d[1] = c[1]  BY <1>2
  <2>2. ASSUME NEW i \in 2 .. (m + 1) + 1 PROVE d[i].kind = "record" /\ d[i].seq = a + i - 2
    <3>1. CASE i <= m + 1
      <4>1. i \in 2 .. m + 1 /\ d[i] = c[i]  BY <1>2, <3>1
      <4> QED  BY <4>1 DEF Covers
    <3>2. CASE i > m + 1
      <4>1. i = m + 2  BY <3>2
      <4> QED  BY <1>0, <1>2, <4>1
    <3> QED  BY <3>1, <3>2
  <2> QED  BY <1>2, <2>1, <2>2 DEF Covers
<1>4. EndsIn(u, d)
  <2>1. ASSUME NEW i \in 0 .. Len(d) - 1, i < Len(u) PROVE u[Len(u) - i] = d[Len(d) - i]
    <3>1. CASE i = 0
      <4>1. Len(u) - i = Len(t) + 1 /\ Len(d) - i = m + 2  BY <1>0, <1>2, <3>1
      <4> QED  BY <1>2, <4>1
    <3>2. CASE i # 0
      <4>0. \A k, w, x \in Nat :
              k # 0 /\ k <= w /\ k < x + 1 =>
                /\ k - 1 \in 0 .. w - 1 /\ k - 1 < x
                /\ (x + 1) - k = x - (k - 1) /\ (w + 1) - k = w - (k - 1)
                /\ x - (k - 1) \in 1 .. x /\ w - (k - 1) \in 1 .. w
        OBVIOUS
      <4>3. /\ i \in Nat /\ i # 0 /\ i <= m + 1 /\ i < Len(t) + 1
            /\ m + 1 \in Nat /\ Len(t) \in Nat
            /\ Len(u) = Len(t) + 1 /\ Len(d) = (m + 1) + 1 /\ Len(c) = m + 1
        BY <1>0, <1>2, <2>1, <3>2
      <4>1. /\ i - 1 \in 0 .. Len(c) - 1 /\ i - 1 < Len(t)
            /\ Len(u) - i = Len(t) - (i - 1) /\ Len(d) - i = Len(c) - (i - 1)
            /\ Len(t) - (i - 1) \in 1 .. Len(t) /\ Len(c) - (i - 1) \in 1 .. m + 1
        BY <4>0, <4>3
      <4>2. t[Len(t) - (i - 1)] = c[Len(c) - (i - 1)]  BY <4>1 DEF EndsIn
      <4> QED  BY <1>2, <4>1, <4>2
    <3> QED  BY <3>1, <3>2
  <2>2. ASSUME NEW g \in 1 .. Len(u), u[g].kind = "header"
        PROVE  g + u[g].n + 1 <= Len(u) \/ g = Len(u) - Len(d) + 1
    <3>1. g \in 1 .. Len(t) /\ u[g] = t[g]
      <4>1. g # Len(t) + 1  BY <1>0, <1>2, <2>2
      <4>2. g \in 1 .. Len(t)  BY <1>0, <1>2, <4>1
      <4> QED  BY <1>2, <4>2
    <3>2. t[g].n \in Nat  BY <2>2, <3>1, Elements, TokenFacts
    <3>3. CASE g + t[g].n + 1 <= Len(t)
      <4>1. \A x \in Nat : g + x + 1 <= Len(t) => g + x + 1 <= Len(u)  BY <1>0, <1>2
      <4> QED  BY <3>1, <3>2, <3>3, <4>1
    <3>4. CASE g = Len(t) - Len(c) + 1
      <4>1. \A x \in Nat : g = x - (m + 1) + 1 => g = (x + 1) - (m + 2) + 1  OBVIOUS
      <4> QED  BY <1>0, <1>2, <3>4, <4>1
    <3> QED  BY <2>2, <3>1, <3>3, <3>4 DEF EndsIn
  <2> QED  BY <2>1, <2>2 DEF EndsIn
<1> QED  BY <1>1, <1>3, <1>4 DEF u, d

\* The CRC after the last record ends the frame.
LEMMA CrcGrows ==
  ASSUME NEW t \in Seq(Token), NEW c \in Seq(Piece), NEW a \in Nat, NEW n \in Nat,
         Frames(t), Covers(c, a, n, n), EndsIn(t, c),
         NEW e \in CrcToken, e.sum = c
  PROVE  Frames(Append(t, e)) /\ Ended(Append(t, e))
<1>0. e \in Token /\ e.kind = "crc" /\ Len(t) \in Nat /\ Len(c) = n + 1
  BY Elements DEF CrcToken, Token, Covers
<1>1. Frames(Append(t, e))
  <2>1. ASSUME NEW g \in 1 .. Len(t), t[g].kind = "header"
        PROVE  /\ ~(Len(t) < g + t[g].n)
               /\ Len(t) = g + t[g].n => Len(e.sum) = Len(t) + 1 - g /\ SumsFrom(e.sum, t, g)
    <3>1. t[g].n \in Nat  BY <2>1, Elements, TokenFacts
    <3>2. CASE g + t[g].n < Len(t)
      <4>1. \A x \in Nat : g + x < Len(t) => ~(Len(t) < g + x) /\ Len(t) # g + x  BY <1>0
      <4> QED  BY <3>1, <3>2, <4>1
    <3>3. CASE g = Len(t) - n /\ t[g].n = n /\ SumsFrom(c, t, g)
      <4>1. \A x \in Nat : g = x - n => ~(x < g + n) /\ n + 1 = x + 1 - g  OBVIOUS
      <4>2. ~(Len(t) < g + n) /\ n + 1 = Len(t) + 1 - g  BY <1>0, <3>3, <4>1
      <4> QED  BY <1>0, <3>3, <4>2
    <3>4. \/ g + t[g].n < Len(t)
          \/ g = Len(t) - n /\ t[g].n = n /\ SumsFrom(c, t, g)
      BY <2>1, FrameUnderWay
    <3> QED  BY <3>2, <3>3, <3>4
  <2> QED  BY <1>0, <2>1, FramesGrow
<1>2. Ended(Append(t, e))
  <2> DEFINE u == Append(t, e)
  <2>1. /\ Len(u) = Len(t) + 1
        /\ \A i \in 1 .. Len(t) : u[i] = t[i]
        /\ u[Len(t) + 1] = e
    BY <1>0, Longer
  <2> HIDE DEF u
  <2>2. u[Len(u)].kind = "crc"  BY <1>0, <2>1
  <2>3. ASSUME NEW g \in 1 .. Len(u), u[g].kind = "header" PROVE g + u[g].n + 1 <= Len(u)
    <3>1. g \in 1 .. Len(t) /\ u[g] = t[g]
      <4>1. g # Len(t) + 1  BY <1>0, <2>1, <2>3
      <4>2. g \in 1 .. Len(t)  BY <1>0, <2>1, <4>1
      <4> QED  BY <2>1, <4>2
    <3>2. t[g].n \in Nat  BY <2>3, <3>1, Elements, TokenFacts
    <3>3. CASE g + t[g].n < Len(t)
      <4>1. \A x \in Nat : g + x < Len(t) => g + x + 1 <= Len(u)  BY <1>0, <2>1
      <4> QED  BY <3>1, <3>2, <3>3, <4>1
    <3>4. CASE g = Len(t) - n /\ t[g].n = n
      <4>1. \A x \in Nat : g = x - n => g + n + 1 <= x + 1  OBVIOUS
      <4> QED  BY <1>0, <2>1, <3>1, <3>4, <4>1
    <3> QED  BY <2>3, <3>1, <3>3, <3>4, FrameUnderWay
  <2> QED  BY <2>2, <2>3 DEF Ended, u
<1> QED  BY <1>1, <1>2

-----------------------------------------------------------------------------
(* The operators of the dump.                                              *)

\* The range begins at the first number asked for that is there, and ends with
\* the numbers or where a header can announce no more.
LEMMA RangeIs ==
  ASSUME NEW f \in Nat, NEW from \in Nat, NEW to \in Nat,
         NEW r, r = sntl_dump_range(f, from, to)
  PROVE  \E b, c \in Nat :
           /\ b >= f /\ b >= from /\ (b = f \/ b = from)
           /\ r.count = c
           /\ \/ b >= to /\ r.start = to /\ c = 0
              \/ b < to /\ r.start = b /\ b + c < to /\ c = UINT16_MAX
              \/ b < to /\ r.start = b /\ b + c = to /\ c <= UINT16_MAX
<1> DEFINE b == IF f > from THEN f ELSE from
           d == to - b
<1>1. b \in Nat /\ b >= f /\ b >= from /\ (b = f \/ b = from)  OBVIOUS
<1>2. r = IF b >= to THEN [start |-> to, count |-> 0]
          ELSE [start |-> b, count |-> IF to - b > UINT16_MAX THEN UINT16_MAX ELSE to - b]
  BY DEF sntl_dump_range
<1>3. b < to => d \in Nat /\ b + d = to  BY <1>1
<1>4. UINT16_MAX \in Nat  BY CountAssumption
<1>5. to - b = d  OBVIOUS
<1> HIDE DEF b, d
<1>6. CASE b >= to
  <2>1. r.start = to /\ r.count = 0  BY <1>2, <1>6
  <2> QED  BY <1>1, <1>6, <2>1
<1>7. CASE b < to /\ d > UINT16_MAX
  <2>1. r.start = b /\ r.count = UINT16_MAX  BY <1>1, <1>2, <1>5, <1>7
  <2>2. b + UINT16_MAX < to  BY <1>1, <1>3, <1>4, <1>7
  <2> QED  BY <1>1, <1>4, <1>7, <2>1, <2>2
<1>8. CASE b < to /\ ~(d > UINT16_MAX)
  <2>1. r.start = b /\ r.count = d  BY <1>1, <1>2, <1>5, <1>8
  <2>2. b + d = to /\ d <= UINT16_MAX /\ d \in Nat  BY <1>3, <1>4, <1>8
  <2> QED  BY <1>1, <1>8, <2>1, <2>2
<1> QED  BY <1>1, <1>6, <1>7, <1>8

\* It lies within the numbers there are, no longer than a header announces ...
LEMMA RangeFacts ==
  ASSUME NEW f \in Nat, NEW from \in Nat, NEW to \in Nat,
         NEW r, r = sntl_dump_range(f, from, to)
  PROVE  /\ r.start \in Nat /\ r.count \in 0 .. UINT16_MAX /\ r.count \in Nat
         /\ r.start + r.count <= to
         /\ r.count > 0 => r.start >= f
<1>1. PICK b, c \in Nat :
        /\ b >= f /\ b >= from /\ (b = f \/ b = from)
        /\ r.count = c
        /\ \/ b >= to /\ r.start = to /\ c = 0
           \/ b < to /\ r.start = b /\ b + c < to /\ c = UINT16_MAX
           \/ b < to /\ r.start = b /\ b + c = to /\ c <= UINT16_MAX
  BY RangeIs
<1>2. UINT16_MAX \in Nat  BY CountAssumption
<1> QED  BY <1>1, <1>2

\* ... and leaves out none that was asked for and is there.
LEMMA RangeAnswers ==
  ASSUME NEW f \in Nat, NEW from \in Nat, NEW to \in Nat,
         NEW r, r = sntl_dump_range(f, from, to),
         NEW s \in Nat, s >= f, s < to
  PROVE  \/ s >= r.start /\ s < r.start + r.count
         \/ s < from
         \/ r.count = UINT16_MAX /\ s >= r.start + r.count
<1>1. PICK b, c \in Nat :
        /\ b >= f /\ b >= from /\ (b = f \/ b = from)
        /\ r.count = c
        /\ \/ b >= to /\ r.start = to /\ c = 0
           \/ b < to /\ r.start = b /\ b + c < to /\ c = UINT16_MAX
           \/ b < to /\ r.start = b /\ b + c = to /\ c <= UINT16_MAX
  BY RangeIs, SMTT(30)
<1> QED  BY <1>1

\* A chunk has a length.
LEMMA ChunkFacts ==
  ASSUME NEW m \in Mtus \cup {0}
  PROVE  ChunkOf(m) \in Nat
BY MtusAssumption DEF ChunkOf, BUF_SIZE

\* The header that is built is one.
LEMMA HeaderFacts ==
  ASSUME NEW r, r.start \in Nat, r.count \in Nat, first \in Nat, upto \in Nat
  PROVE  /\ Header(r) \in HeaderToken
         /\ Header(r).start = r.start /\ Header(r).n = r.count
         /\ Header(r).first = first /\ Header(r).upto = upto
         /\ Header(r).kind = "header"
BY DEF Header, HeaderToken

\* A store_get's answer, or what takes its place.
LEMMA RecordFacts ==
  ASSUME NEW s \in Nat
  PROVE  /\ Stored(s) \in RecordToken /\ Stored(s).seq = s /\ Stored(s).stored
         /\ Placeholder(s) \in RecordToken /\ Placeholder(s).seq = s /\ ~Placeholder(s).stored
         /\ Stored(s).kind = "record" /\ Placeholder(s).kind = "record"
BY DEF Stored, Placeholder, RecordToken

\* The CRC that is built is one.
LEMMA CrcFacts ==
  ASSUME crc \in Seq(Piece)
  PROVE  Crc \in CrcToken /\ Crc.sum = crc /\ Crc.kind = "crc"
BY DEF Crc, CrcToken

\* Summing the first piece, and one more.
LEMMA SumFacts ==
  ASSUME NEW c \in Seq(Piece), NEW e \in Piece
  PROVE  /\ sntl_crc16(c, e) \in Seq(Piece)
         /\ sntl_crc16(<<>>, e) = <<e>>
         /\ <<e>> \in Seq(Piece)
<1>1. Append(c, e) \in Seq(Piece)  BY AppendProperties
<1>2. <<e>> \in Seq(Piece)  OBVIOUS
<1>3. Append(<<>>, e) = <<e>>  OBVIOUS
<1> QED  BY <1>1, <1>2, <1>3 DEF sntl_crc16

\* Pieces are tokens.
LEMMA Pieces ==
  /\ HeaderToken \subseteq Piece /\ RecordToken \subseteq Piece
  /\ Piece \subseteq Token /\ CrcToken \subseteq Token
BY DEF Piece, Token

-----------------------------------------------------------------------------
(* Type correctness.                                                       *)

\* It holds at the start.
LEMMA TypeInit == Init => TypeInv
<1> SUFFICES ASSUME Init PROVE TypeInv  OBVIOUS
<1>1. next_seq \in Nat /\ oldest \in Nat
  BY BoundsAssumption, CapacityAssumption DEF Init
<1>2. <<>> \in Seq(Token) /\ <<>> \in Seq(Piece)  OBVIOUS
<1>3. TypeOK
  <2>1. up /\ RingOK /\ link = FALSE /\ notify_enabled = FALSE /\ owed = FALSE  BY DEF Init
  <2>2. mtu \in Mtus \cup {0} /\ links \in Nat /\ writes \in Nat /\ dump_req \in 0 .. 1
    BY DEF Init
  <2>3. /\ dump_first_seq \in Nat /\ first \in Nat /\ upto \in Nat
        /\ lo \in Nat \cup {-1} /\ hi \in Nat \cup {-1}
        /\ start \in Nat /\ seq \in Nat /\ chunk \in Nat /\ fill \in Nat
    BY DEF Init
  <2>4. count \in 0 .. UINT16_MAX /\ pc \in Pcs  BY CountAssumption DEF Init, Pcs
  <2> QED  BY <1>1, <2>1, <2>2, <2>3, <2>4 DEF TypeOK
<1>4. TokensOK  BY <1>2 DEF Init, TokensOK
<1> QED  BY <1>3, <1>4 DEF TypeInv

\* The ring stays a ring, and its numbers only go up.
LEMMA RingStep ==
  ASSUME up, oldest \in Nat, next_seq \in Nat, RingOK, AppendRecord
  PROVE  /\ up' /\ oldest' \in Nat /\ next_seq' \in Nat /\ RingOK'
         /\ oldest' >= oldest /\ next_seq' = next_seq + 1
         /\ \A s \in Nat : s < next_seq /\ s \notin held => s \notin held'
<1>1. next_seq - oldest \in 0 .. Capacity /\ Capacity \in Nat \ {0}
  BY CapacityAssumption DEF RingOK
<1>2. /\ next_seq' = next_seq + 1 /\ up'
      /\ oldest' = IF Full THEN oldest + 1 ELSE oldest
      /\ held' = oldest' .. next_seq
  BY DEF AppendRecord
<1>3. CASE Full
  <2>1. oldest' = oldest + 1 /\ next_seq - oldest = Capacity  BY <1>2, <1>3 DEF Full
  <2>2. next_seq' - 1 = next_seq  BY <1>2
  <2>3. held' = InRange'  BY <1>2, <2>2 DEF InRange
  <2>4. next_seq' - oldest' = Capacity  BY <1>2, <2>1
  <2>5. ASSUME NEW s \in Nat, s < next_seq, s \notin held PROVE s \notin held'
    <3>1. s \notin InRange \ {oldest}  BY <2>5 DEF RingOK
    <3>2. s < oldest + 1  BY <2>5, <3>1 DEF InRange
    <3> QED  BY <1>2, <2>1, <3>2
  <2> QED  BY <1>1, <1>2, <2>1, <2>3, <2>4, <2>5 DEF RingOK
<1>4. CASE ~Full
  <2>1. oldest' = oldest /\ next_seq - oldest < Capacity  BY <1>1, <1>2, <1>4 DEF Full
  <2>2. next_seq' - 1 = next_seq  BY <1>2
  <2>3. held' = InRange'  BY <1>2, <2>2 DEF InRange
  <2>4. next_seq' - oldest' \in 0 .. Capacity  BY <1>1, <1>2, <2>1
  <2>5. ASSUME NEW s \in Nat, s < next_seq, s \notin held PROVE s \notin held'
    <3>1. s \notin InRange  BY <2>5, <1>4 DEF RingOK
    <3> QED  BY <1>2, <2>1, <2>5, <3>1 DEF InRange
  <2> QED  BY <1>2, <2>1, <2>3, <2>4, <2>5 DEF RingOK
<1> QED  BY <1>3, <1>4

\* The state functions that most steps leave alone.
LEMMA RingUnchanged ==
  ASSUME UNCHANGED store, RingOK
  PROVE  RingOK'
BY DEF store, ringVars, RingOK, InRange, Full

\* Every step keeps it.
LEMMA TypeStep == TypeInv /\ [Next]_vars => TypeInv'
<1> SUFFICES ASSUME TypeInv, [Next]_vars PROVE TypeInv'  OBVIOUS
<1>0. TypeOK /\ TokensOK /\ UINT16_MAX \in Nat \ {0}  BY CountAssumption DEF TypeInv
<1> USE DEF TypeInv
<1>1. CASE store_append
  <2>1. up' /\ oldest' \in Nat /\ next_seq' \in Nat /\ RingOK'
    BY <1>0, <1>1, RingStep DEF store_append, TypeOK
  <2>2. TypeOK'  BY <1>0, <1>1, <2>1 DEF TypeOK, store_append, conn, req, range, build
  <2>3. TokensOK'  BY <1>0, <1>1 DEF TokensOK, store_append, build
  <2> QED  BY <2>2, <2>3
<1>2. CASE UNCHANGED store
             /\ (connected \/ disconnected \/ ccc_changed \/ \E w \in Writes : ctrl_write(w))
  <2>0. RingOK' /\ up' = up /\ oldest' = oldest /\ next_seq' = next_seq
    BY <1>0, <1>2, RingUnchanged DEF TypeOK, store, ringVars
  <2>1. CASE connected
    <3>1. TypeOK'  BY <1>0, <2>0, <2>1 DEF TypeOK, connected, req, range
    <3>2. TokensOK'  BY <1>0, <2>1 DEF TokensOK, connected
    <3> QED  BY <3>1, <3>2
  <2>2. CASE disconnected
    <3>1. TypeOK'  BY <1>0, <2>0, <2>2 DEF TypeOK, disconnected, range, build
    <3>2. TokensOK'  BY <1>0, <2>2 DEF TokensOK, disconnected, build
    <3> QED  BY <3>1, <3>2
  <2>3. CASE ccc_changed
    <3>1. /\ link' = link /\ link = TRUE /\ notify_enabled' = ~notify_enabled /\ owed' = FALSE
          /\ UNCHANGED <<mtu, links, dump_req, dump_first_seq, pc, range, seq, fill>>
          /\ writes' = writes + 1
      BY <1>0, <2>3 DEF TypeOK, ccc_changed
    <3>2. notify_enabled' \in BOOLEAN /\ owed' \in BOOLEAN /\ (notify_enabled' => link')
      BY <3>1
    <3>3. TypeOK'
      <4>1. up' /\ oldest' \in Nat /\ next_seq' \in Nat /\ RingOK' /\ link' \in BOOLEAN
        BY <1>0, <2>0, <3>1 DEF TypeOK
      <4>2. /\ mtu' \in Mtus \cup {0} /\ links' \in Nat /\ writes' \in Nat
            /\ dump_req' \in 0 .. 1 /\ dump_first_seq' \in Nat
            /\ pc' \in Pcs /\ seq' \in Nat /\ fill' \in Nat
        BY <1>0, <3>1 DEF TypeOK
      <4>3. /\ first' \in Nat /\ upto' \in Nat /\ lo' \in Nat \cup {-1} /\ hi' \in Nat \cup {-1}
            /\ start' \in Nat /\ count' \in 0 .. UINT16_MAX /\ chunk' \in Nat
        BY <1>0, <3>1 DEF TypeOK, range
      <4> QED  BY <3>2, <4>1, <4>2, <4>3 DEF TypeOK
    <3>4. TokensOK'  BY <1>0, <2>3 DEF TokensOK, ccc_changed
    <3> QED  BY <3>3, <3>4
  <2>4. ASSUME NEW w \in Writes, ctrl_write(w) PROVE TypeInv'
    <3>0. w.first_seq \in Nat  BY BoundsAssumption DEF Writes
    <3>1. TypeOK'  BY <1>0, <2>0, <2>4, <3>0 DEF TypeOK, ctrl_write, range, build
    <3>2. TokensOK'  BY <1>0, <2>4 DEF TokensOK, ctrl_write, build
    <3> QED  BY <3>1, <3>2
  <2> QED  BY <1>2, <2>1, <2>2, <2>3, <2>4
<1>3. CASE UNCHANGED store /\ dump_thread
  <2>0. RingOK' /\ up' = up /\ oldest' = oldest /\ next_seq' = next_seq
    BY <1>0, <1>3, RingUnchanged DEF TypeOK, store, ringVars
  <2>1. CASE TakeReq
    <3>1. TypeOK'  BY <1>0, <2>0, <2>1 DEF TypeOK, TakeReq, conn, range, build, Pcs
    <3>2. TokensOK'  BY <1>0, <2>1 DEF TokensOK, TakeReq, build
    <3> QED  BY <3>1, <3>2
  <2>2. CASE Check
    <3>1. TypeOK'  BY <1>0, <2>0, <2>2 DEF TypeOK, Check, conn, build, Pcs
    <3>2. TokensOK'  BY <1>0, <2>2 DEF TokensOK, Check, build
    <3> QED  BY <3>1, <3>2
  <2>3. CASE ReadFirstArgument
    <3>1. TypeOK'  BY <1>0, <2>0, <2>3 DEF TypeOK, ReadFirstArgument, conn, req, build, Pcs
    <3>2. TokensOK'  BY <1>0, <2>3 DEF TokensOK, ReadFirstArgument, build
    <3> QED  BY <3>1, <3>2
  <2>4. CASE ReadSecondArgument
    <3>1. PICK r : /\ r = sntl_dump_range(first, IF lo = -1 THEN oldest ELSE lo,
                                                IF hi = -1 THEN next_seq ELSE hi)
                   /\ start' = r.start /\ count' = r.count /\ seq' = r.start
                   /\ pend' = <<Header(r)>>
                   /\ crc' = sntl_crc16(<<>>, Header(r))
                   /\ pc' = IF r.count = 0 THEN "crc" ELSE "get"
      BY <2>4 DEF ReadSecondArgument
    <3>2. r.start \in Nat /\ r.count \in 0 .. UINT16_MAX /\ r.count \in Nat
      <4>1. first \in Nat /\ (IF lo = -1 THEN oldest ELSE lo) \in Nat
            /\ (IF hi = -1 THEN next_seq ELSE hi) \in Nat
        BY <1>0 DEF TypeOK
      <4> QED  BY <3>1, <4>1, RangeFacts
    <3>3. ChunkOf(mtu) \in Nat  BY <1>0, ChunkFacts DEF TypeOK
    <3>4. TypeOK'
      BY <1>0, <2>0, <2>4, <3>1, <3>2, <3>3
         DEF TypeOK, ReadSecondArgument, conn, req, Pcs, SNTL_HEADER_SIZE
    <3>5. Header(r) \in Piece /\ Header(r) \in Token
      BY <1>0, <3>2, HeaderFacts, Pieces DEF TypeOK
    <3>6. pend' \in Seq(Token) /\ crc' \in Seq(Piece)
      <4>1. crc' = <<Header(r)>>  BY <1>0, <3>1, <3>5, SumFacts DEF TokensOK
      <4>2. pend' = <<Header(r)>>  BY <3>1
      <4> QED  BY <3>5, <4>1, <4>2
    <3>7. pc' # "place" /\ stream' = stream  BY <2>4, <3>1 DEF ReadSecondArgument
    <3>8. TokensOK'  BY <1>0, <3>6, <3>7 DEF TokensOK
    <3> QED  BY <3>4, <3>8
  <2>5. CASE GetRecord
    <3>1. TypeOK'  BY <1>0, <2>0, <2>5 DEF TypeOK, GetRecord, conn, req, range, Pcs
    <3>2. rec' \in RecordToken
      BY <1>0, <2>5, RecordFacts DEF TypeOK, GetRecord
    <3>3. TokensOK'  BY <1>0, <2>5, <3>2 DEF TokensOK, GetRecord
    <3> QED  BY <3>1, <3>3
  <2>6. CASE PlaceRecord
    <3>1. TypeOK'
      BY <1>0, <2>0, <2>6 DEF TypeOK, PlaceRecord, conn, req, range, Pcs, SNTL_RECORD_SIZE
    <3>2. rec \in Token /\ rec \in Piece  BY <1>0, <2>6, Pieces DEF TokensOK, PlaceRecord
    <3>3. Append(pend, rec) \in Seq(Token) /\ sntl_crc16(crc, rec) \in Seq(Piece)
      BY <1>0, <3>2, AppendProperties, SumFacts DEF TokensOK
    <3>4. pc' # "place"  BY <2>6 DEF PlaceRecord
    <3>5. TokensOK'  BY <1>0, <2>6, <3>3, <3>4 DEF TokensOK, PlaceRecord
    <3> QED  BY <3>1, <3>5
  <2>7. CASE PlaceCrc
    <3>1. TypeOK'
      BY <1>0, <2>0, <2>7 DEF TypeOK, PlaceCrc, conn, req, range, Pcs, SNTL_CRC_SIZE
    <3>2. Crc \in Token  BY <1>0, CrcFacts, Pieces DEF TokensOK
    <3>3. Append(pend, Crc) \in Seq(Token)  BY <1>0, <3>2, AppendProperties DEF TokensOK
    <3>4. TokensOK'  BY <1>0, <2>7, <3>3 DEF TokensOK, PlaceCrc
    <3> QED  BY <3>1, <3>4
  <2>8. CASE NotifyOk
    <3>1. TypeOK'  BY <1>0, <2>0, <2>8 DEF TypeOK, NotifyOk, Return, conn, req, Pcs
    <3>2. stream \o pend \in Seq(Token)  BY <1>0, ConcatProperties DEF TokensOK
    <3>3. <<>> \in Seq(Token) /\ <<>> \in Seq(Piece)  OBVIOUS
    <3>4. TokensOK'
      <4>1. CASE pc = "last"  BY <1>0, <2>8, <3>2, <3>3, <4>1 DEF TokensOK, NotifyOk, Return
      <4>2. CASE pc # "last"  BY <1>0, <2>8, <3>2, <3>3, <4>2 DEF TokensOK, NotifyOk
      <4> QED  BY <4>1, <4>2
    <3> QED  BY <3>1, <3>4
  <2>9. CASE NotifyFails
    <3>1. TypeOK'  BY <1>0, <2>0, <2>9 DEF TypeOK, NotifyFails, Return, conn, req, Pcs
    <3>2. <<>> \in Seq(Token) /\ <<>> \in Seq(Piece)  OBVIOUS
    <3>3. TokensOK'  BY <1>0, <2>9, <3>2 DEF TokensOK, NotifyFails, Return
    <3> QED  BY <3>1, <3>3
  <2> QED
    BY <1>3, <2>1, <2>2, <2>3, <2>4, <2>5, <2>6, <2>7, <2>8, <2>9 DEF dump_thread
<1>4. CASE UNCHANGED vars
  <2>1. UNCHANGED store  BY <1>4 DEF vars
  <2>2. RingOK' /\ up' = up /\ oldest' = oldest /\ next_seq' = next_seq
    BY <1>0, <2>1, RingUnchanged DEF TypeOK, store, ringVars
  <2>3. TypeOK'  BY <1>0, <1>4, <2>2 DEF TypeOK, vars, conn, req, range, build
  <2>4. TokensOK'  BY <1>0, <1>4 DEF TokensOK, vars, build
  <2> QED  BY <2>3, <2>4
<1>5. ASSUME ~store_append, Next
      PROVE  /\ UNCHANGED store
             /\ \/ connected \/ disconnected \/ ccc_changed \/ \E w \in Writes : ctrl_write(w)
                \/ dump_thread
  BY <1>5 DEF Next, connected, disconnected, ccc_changed, ctrl_write, dump_thread,
              TakeReq, Check, ReadFirstArgument, ReadSecondArgument, GetRecord,
              PlaceRecord, PlaceCrc, NotifyOk, NotifyFails
<1> QED  BY <1>1, <1>2, <1>3, <1>4, <1>5

-----------------------------------------------------------------------------
(* The frames.                                                             *)

\* What is sent and going to be is tokens.
LEMMA SentTokens ==
  ASSUME TypeInv
  PROVE  /\ Sent \in Seq(Token) /\ stream \in Seq(Token) /\ pend \in Seq(Token)
         /\ Len(Sent) = Len(stream) + Len(pend) /\ Len(Sent) \in Nat
         /\ Len(stream) \in Nat /\ Len(pend) \in Nat
         /\ \A i \in 1 .. Len(stream) : Sent[i] = stream[i]
         /\ \A i \in 1 .. Len(pend) : Sent[i + Len(stream)] = pend[i]
<1>1. stream \in Seq(Token) /\ pend \in Seq(Token)  BY DEF TypeInv, TokensOK
<1>2. Len(stream) \in Nat /\ Len(pend) \in Nat  BY <1>1, Elements
<1>3. /\ Sent \in Seq(Token) /\ Len(Sent) = Len(stream) + Len(pend)
      /\ \A i \in 1 .. Len(stream) + Len(pend) :
           Sent[i] = IF i <= Len(stream) THEN stream[i] ELSE pend[i - Len(stream)]
  BY <1>1, ConcatProperties DEF Sent
<1>4. \A i \in 1 .. Len(stream) : i \in 1 .. Len(stream) + Len(pend) /\ i <= Len(stream)
  BY <1>2
<1>5. \A i \in 1 .. Len(pend) : /\ i + Len(stream) \in 1 .. Len(stream) + Len(pend)
                                /\ ~(i + Len(stream) <= Len(stream))
                                /\ (i + Len(stream)) - Len(stream) = i
  BY <1>2
<1>6. \A i \in 1 .. Len(stream) : Sent[i] = stream[i]  BY <1>3, <1>4
<1>7. ASSUME NEW i \in 1 .. Len(pend) PROVE Sent[i + Len(stream)] = pend[i]
  <2>1. /\ i + Len(stream) \in 1 .. Len(stream) + Len(pend)
        /\ ~(i + Len(stream) <= Len(stream))
        /\ (i + Len(stream)) - Len(stream) = i
    BY <1>5
  <2>2. Sent[i + Len(stream)] = pend[(i + Len(stream)) - Len(stream)]  BY <1>3, <2>1
  <2> QED  BY <2>1, <2>2
<1>8. Len(Sent) \in Nat  BY <1>2, <1>3
<1> QED  BY <1>1, <1>2, <1>3, <1>6, <1>7, <1>8

\* A piece is placed in buf.
LEMMA SentGrows ==
  ASSUME TypeInv, NEW e \in Token, stream' = stream, pend' = Append(pend, e)
  PROVE  Sent' = Append(Sent, e)
<1>1. stream \in Seq(Token) /\ pend \in Seq(Token) /\ <<e>> \in Seq(Token) /\ Sent \in Seq(Token)
  BY SentTokens
<1>2. Append(pend, e) = pend \o <<e>> /\ Append(Sent, e) = Sent \o <<e>>
  BY <1>1, AppendIsConcat
<1>3. stream \o (pend \o <<e>>) = (stream \o pend) \o <<e>>  BY <1>1, ConcatAssociative
<1> QED  BY <1>2, <1>3 DEF Sent

\* buf goes out.
LEMMA SentGoes ==
  ASSUME TypeInv, stream' = stream \o pend, pend' = <<>>
  PROVE  Sent' = Sent
<1>1. Sent \in Seq(Token)  BY SentTokens
<1>2. Sent \o <<>> = Sent  BY <1>1, ConcatEmptySeq
<1> QED  BY <1>2 DEF Sent

\* A subscription begins with an empty stream; what is in buf is still sent.
LEMMA SentBegins ==
  ASSUME TypeInv, stream' = <<>>, pend' = pend
  PROVE  /\ Sent' = pend
         /\ pend \in Seq(Token) /\ Len(stream) \in Nat
         /\ Len(pend) + Len(stream) = Len(Sent)
         /\ \A i \in 1 .. Len(pend) : pend[i] = Sent[i + Len(stream)]
<1>1. pend \in Seq(Token)  BY SentTokens
<1>2. <<>> \o pend = pend  BY <1>1, ConcatEmptySeq
<1>3. Sent' = pend  BY <1>2 DEF Sent
<1>4. Len(pend) + Len(stream) = Len(Sent)  BY SentTokens
<1> QED  BY <1>1, <1>3, <1>4, SentTokens

\* What is in buf is thrown away.
LEMMA SentStops ==
  ASSUME TypeInv, stream' = stream, pend' = <<>>
  PROVE  Sent' = stream
<1>1. stream \in Seq(Token)  BY SentTokens
<1>2. stream \o <<>> = stream  BY <1>1, ConcatEmptySeq
<1> QED  BY <1>2 DEF Sent

\* What has been received is frames.
LEMMA ReceivedIsFrames ==
  ASSUME TypeInv, Frames(Sent)
  PROVE  Frames(stream)
<1>1. /\ Sent \in Seq(Token) /\ stream \in Seq(Token) /\ Len(stream) + 0 <= Len(Sent)
      /\ \A i \in 1 .. Len(stream) : stream[i] = Sent[i + 0]
  BY SentTokens
<1> QED  BY <1>1, FramesPart

\* Steps of others than the dump thread's that leave the stream alone.
LEMMA FramesSame ==
  ASSUME FramesInv, UNCHANGED <<pc, seq, start, count, crc, rec, pend, stream>>,
         (link' /\ notify_enabled') => (link /\ notify_enabled) \/ Ended(Sent) \/ pc \notin {"wait", "check"}
  PROVE  FramesInv'
<1>1. Sent' = Sent /\ Placed' = Placed /\ (Building' <=> Building)
  BY DEF Sent, Placed, Building
<1>2. SumInv => SumInv'  BY <1>1 DEF SumInv
<1>3. (Building => SumInv) => (Building' => SumInv')  BY <1>1, <1>2
<1>4. Building' => SumInv'  BY <1>3 DEF FramesInv
<1>5. /\ Frames(Sent')
      /\ pc' \in {"wait", "check", "range", "range2"} => pend' = <<>>
      /\ pc' \in {"range", "range2", "last"} => Ended(Sent')
  BY <1>1 DEF FramesInv
<1>6. pc' \in {"wait", "check"} /\ link' /\ notify_enabled' => Ended(Sent')
  BY <1>1 DEF FramesInv
<1> QED  BY <1>4, <1>5, <1>6 DEF FramesInv

\* A new subscription.
LEMMA FramesBegin ==
  ASSUME TypeInv, FramesInv, stream' = <<>>, UNCHANGED <<pc, seq, start, count, crc, rec, pend>>
  PROVE  FramesInv'
<1>1. /\ Sent' = pend /\ pend \in Seq(Token) /\ Sent \in Seq(Token) /\ Len(stream) \in Nat
      /\ Len(pend) + Len(stream) = Len(Sent) /\ Len(pend) + Len(stream) <= Len(Sent)
      /\ \A i \in 1 .. Len(pend) : pend[i] = Sent[i + Len(stream)]
  BY SentBegins, SentTokens
<1>2. Frames(Sent')  BY <1>1, FramesPart DEF FramesInv
<1>3. Ended(<<>>)  BY DEF Ended
<1>4. pc \in {"wait", "check", "range", "range2"} => Ended(Sent')  BY <1>1, <1>3 DEF FramesInv
<1>5. pc = "last" => Ended(Sent')  BY <1>1, EndedPart DEF FramesInv
<1>6. ASSUME Building' PROVE SumInv'
  <2>1. SumInv /\ Placed' = Placed  BY <1>6 DEF FramesInv, Building, Placed
  <2>2. EndsIn(Sent', crc)
    <3>1. crc \in Seq(Piece)  BY DEF TypeInv, TokensOK
    <3> QED  BY <1>1, <2>1, <3>1, EndsInPart DEF SumInv
  <2> QED  BY <2>1, <2>2 DEF SumInv
<1> QED  BY <1>2, <1>4, <1>5, <1>6 DEF FramesInv

\* The frames at the start.
LEMMA FramesInit == Init => FramesInv
<1> SUFFICES ASSUME Init PROVE FramesInv  OBVIOUS
<1>1. pc = "wait" /\ pend = <<>> /\ stream = <<>> /\ link = FALSE  BY DEF Init
<1>2. <<>> \o <<>> = <<>>  BY ConcatEmptySeq, EmptySeq
<1>3. Sent = <<>>  BY <1>1, <1>2 DEF Sent
<1>4. Frames(<<>>)  BY DEF Frames
<1> QED  BY <1>1, <1>3, <1>4 DEF FramesInv, Building

\* Every step keeps them.
LEMMA FramesStep == TypeInv /\ FramesInv /\ [Next]_vars => FramesInv'
<1> SUFFICES ASSUME TypeInv, FramesInv, [Next]_vars PROVE FramesInv'  OBVIOUS
<1>0. TypeOK /\ TokensOK /\ TypeOK'  BY TypeStep DEF TypeInv
<1>1. CASE store_append \/ disconnected \/ (\E w \in Writes : ctrl_write(w)) \/ UNCHANGED vars
  <2>1. /\ UNCHANGED <<pc, seq, start, count, crc, rec, pend, stream>>
        /\ (link' /\ notify_enabled') => (link /\ notify_enabled)
    BY <1>1 DEF store_append, disconnected, ctrl_write, vars, conn, range, build
  <2> QED  BY <2>1, FramesSame
<1>2. CASE connected
  BY <1>2, FramesBegin DEF connected, range
<1>3. CASE ccc_changed
  <2>1. UNCHANGED <<pc, seq, start, count, crc, rec, pend>>  BY <1>3 DEF ccc_changed, range
  <2>2. CASE notify_enabled
    <3>1. stream' = stream /\ notify_enabled' = FALSE  BY <1>3, <2>2 DEF ccc_changed
    <3> QED  BY <2>1, <3>1, FramesSame
  <2>3. CASE ~notify_enabled
    <3>1. stream' = <<>>  BY <1>3, <2>3 DEF ccc_changed
    <3> QED  BY <2>1, <3>1, FramesBegin
  <2> QED  BY <2>2, <2>3
<1>4. CASE TakeReq \/ Check \/ ReadFirstArgument
  <2>1. /\ UNCHANGED <<pend, stream, link, notify_enabled>>
        /\ pc \in {"wait", "check", "range"} /\ pc' \in {"wait", "check", "range", "range2"}
        /\ pc' = "range" => link /\ notify_enabled
        /\ pc' = "range2" => pc = "range"
        /\ pc' \in {"wait", "check"} => pc \in {"wait", "check"}
    BY <1>4 DEF TakeReq, Check, ReadFirstArgument, conn, build
  <2>2. Sent' = Sent  BY <2>1 DEF Sent
  <2>3. pc' = "range" => pc \in {"check"}
    BY <1>4 DEF TakeReq, Check, ReadFirstArgument
  <2> QED  BY <2>1, <2>2, <2>3 DEF FramesInv, Building
<1>5. CASE ReadSecondArgument
  <2>1. PICK r : /\ r = sntl_dump_range(first, IF lo = -1 THEN oldest ELSE lo,
                                              IF hi = -1 THEN next_seq ELSE hi)
                 /\ start' = r.start /\ count' = r.count /\ seq' = r.start
                 /\ pend' = <<Header(r)>>
                 /\ crc' = sntl_crc16(<<>>, Header(r))
                 /\ pc' = IF r.count = 0 THEN "crc" ELSE "get"
    BY <1>5 DEF ReadSecondArgument
  <2>2. r.start \in Nat /\ r.count \in Nat
    <3>1. start' \in Nat /\ count' \in 0 .. UINT16_MAX /\ UINT16_MAX \in Nat
      BY <1>0, CountAssumption DEF TypeOK
    <3> QED  BY <2>1, <3>1
  <2>3. /\ Header(r) \in HeaderToken /\ Header(r) \in Token
        /\ Header(r).start = r.start /\ Header(r).n = r.count
    BY <1>0, <2>2, HeaderFacts, Pieces DEF TypeOK
  <2>4. Sent' = Append(Sent, Header(r))
    <3>1. stream' = stream /\ pend = <<>>  BY <1>5 DEF ReadSecondArgument, FramesInv
    <3>2. Append(pend, Header(r)) = <<Header(r)>>  BY <2>3, <3>1
    <3> QED  BY <2>1, <2>3, <3>1, <3>2, SentGrows
  <2>5. crc' = <<Header(r)>>
    <3>1. crc \in Seq(Piece) /\ Header(r) \in Piece  BY <1>0, <2>3, Pieces DEF TokensOK
    <3> QED  BY <2>1, <3>1, SumFacts
  <2>6. Frames(Sent) /\ Ended(Sent) /\ Sent \in Seq(Token)
    BY <1>5, SentTokens DEF FramesInv, ReadSecondArgument
  <2>7. /\ Frames(Sent') /\ Covers(crc', r.start, r.count, 0) /\ EndsIn(Sent', crc')
    BY <2>3, <2>4, <2>5, <2>6, HeaderGrows
  <2>8. SumInv'
    <3>1. seq' - start' = 0  BY <2>1, <2>2
    <3>2. /\ seq' >= start' /\ seq' <= start' + count'
          /\ pc' \in {"get", "place"} => seq' < start' + count'
          /\ pc' = "crc" => seq' = start' + count'
          /\ pc' # "place"
      BY <2>1, <2>2
    <3> QED  BY <2>1, <2>7, <3>1, <3>2 DEF SumInv, Placed
  <2> QED  BY <2>1, <2>7, <2>8 DEF FramesInv
<1>6. CASE GetRecord
  <2>1. UNCHANGED <<seq, start, count, crc, pend, stream>> /\ pc = "get" /\ pc' = "place"
    BY <1>6 DEF GetRecord, range
  <2>2. Sent' = Sent /\ Placed' = Placed /\ SumInv
    BY <2>1 DEF Sent, Placed, FramesInv, Building
  <2>3. rec'.seq = seq  BY <1>0, <1>6, RecordFacts DEF GetRecord, TypeOK
  <2>4. SumInv'  BY <2>1, <2>2, <2>3 DEF SumInv
  <2> QED  BY <2>1, <2>2, <2>4 DEF FramesInv
<1>7. CASE PlaceRecord
  <2>1. /\ pc = "place" /\ pend' = Append(pend, rec) /\ stream' = stream
        /\ crc' = Append(crc, rec)
        /\ seq' = seq + 1 /\ UNCHANGED <<start, count>>
        /\ pc' = IF seq + 1 < start + count THEN "get" ELSE "crc"
    BY <1>7 DEF PlaceRecord, range, sntl_crc16
  <2>2. rec \in RecordToken /\ rec \in Token  BY <1>0, <2>1, Pieces DEF TokensOK
  <2>3. Sent' = Append(Sent, rec)  BY <2>1, <2>2, SentGrows
  <2>4. SumInv /\ seq < start + count /\ rec.seq = seq
    BY <2>1 DEF FramesInv, Building, SumInv
  <2>5. /\ start \in Nat /\ seq \in Nat /\ count \in Nat
        /\ Placed \in Nat /\ Placed < count /\ rec.seq = start + Placed
    <3>1. start \in Nat /\ seq \in Nat /\ count \in Nat
      BY <1>0, CountAssumption DEF TypeOK
    <3>2. seq >= start  BY <2>4 DEF SumInv
    <3> QED  BY <2>4, <3>1, <3>2 DEF Placed
  <2>6. /\ Frames(Sent') /\ Covers(crc', start, count, Placed + 1) /\ EndsIn(Sent', crc')
    <3>1. Sent \in Seq(Token) /\ crc \in Seq(Piece) /\ Frames(Sent)
      BY <1>0, SentTokens DEF TokensOK, FramesInv
    <3> QED  BY <2>1, <2>2, <2>3, <2>4, <2>5, <3>1, RecordGrows DEF SumInv
  <2>7. SumInv'
    <3>1. seq' - start' = Placed + 1  BY <2>1, <2>5 DEF Placed
    <3>2. /\ seq' >= start' /\ seq' <= start' + count'
          /\ pc' \in {"get", "place"} => seq' < start' + count'
          /\ pc' = "crc" => seq' = start' + count'
          /\ pc' # "place"
      <4>1. seq >= start  BY <2>4 DEF SumInv
      <4> QED  BY <2>1, <2>4, <2>5, <4>1
    <3> QED  BY <2>1, <2>6, <3>1, <3>2 DEF SumInv, Placed
  <2> QED  BY <2>1, <2>6, <2>7 DEF FramesInv
<1>8. CASE PlaceCrc
  <2>1. pc = "crc" /\ pend' = Append(pend, Crc) /\ stream' = stream /\ pc' = "last"
    BY <1>8 DEF PlaceCrc
  <2>2. crc \in Seq(Piece) /\ Crc \in CrcToken /\ Crc \in Token /\ Crc.sum = crc
    BY <1>0, CrcFacts, Pieces DEF TokensOK
  <2>3. Sent' = Append(Sent, Crc)  BY <2>1, <2>2, SentGrows
  <2>4. SumInv /\ start \in Nat /\ count \in Nat /\ seq = start + count
    BY <1>0, <2>1, CountAssumption DEF FramesInv, Building, SumInv, TypeOK
  <2>5. Placed = count  BY <2>4 DEF Placed
  <2>6. Frames(Sent') /\ Ended(Sent')
    <3>1. Sent \in Seq(Token) /\ Frames(Sent)  BY SentTokens DEF FramesInv
    <3>2. Covers(crc, start, count, count) /\ EndsIn(Sent, crc)  BY <2>4, <2>5 DEF SumInv
    <3> QED  BY <2>2, <2>3, <2>4, <3>1, <3>2, CrcGrows
  <2> QED  BY <2>1, <2>6 DEF FramesInv, Building
<1>9. CASE NotifyOk
  <2>1. CASE pc = "last"
    <3>1. pc' = "wait" /\ pend' = <<>> /\ stream' = stream \o pend
      BY <1>9, <2>1 DEF NotifyOk, Return
    <3>2. Sent' = Sent /\ Ended(Sent) /\ Frames(Sent)  BY <2>1, <3>1, SentGoes DEF FramesInv
    <3> QED  BY <3>1, <3>2 DEF FramesInv, Building
  <2>2. CASE pc # "last"
    <3>1. /\ pend' = <<>> /\ stream' = stream \o pend /\ pc \in {"place", "crc"}
          /\ UNCHANGED <<crc, pc, seq, start, count, rec>>
      BY <1>9, <2>2 DEF NotifyOk, MustFlush
    <3>2. Sent' = Sent /\ Placed' = Placed /\ SumInv /\ Frames(Sent)
      BY <3>1, SentGoes DEF FramesInv, Building, Placed
    <3>3. SumInv'  BY <3>1, <3>2 DEF SumInv
    <3> QED  BY <3>1, <3>2, <3>3 DEF FramesInv
  <2> QED  BY <2>1, <2>2
<1>10. CASE NotifyFails
  <2>1. /\ pc' = "wait" /\ pend' = <<>> /\ stream' = stream
        /\ ~(link /\ notify_enabled) /\ UNCHANGED conn
    BY <1>10 DEF NotifyFails, Return
  <2>2. Sent' = stream /\ Frames(Sent)  BY <2>1, SentStops DEF FramesInv
  <2>3. Frames(Sent')  BY <2>2, ReceivedIsFrames
  <2> QED  BY <2>1, <2>3 DEF FramesInv, Building, conn
<1> QED
  BY <1>1, <1>2, <1>3, <1>4, <1>5, <1>6, <1>7, <1>8, <1>9, <1>10 DEF Next, dump_thread

-----------------------------------------------------------------------------
(* The ring and the request.                                               *)

\* What a step does to the ring.
LEMMA RingLater ==
  ASSUME TypeInv, [Next]_vars
  PROVE  /\ oldest \in Nat /\ next_seq \in Nat /\ oldest' \in Nat /\ next_seq' \in Nat
         /\ oldest <= oldest' /\ next_seq <= next_seq'
         /\ \A s \in Nat : s < next_seq /\ s \notin held => s \notin held'
<1>1. up /\ oldest \in Nat /\ next_seq \in Nat /\ RingOK  BY DEF TypeInv, TypeOK
<1>2. CASE store_append
  <2>1. AppendRecord  BY <1>2 DEF store_append
  <2> QED  BY <1>1, <2>1, RingStep
<1>3. CASE ~store_append
  <2>1. UNCHANGED store
    BY <1>3 DEF Next, vars, connected, disconnected, ccc_changed, ctrl_write, dump_thread,
                TakeReq, Check, ReadFirstArgument, ReadSecondArgument, GetRecord,
                PlaceRecord, PlaceCrc, NotifyOk, NotifyFails
  <2> QED  BY <1>1, <2>1 DEF store, ringVars
<1> QED  BY <1>2, <1>3

\* What was true of a token stays true of it.
LEMMA SoundLater ==
  ASSUME TypeInv, [Next]_vars, NEW t \in Token, Sound(t, oldest, next_seq, held)
  PROVE  Sound(t, oldest', next_seq', held')
<1>0. /\ oldest \in Nat /\ next_seq \in Nat /\ oldest' \in Nat /\ next_seq' \in Nat
      /\ oldest <= oldest' /\ next_seq <= next_seq'
      /\ \A s \in Nat : s < next_seq /\ s \notin held => s \notin held'
  BY RingLater
<1>1. CASE t.kind = "header"
  <2>1. /\ t.n \in Nat /\ t.first \in Nat /\ t.start \in Nat /\ t.upto \in Nat
        /\ t.kind # "record" /\ Answers(t, oldest)
    BY <1>1, TokenFacts DEF Sound
  <2>2. \A s \in t.first .. t.upto - 1 : s < oldest => s < oldest'  BY <1>0, <2>1
  <2>3. Answers(t, oldest')  BY <2>1, <2>2 DEF Answers
  <2> QED  BY <2>1, <2>3 DEF Sound
<1>2. CASE t.kind = "record"
  <2>1. t.seq \in Nat /\ t.kind # "header" /\ Gone(t, next_seq, held)
    BY <1>2, TokenFacts DEF Sound
  <2>2. t.seq < next_seq => t.seq < next_seq'  BY <1>0, <2>1
  <2>3. Gone(t, next_seq', held')  BY <1>0, <2>1, <2>2 DEF Gone
  <2> QED  BY <2>1, <2>3 DEF Sound
<1>3. CASE t.kind = "crc"  BY <1>3 DEF Sound
<1> QED  BY <1>1, <1>2, <1>3, TokenFacts

\* Nor is anything new said of the tokens of a stretch of what is sent.
LEMMA PartSound ==
  ASSUME TypeInv, [Next]_vars, AllSound(Sent, oldest, next_seq, held),
         NEW u \in Seq(Token), NEW d \in Nat,
         Len(u) + d <= Len(Sent), \A i \in 1 .. Len(u) : u[i] = Sent[i + d]
  PROVE  AllSound(u, oldest', next_seq', held')
<1>1. SUFFICES ASSUME NEW i \in 1 .. Len(u) PROVE Sound(u[i], oldest', next_seq', held')
  BY DEF AllSound
<1>2. i + d \in 1 .. Len(Sent)  BY SentTokens, Elements
<1>3. Sent[i + d] \in Token  BY <1>2, SentTokens, Elements
<1>4. Sound(Sent[i + d], oldest, next_seq, held)  BY <1>2 DEF AllSound
<1> QED  BY <1>3, <1>4, SoundLater

\* A token more, of which the same is true.
LEMMA MoreSound ==
  ASSUME TypeInv, [Next]_vars, AllSound(Sent, oldest, next_seq, held),
         NEW e \in Token, Sound(e, oldest', next_seq', held')
  PROVE  AllSound(Append(Sent, e), oldest', next_seq', held')
<1>1. SUFFICES ASSUME NEW i \in 1 .. Len(Append(Sent, e))
               PROVE  Sound(Append(Sent, e)[i], oldest', next_seq', held')
  BY DEF AllSound
<1>2. /\ Sent \in Seq(Token) /\ Len(Sent) \in Nat /\ Len(Append(Sent, e)) = Len(Sent) + 1
      /\ \A j \in 1 .. Len(Sent) : Append(Sent, e)[j] = Sent[j]
      /\ Append(Sent, e)[Len(Sent) + 1] = e
  BY SentTokens, Longer
<1>3. CASE i \in 1 .. Len(Sent)
  <2>1. Append(Sent, e)[i] = Sent[i]  BY <1>2, <1>3
  <2>2. Sent[i] \in Token  BY <1>2, <1>3, Elements
  <2>3. Sound(Sent[i], oldest, next_seq, held)  BY <1>3 DEF AllSound
  <2> QED  BY <2>1, <2>2, <2>3, SoundLater
<1>4. CASE i = Len(Sent) + 1  BY <1>2, <1>4
<1> QED  BY <1>2, <1>3, <1>4

\* What is true of the tokens sent stays true whatever the step does to them.
LEMMA SentSound ==
  ASSUME TypeInv, [Next]_vars, AllSound(Sent, oldest, next_seq, held),
         \/ stream' = stream /\ pend' = pend
         \/ stream' = <<>> /\ pend' = pend
         \/ stream' = stream \o pend /\ pend' = <<>>
         \/ stream' = stream /\ pend' = <<>>
  PROVE  AllSound(Sent', oldest', next_seq', held')
<1>0. /\ Sent \in Seq(Token) /\ stream \in Seq(Token) /\ Len(Sent) \in Nat
      /\ Len(stream) + 0 <= Len(Sent) /\ Len(Sent) + 0 <= Len(Sent)
      /\ \A i \in 1 .. Len(stream) : stream[i] = Sent[i + 0]
      /\ \A i \in 1 .. Len(Sent) : Sent[i] = Sent[i + 0]
  BY SentTokens
<1>1. CASE stream' = stream /\ pend' = pend
  <2>1. Sent' = Sent  BY <1>1 DEF Sent
  <2> QED  BY <1>0, <2>1, PartSound
<1>2. CASE stream' = <<>> /\ pend' = pend
  <2>1. /\ Sent' = pend /\ pend \in Seq(Token) /\ Len(stream) \in Nat
        /\ Len(pend) + Len(stream) <= Len(Sent)
        /\ \A i \in 1 .. Len(pend) : pend[i] = Sent[i + Len(stream)]
    BY <1>2, SentBegins, SentTokens
  <2> QED  BY <2>1, PartSound
<1>3. CASE stream' = stream \o pend /\ pend' = <<>>
  <2>1. Sent' = Sent  BY <1>3, SentGoes
  <2> QED  BY <1>0, <2>1, PartSound
<1>4. CASE stream' = stream /\ pend' = <<>>
  <2>1. Sent' = stream  BY <1>4, SentStops
  <2> QED  BY <1>0, <2>1, PartSound
<1> QED  BY <1>1, <1>2, <1>3, <1>4

\* The ranges at the start.
LEMMA RangeInit == Init => RangeInv
<1> SUFFICES ASSUME Init PROVE RangeInv  OBVIOUS
<1>1. pc = "wait" /\ pend = <<>> /\ stream = <<>> /\ lo = -1 /\ hi = -1  BY DEF Init
<1>2. <<>> \o <<>> = <<>>  BY ConcatEmptySeq, EmptySeq
<1>3. Sent = <<>>  BY <1>1, <1>2 DEF Sent
<1>4. AllSound(Sent, oldest, next_seq, held)  BY <1>3 DEF AllSound
<1> QED  BY <1>1, <1>4 DEF RangeInv

\* Every step keeps them.
LEMMA RangeStep == TypeInv /\ FramesInv /\ RangeInv /\ [Next]_vars => RangeInv'
<1> SUFFICES ASSUME TypeInv, FramesInv, RangeInv, [Next]_vars PROVE RangeInv'  OBVIOUS
<1>0. TypeOK /\ TokensOK /\ UINT16_MAX \in Nat /\ AllSound(Sent, oldest, next_seq, held)
  BY CountAssumption DEF TypeInv, RangeInv
<1>R. /\ oldest \in Nat /\ next_seq \in Nat /\ oldest' \in Nat /\ next_seq' \in Nat
      /\ oldest <= oldest' /\ next_seq <= next_seq'
  BY RingLater
<1>1. CASE /\ store_append \/ connected \/ disconnected \/ ccc_changed
                \/ (\E w \in Writes : ctrl_write(w)) \/ UNCHANGED vars \/ TakeReq
  <2>1. /\ UNCHANGED <<upto, lo, hi, start, count, rec, pend>>
        /\ pc' = pc \/ pc' = "check"
        /\ stream' = stream \/ stream' = <<>>
    BY <1>1 DEF store_append, connected, disconnected, ccc_changed, ctrl_write, vars, TakeReq,
                conn, range, build
  <2>2. AllSound(Sent', oldest', next_seq', held')  BY <1>0, <2>1, SentSound
  <2>3. pc' = "place" => Sound(rec', oldest', next_seq', held')
    <3>1. SUFFICES ASSUME pc' = "place" PROVE Sound(rec, oldest', next_seq', held')
      BY <2>1
    <3>2. pc = "place"  BY <2>1, <3>1
    <3>3. rec \in Token /\ Sound(rec, oldest, next_seq, held)
      BY <1>0, <3>2, Pieces DEF TokensOK, RangeInv
    <3> QED  BY <3>3, SoundLater
  <2>4. /\ pc' \in {"range", "range2"} => upto' <= next_seq'
        /\ pc' \in {"get", "place"} => start' + count' <= next_seq'
    <3>1. upto \in Nat /\ start + count \in Nat  BY <1>0 DEF TypeOK
    <3>2. \A x \in Nat : x <= next_seq => x <= next_seq'  BY <1>R
    <3> QED  BY <2>1, <3>1, <3>2 DEF RangeInv
  <2>5. lo' # -1 => lo' <= oldest'
    <3>1. \A x \in Nat : x <= oldest => x <= oldest'  BY <1>R
    <3> QED  BY <1>0, <2>1, <3>1 DEF RangeInv, TypeOK
  <2>6. hi' # -1 => upto' <= hi' /\ hi' <= next_seq'
    <3>1. \A x \in Nat : x <= next_seq => x <= next_seq'  BY <1>R
    <3> QED  BY <1>0, <2>1, <3>1 DEF RangeInv, TypeOK
  <2>7. pc' # "range2" => lo' = -1 /\ hi' = -1
    <3>1. TakeReq => pc # "range2"  BY DEF TakeReq
    <3>2. pc' # "range2" => pc # "range2"
      BY <1>1, <3>1 DEF store_append, connected, disconnected, ccc_changed, ctrl_write, vars
    <3> QED  BY <2>1, <3>2 DEF RangeInv
  <2> QED  BY <2>2, <2>3, <2>4, <2>5, <2>6, <2>7 DEF RangeInv
<1>2. CASE Check
  <2>1. /\ UNCHANGED <<lo, hi, stream, pend, oldest, next_seq>> /\ pc = "check"
        /\ (pc' = "range" /\ upto' = next_seq) \/ pc' = "wait"
    BY <1>2 DEF Check, build, store, ringVars
  <2>2. AllSound(Sent', oldest', next_seq', held')  BY <1>0, <2>1, SentSound
  <2> QED  BY <1>R, <2>1, <2>2 DEF RangeInv
<1>3. CASE ReadFirstArgument
  <2>1. /\ UNCHANGED <<upto, stream, pend, oldest, next_seq>> /\ pc = "range" /\ pc' = "range2"
        /\ \/ lo' = oldest /\ hi' = hi
           \/ hi' = next_seq /\ lo' = lo
    BY <1>3 DEF ReadFirstArgument, build, store, ringVars
  <2>2. AllSound(Sent', oldest', next_seq', held')  BY <1>0, <2>1, SentSound
  <2>3. lo = -1 /\ hi = -1 /\ upto <= next_seq  BY <2>1 DEF RangeInv
  <2> QED  BY <1>R, <2>1, <2>2, <2>3 DEF RangeInv
<1>4. CASE ReadSecondArgument
  <2> DEFINE from == IF lo = -1 THEN oldest ELSE lo
             to   == IF hi = -1 THEN next_seq ELSE hi
  <2>1. PICK r : /\ r = sntl_dump_range(first, from, to)
                 /\ start' = r.start /\ count' = r.count
                 /\ pend' = <<Header(r)>>
                 /\ pc' = IF r.count = 0 THEN "crc" ELSE "get"
    BY <1>4 DEF ReadSecondArgument
  <2>2. /\ pc = "range2" /\ stream' = stream /\ UNCHANGED <<oldest, next_seq>>
        /\ lo' = -1 /\ hi' = -1 /\ pend = <<>>
    BY <1>4 DEF ReadSecondArgument, store, ringVars, FramesInv
  <2>3. /\ from \in Nat /\ to \in Nat /\ first \in Nat /\ upto \in Nat
        /\ from <= oldest /\ upto <= to /\ to <= next_seq
    BY <1>0, <1>R, <2>2 DEF RangeInv, TypeOK
  <2> HIDE DEF from, to
  <2>4. /\ r.start \in Nat /\ r.count \in Nat /\ r.start + r.count <= to
        /\ r.count > 0 => r.start >= first
    BY <2>1, <2>3, RangeFacts
  <2>5. /\ Header(r) \in Token /\ Header(r).kind = "header"
        /\ Header(r).start = r.start /\ Header(r).n = r.count
        /\ Header(r).first = first /\ Header(r).upto = upto
    BY <2>3, <2>4, HeaderFacts, Pieces
  <2>6. Answers(Header(r), oldest')
    <3>1. ASSUME NEW s \in first .. upto - 1
          PROVE  s \in r.start .. r.start + r.count - 1 \/ s < oldest'
                   \/ (r.count = UINT16_MAX /\ s >= r.start + r.count)
      <4>1. s \in Nat /\ s >= first /\ s < to  BY <2>3, <3>1
      <4>2. CASE s >= r.start /\ s < r.start + r.count  BY <2>4, <4>1, <4>2
      <4>3. CASE s < from  BY <1>R, <2>3, <4>1, <4>3
      <4>4. CASE r.count = UINT16_MAX /\ s >= r.start + r.count  BY <4>4
      <4>5. \/ s >= r.start /\ s < r.start + r.count
            \/ s < from
            \/ r.count = UINT16_MAX /\ s >= r.start + r.count
        BY <2>1, <2>3, <4>1, RangeAnswers
      <4> QED  BY <4>2, <4>3, <4>4, <4>5
    <3> QED  BY <2>4, <2>5, <3>1 DEF Answers
  <2>7. Sound(Header(r), oldest', next_seq', held')  BY <2>5, <2>6 DEF Sound
  <2>8. Sent' = Append(Sent, Header(r))
    <3>1. Append(pend, Header(r)) = <<Header(r)>>  BY <2>2, <2>5
    <3> QED  BY <2>1, <2>2, <2>5, <3>1, SentGrows
  <2>9. AllSound(Sent', oldest', next_seq', held')  BY <1>0, <2>5, <2>7, <2>8, MoreSound
  <2>10. start' + count' <= next_seq' /\ pc' \in {"crc", "get"}
    BY <1>R, <2>1, <2>2, <2>3, <2>4
  <2> QED  BY <2>2, <2>9, <2>10 DEF RangeInv
<1>5. CASE GetRecord
  <2>1. /\ UNCHANGED <<start, count, lo, hi, stream, pend, oldest, next_seq, held>>
        /\ pc = "get" /\ pc' = "place"
        /\ rec' = IF seq \in held THEN Stored(seq) ELSE Placeholder(seq)
    BY <1>5 DEF GetRecord, range, store, ringVars
  <2>2. AllSound(Sent', oldest', next_seq', held')  BY <1>0, <2>1, SentSound
  <2>3. seq \in Nat /\ seq < next_seq
    <3>1. seq \in Nat /\ start \in Nat /\ count \in Nat  BY <1>0 DEF TypeOK
    <3>2. seq < start + count /\ start + count <= next_seq
      BY <2>1 DEF FramesInv, Building, SumInv, RangeInv
    <3> QED  BY <1>R, <3>1, <3>2
  <2>4. Sound(rec', oldest', next_seq', held')
    <3>1. CASE seq \in held
      <4>1. rec'.kind = "record" /\ rec'.stored  BY <2>1, <2>3, <3>1, RecordFacts
      <4> QED  BY <4>1 DEF Sound, Gone
    <3>2. CASE seq \notin held
      <4>1. rec'.kind = "record" /\ rec'.seq = seq  BY <2>1, <2>3, <3>2, RecordFacts
      <4> QED  BY <2>1, <2>3, <3>2, <4>1 DEF Sound, Gone
    <3> QED  BY <3>1, <3>2
  <2> QED  BY <2>1, <2>2, <2>4 DEF RangeInv
<1>6. CASE PlaceRecord
  <2>1. /\ UNCHANGED <<start, count, lo, hi, stream, next_seq>>
        /\ pc = "place" /\ pc' \in {"get", "crc"} /\ pend' = Append(pend, rec)
    BY <1>6 DEF PlaceRecord, range, store, ringVars
  <2>2. rec \in Token /\ Sound(rec, oldest, next_seq, held)
    BY <1>0, <2>1, Pieces DEF TokensOK, RangeInv
  <2>3. Sound(rec, oldest', next_seq', held')  BY <2>2, SoundLater
  <2>4. Sent' = Append(Sent, rec)  BY <2>1, <2>2, SentGrows
  <2>5. AllSound(Sent', oldest', next_seq', held')  BY <1>0, <2>2, <2>3, <2>4, MoreSound
  <2> QED  BY <2>1, <2>5 DEF RangeInv
<1>7. CASE PlaceCrc
  <2>1. /\ UNCHANGED <<lo, hi, stream>> /\ pc = "crc" /\ pc' = "last" /\ pend' = Append(pend, Crc)
    BY <1>7 DEF PlaceCrc, range
  <2>2. Crc \in Token /\ Crc.kind = "crc"  BY <1>0, CrcFacts, Pieces DEF TokensOK
  <2>3. Sound(Crc, oldest', next_seq', held')  BY <2>2 DEF Sound
  <2>4. Sent' = Append(Sent, Crc)  BY <2>1, <2>2, SentGrows
  <2>5. AllSound(Sent', oldest', next_seq', held')  BY <1>0, <2>2, <2>3, <2>4, MoreSound
  <2> QED  BY <2>1, <2>5 DEF RangeInv
<1>8. CASE NotifyOk \/ NotifyFails
  <2>1. /\ UNCHANGED <<lo, hi, oldest, next_seq, held>>
        /\ stream' = stream \o pend \/ stream' = stream
        /\ pc # "range2"
        /\ \/ pc' = "wait"
           \/ pc' = pc /\ pc \in {"place", "crc"} /\ UNCHANGED <<start, count, rec>>
    BY <1>8 DEF NotifyOk, NotifyFails, MustFlush, Return, store, ringVars
  <2>2. pend' = <<>>  BY <1>8 DEF NotifyOk, NotifyFails, Return
  <2>3. AllSound(Sent', oldest', next_seq', held')  BY <1>0, <2>1, <2>2, SentSound
  <2>4. CASE pc' = "wait"  BY <2>1, <2>3, <2>4 DEF RangeInv
  <2>5. CASE pc' = pc /\ pc \in {"place", "crc"} /\ UNCHANGED <<start, count, rec>>
    <3>1. /\ pc' = "place" => start' + count' <= next_seq'
          /\ pc' = "place" => Sound(rec', oldest', next_seq', held')
      BY <2>1, <2>5 DEF RangeInv
    <3>2. lo' = -1 /\ hi' = -1  BY <2>1, <2>5 DEF RangeInv
    <3> QED  BY <2>3, <2>5, <3>1, <3>2 DEF RangeInv
  <2> QED  BY <2>1, <2>4, <2>5
<1> QED  BY <1>1, <1>2, <1>3, <1>4, <1>5, <1>6, <1>7, <1>8 DEF Next, dump_thread

\* A request that waits: at the start, and after every step.
LEMMA OwedStep ==
  /\ Init => OwedInv
  /\ TypeInv /\ OwedInv /\ [Next]_vars => OwedInv'
<1>1. Init => OwedInv  BY DEF Init, OwedInv, NoRequestLost
<1>2. ASSUME TypeInv, OwedInv, [Next]_vars PROVE OwedInv'
  <2>0. TypeOK  BY <1>2 DEF TypeInv
  <2>1. CASE connected
    BY <1>2, <2>0, <2>1 DEF TypeOK, connected, OwedInv, NoRequestLost, req
  <2>2. CASE disconnected \/ ccc_changed
    BY <2>2 DEF disconnected, ccc_changed, OwedInv, NoRequestLost
  <2>3. ASSUME NEW w \in Writes, ctrl_write(w) PROVE OwedInv'
    BY <2>3 DEF ctrl_write, OwedInv, NoRequestLost
  <2>4. CASE TakeReq
    BY <1>2, <2>4 DEF TakeReq, OwedInv, NoRequestLost, conn
  <2>5. CASE Check
    <3>1. CASE link /\ notify_enabled
      BY <2>5, <3>1 DEF Check, OwedInv, NoRequestLost
    <3>2. CASE ~(link /\ notify_enabled)
      BY <1>2, <2>5, <3>2 DEF Check, OwedInv, NoRequestLost
    <3> QED  BY <3>1, <3>2
  <2>6. CASE store_append \/ ReadFirstArgument \/ ReadSecondArgument \/ GetRecord \/ PlaceRecord
             \/ PlaceCrc \/ NotifyOk \/ NotifyFails \/ UNCHANGED vars
    <3>1. UNCHANGED <<conn, req>> /\ (pc = "check" => pc' = "check")
      BY <2>6 DEF store_append, ReadFirstArgument, ReadSecondArgument, GetRecord, PlaceRecord,
                  PlaceCrc, NotifyOk, NotifyFails, MustFlush, vars
    <3> QED  BY <1>2, <3>1 DEF OwedInv, NoRequestLost, conn, req
  <2> QED  BY <1>2, <2>1, <2>2, <2>3, <2>4, <2>5, <2>6 DEF Next, dump_thread
<1> QED  BY <1>1, <1>2

-----------------------------------------------------------------------------
(* The theorems.                                                           *)

\* Every variable of the dump path has its type, and what is in buf, on the air
\* and under the CRC is headers, records and CRCs (ble.c:140-200).
THEOREM DumpTypes == Spec => []TypeInv
<1>1. TypeInv /\ UNCHANGED vars => TypeInv'  BY TypeStep
<1> QED  BY TypeInit, TypeStep, <1>1, PTL DEF Spec

\* The frames and the ranges of them are invariants.
LEMMA DumpInvariants == Spec => [](TypeInv /\ FramesInv /\ RangeInv)
<1>1. Init => TypeInv /\ FramesInv /\ RangeInv  BY TypeInit, FramesInit, RangeInit
<1>2. TypeInv /\ FramesInv /\ RangeInv /\ [Next]_vars => (TypeInv /\ FramesInv /\ RangeInv)'
  BY TypeStep, FramesStep, RangeStep
<1> QED  BY <1>1, <1>2, PTL DEF Spec

\* A dump request of a subscribed central always has the semaphore given for it,
\* or the dump thread about to read what it asked for, whatever control writes,
\* dumps and reconnections it falls between (ble.c:94-117, 189-200).
THEOREM RequestsAreKept == Spec => []NoRequestLost
<1>1. TypeInv /\ OwedInv /\ [Next]_vars => (TypeInv /\ OwedInv)'  BY TypeStep, OwedStep
<1>2. Init => TypeInv /\ OwedInv  BY TypeInit, OwedStep
<1>3. OwedInv => NoRequestLost  BY DEF OwedInv
<1> QED  BY <1>1, <1>2, <1>3, PTL DEF Spec

\* What a subscriber receives is frames back to back, each with as many records
\* as its header announces and then its CRC, however appends, requests,
\* reconnections and refused notifications fall (ble.c:122-185).
THEOREM FramesAreWhole == Spec => []StreamIsFrames
<1>1. ASSUME TypeInv, FramesInv PROVE StreamIsFrames
  <2>0. Frames(stream) /\ stream \in Seq(Token) /\ Len(stream) \in Nat
    BY <1>1, ReceivedIsFrames, SentTokens DEF FramesInv
  <2>1. SUFFICES ASSUME NEW i \in 2 .. Len(stream)
        PROVE  /\ IsHeader(i) => IsCrc(i - 1)
               /\ IsRecord(i) => \/ IsHeader(i - 1) /\ stream[i].seq = stream[i - 1].start
                                 \/ IsRecord(i - 1) /\ stream[i].seq = stream[i - 1].seq + 1
               /\ IsHeader(i - 1) => LET end == i + stream[i - 1].n IN
                    \A j \in i .. Len(stream) :
                      (IsCrc(j) /\ \A k \in i .. j - 1 : ~IsCrc(k)) => j = end
    BY DEF StreamIsFrames
  <2>2. /\ IsHeader(i) => IsCrc(i - 1)
        /\ IsRecord(i) => \/ IsHeader(i - 1) /\ stream[i].seq = stream[i - 1].start
                          \/ IsRecord(i - 1) /\ stream[i].seq = stream[i - 1].seq + 1
    BY <2>0 DEF Frames, IsHeader, IsRecord, IsCrc
  <2>3. ASSUME IsHeader(i - 1), NEW j \in i .. Len(stream),
               IsCrc(j), \A k \in i .. j - 1 : ~IsCrc(k)
        PROVE  j = i + stream[i - 1].n
    <3> DEFINE g == i - 1
    <3>1. g \in 1 .. Len(stream) /\ j \in 1 .. Len(stream) /\ g < j /\ stream[g].kind = "header"
      BY <2>0, <2>3 DEF IsHeader
    <3>2. stream[g].n \in Nat  BY <2>0, <3>1, Elements, TokenFacts
    <3>3. PICK n \in Nat : n = stream[g].n  BY <3>2
    <3>4. ~(j <= g + n)
      <4>1. j <= g + stream[g].n => stream[j].kind = "record"  BY <2>0, <3>1 DEF Frames
      <4>2. stream[j].kind = "crc"  BY <2>3 DEF IsCrc
      <4> QED  BY <3>3, <4>1, <4>2
    <3>5. ~(j > i + n)
      <4> SUFFICES ASSUME j > i + n PROVE FALSE  OBVIOUS
      <4> DEFINE q == i + n
      <4>1. q \in i .. j - 1 /\ q \in 1 .. Len(stream) /\ g < q /\ q = g + n + 1
        BY <2>0, <2>3
      <4>2. q = g + stream[g].n + 1 => stream[q].kind = "crc"  BY <2>0, <3>1, <4>1 DEF Frames
      <4>3. IsCrc(q)  BY <3>3, <4>1, <4>2 DEF IsCrc
      <4> QED  BY <2>3, <4>1, <4>3
    <3>6. j = i + n  BY <2>3, <3>4, <3>5
    <3> QED  BY <3>3, <3>6
  <2> QED  BY <2>2, <2>3
<1> QED  BY <1>1, DumpInvariants, PTL

\* Whatever was appended between the request, the reading of the range and now,
\* every number that was asked for is in the frame, or gone from the ring, or
\* beyond the most a header can announce (ble.c:143-147, frame.c:80-92).
THEOREM FramesAnswer == Spec => []FrameAnswersRequest
<1>1. ASSUME TypeInv, RangeInv PROVE FrameAnswersRequest
  <2>1. SUFFICES ASSUME NEW i \in 1 .. Len(stream), IsHeader(i)
        PROVE  /\ \A s \in stream[i].first .. stream[i].upto - 1 :
                    \/ s \in stream[i].start .. (stream[i].start + stream[i].n) - 1
                    \/ s < oldest
                    \/ stream[i].n = UINT16_MAX /\ s >= stream[i].start + stream[i].n
               /\ stream[i].n > 0 => stream[i].start >= stream[i].first
    BY Zenon DEF FrameAnswersRequest
  <2>2. i \in 1 .. Len(Sent) /\ Sent[i] = stream[i]  BY <1>1, SentTokens
  <2>3. Sound(Sent[i], oldest, next_seq, held)  BY <1>1, <2>2 DEF RangeInv, AllSound
  <2>4. Answers(stream[i], oldest)  BY <2>1, <2>2, <2>3 DEF Sound, IsHeader
  <2>5. stream[i].n \in Nat /\ stream[i].start \in Nat
    BY <1>1, <2>1, SentTokens, Elements, TokenFacts DEF IsHeader
  <2>6. stream[i].start + stream[i].n - 1 = (stream[i].start + stream[i].n) - 1  BY <2>5
  <2> QED  BY <2>4, <2>6 DEF Answers
<1> QED  BY <1>1, DumpInvariants, PTL

\* The CRC a subscriber receives sums exactly the header and the records it
\* received with it, and a placeholder stands only for a record that the ring
\* has lost (ble.c:149-186).
THEOREM FramesSum == Spec => []FrameSumsUp
<1>1. ASSUME TypeInv, FramesInv, RangeInv PROVE FrameSumsUp
  <2>0. Frames(stream) /\ stream \in Seq(Token) /\ Len(stream) \in Nat
    BY <1>1, ReceivedIsFrames, SentTokens DEF FramesInv
  <2>1. ASSUME NEW g \in 1 .. Len(stream), NEW j \in 1 .. Len(stream),
               IsHeader(g), IsCrc(j), g < j, \A k \in g + 1 .. j - 1 : IsRecord(k)
        PROVE  stream[j].sum = SubSeq(stream, g, j - 1)
    <3>0. stream[g].kind = "header" /\ stream[j].kind = "crc"  BY <2>1 DEF IsHeader, IsCrc
    <3>1. stream[g].n \in Nat  BY <2>0, <3>0, Elements, TokenFacts
    <3>2. PICK n \in Nat : n = stream[g].n  BY <3>1
    <3>3. ~(j <= g + n)
      <4>1. j <= g + stream[g].n => stream[j].kind = "record"  BY <2>0, <2>1, <3>0 DEF Frames
      <4> QED  BY <3>0, <3>2, <4>1
    <3>4. ~(j > g + n + 1)
      <4> SUFFICES ASSUME j > g + n + 1 PROVE FALSE  OBVIOUS
      <4> DEFINE q == g + n + 1
      <4>1. q \in g + 1 .. j - 1 /\ q \in 1 .. Len(stream) /\ g < q  BY <2>0, <2>1
      <4>2. q = g + stream[g].n + 1 => stream[q].kind = "crc"  BY <2>0, <2>1, <3>0, <4>1 DEF Frames
      <4>3. stream[q].kind = "record"  BY <2>1, <4>1 DEF IsRecord
      <4> QED  BY <3>2, <4>2, <4>3
    <3>5. j = g + n + 1  BY <2>1, <3>3, <3>4
    <3>6. Len(stream[j].sum) = j - g /\ SumsFrom(stream[j].sum, stream, g)
      BY <2>0, <2>1, <3>0, <3>2, <3>5 DEF Frames
    <3> DEFINE p == SubSeq(stream, g, j - 1)
    <3>7. /\ p \in Seq(Token) /\ Len(p) = j - g
          /\ \A i \in 1 .. j - g : p[i] = stream[g + i - 1]
      <4>1. \A i \in g .. j - 1 : stream[i] \in Token  BY <2>0, Elements
      <4>2. /\ p \in Seq(Token)
            /\ Len(p) = IF g <= j - 1 THEN (j - 1) - g + 1 ELSE 0
            /\ \A i \in 1 .. (j - 1) - g + 1 : p[i] = stream[g + i - 1]
        BY <4>1, SubSeqProperties
      <4>3. g <= j - 1 /\ (j - 1) - g + 1 = j - g  BY <2>1
      <4> QED  BY <4>2, <4>3
    <3>8. stream[j].sum \in Seq(Token)
      <4>1. stream[j].sum \in Seq(Piece)  BY <2>0, <3>0, Elements, TokenFacts
      <4> QED  BY <4>1, Pieces, SeqMonotonic
    <3> HIDE DEF p
    <3>9. stream[j].sum = p  BY <3>6, <3>7, <3>8, SeqEqual DEF SumsFrom
    <3> QED  BY <3>9 DEF p
  <2>2. ASSUME NEW i \in 1 .. Len(stream), IsRecord(i), ~stream[i].stored
        PROVE  stream[i].seq \notin held
    <3>1. i \in 1 .. Len(Sent) /\ Sent[i] = stream[i]  BY <1>1, SentTokens
    <3>2. Sound(Sent[i], oldest, next_seq, held)  BY <1>1, <3>1 DEF RangeInv, AllSound
    <3> QED  BY <2>2, <3>1, <3>2 DEF Sound, Gone, IsRecord
  <2> QED  BY <2>1, <2>2 DEF FrameSumsUp
<1> QED  BY <1>1, DumpInvariants, PTL
=============================================================================
