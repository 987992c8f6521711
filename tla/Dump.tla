-------------------------------- MODULE Dump --------------------------------
(***************************************************************************)
(* The dump path of src/ble.c: control writes and subscription changes on  *)
(* the Bluetooth receive thread, connection callbacks, and the dump thread *)
(* that streams one frame - header, records, CRC - in notifications, while *)
(* the main loop goes on appending to the ring.                            *)
(*                                                                         *)
(* Bytes are abstracted to tokens, one per header, record and CRC; their   *)
(* sizes are kept where chunks are cut, and a CRC is the tokens it was     *)
(* summed over.  The records are those of Ring, which Store implements; an *)
(* append moves the ring as one step, and a number its first half has      *)
(* overwritten is missed by a store_get that waits for its second half as  *)
(* well as by one that does not.  The callbacks run on cooperative threads *)
(* and are single steps.                                                   *)
(*                                                                         *)
(* External: the Bluetooth stack.  There is one connection object          *)
(* (CONFIG_BT_MAX_CONN=1, prj.conf:32), so the pointer the dump thread     *)
(* holds names whatever link is up.  bt_gatt_notify fails for good without *)
(* a link or a subscription, answers -ENOMEM while its buffers are full,   *)
(* and answers -ENOMEM every time to a payload no bearer's MTU can carry.  *)
(***************************************************************************)
EXTENDS Ring, Sequences

CONSTANTS
  Mtus,       \* the MTUs a connection may have by the time it asks for a dump
  UINT16_MAX, \* the most records that a header can announce
  MaxSeq,     \* bound: next_seq stays at most this
  MaxLinks,   \* bound: connections made
  MaxWrites   \* bound: control writes and subscription changes

ASSUME MtusAssumption     == Mtus \subseteq Nat
ASSUME CountAssumption    == UINT16_MAX \in Nat \ {0}
ASSUME BoundsAssumption   == MaxSeq \in Nat /\ MaxLinks \in Nat /\ MaxWrites \in Nat

SNTL_HEADER_SIZE == 16
SNTL_RECORD_SIZE == 24
SNTL_CRC_SIZE    == 2
BUF_SIZE         == 244

VARIABLES
  link,             \* a central is connected (current_conn is not NULL)
  mtu,              \* of that connection
  notify_enabled,   \* it has subscribed to the data characteristic
  links, writes,    \* connections and writes so far (bounds)
  dump_req,         \* the semaphore, 0 or 1
  dump_first_seq,   \* what the last control write asked for
  owed,             \* a request of this subscription has no dump started for it yet
  pc,               \* where the dump thread is
  first,            \* dump_run's first_seq
  upto,             \* next_seq when dump_run was called
  lo, hi,           \* oldest and next as dump_run read them, -1 when not yet
  start, count, seq,
  chunk,            \* how much one notification may carry
  fill, pend,       \* bytes and tokens in buf
  crc,              \* the tokens the CRC is summed over so far
  rec,              \* the record in hand
  stream            \* tokens the central has received since it subscribed

store  == ringVars
conn   == <<link, mtu, notify_enabled, links, writes>>
req    == <<dump_req, dump_first_seq, owed>>
range  == <<first, upto, lo, hi, start, count, chunk>>
build  == <<seq, fill, pend, crc, rec, stream>>
vars   == <<store, conn, req, pc, range, build>>

NoToken == [kind |-> "none"]

Pcs == {"wait", "check", "range", "range2", "get", "place", "crc", "last"}

TypeOK ==
  /\ up /\ oldest \in Nat /\ next_seq \in Nat /\ RingOK
  /\ link \in BOOLEAN /\ notify_enabled \in BOOLEAN
  /\ mtu \in Mtus \cup {0}
  /\ links \in Nat /\ writes \in Nat
  /\ dump_req \in 0 .. 1
  /\ dump_first_seq \in Nat /\ first \in Nat /\ upto \in Nat
  /\ owed \in BOOLEAN
  /\ pc \in Pcs
  /\ lo \in Nat \cup {-1} /\ hi \in Nat \cup {-1}
  /\ start \in Nat /\ count \in 0 .. UINT16_MAX /\ seq \in Nat
  /\ chunk \in Nat /\ fill \in Nat
  /\ notify_enabled => link

-----------------------------------------------------------------------------
(* The range and the chunk: sntl_dump_range, dump_run's first lines.       *)

\* Mutant: the comparison is strict, as for "seq > last one I have".
sntl_dump_range_Exclusive(f, from, to) ==
  LET s == IF f >= from THEN f + 1 ELSE from
  IN  IF s >= to THEN [start |-> to, count |-> 0]
      ELSE [start |-> s, count |-> IF to - s > UINT16_MAX THEN UINT16_MAX ELSE to - s]

sntl_dump_range(f, from, to) ==
  LET s == IF f > from THEN f ELSE from
  IN  IF s >= to THEN [start |-> to, count |-> 0]
      ELSE [start |-> s, count |-> IF to - s > UINT16_MAX THEN UINT16_MAX ELSE to - s]

\* bt_gatt_get_mtu answers 0 for an object without a link.
ChunkOf(m) ==
  LET c == IF m > 3 THEN m - 3 ELSE 20
  IN  IF c > BUF_SIZE THEN BUF_SIZE ELSE c

\* sntl_encode_header; what it answers to is noted along with it.
Header(r) ==
  [kind |-> "header", n |-> r.count, first |-> first, start |-> r.start, upto |-> upto]

Stored(s) == [kind |-> "record", seq |-> s, stored |-> TRUE]

\* What is sent for a number that has been recycled meanwhile.
Placeholder(s) == [kind |-> "record", seq |-> s, stored |-> FALSE]

\* Mutant: every piece is summed from the seed again.
sntl_crc16_FromSeed(sum, piece) == <<piece>>

\* Chained over header and records; two sums are told apart by what they cover.
sntl_crc16(sum, piece) == Append(sum, piece)

Crc == [kind |-> "crc", sum |-> crc]

\* Control writes: the op and its length, whole or in parts (offset).
Writes == [offset : {0, 1}, op : {"dump", "other"}, len : {4, 5}, first_seq : 0 .. MaxSeq]

SNTL_CMD_LEN == 5

sntl_parse_cmd(w) == w.len = SNTL_CMD_LEN /\ w.op = "dump"

-----------------------------------------------------------------------------
Init ==
  /\ up = TRUE
  /\ next_seq \in 0 .. MaxSeq
  /\ oldest = IF next_seq > Capacity THEN next_seq - Capacity ELSE 0
  /\ held \in SUBSET InRange /\ RingOK
  /\ link = FALSE /\ mtu = 0 /\ notify_enabled = FALSE
  /\ links = 0 /\ writes = 0
  /\ dump_req = 0 /\ dump_first_seq = 0 /\ owed = FALSE
  /\ pc = "wait"
  /\ first = 0 /\ upto = 0 /\ lo = -1 /\ hi = -1
  /\ start = 0 /\ count = 0 /\ seq = 0 /\ chunk = 0
  /\ fill = 0 /\ pend = <<>> /\ crc = <<>> /\ rec = NoToken
  /\ stream = <<>>

(* The main loop. *)
store_append ==
  /\ next_seq < MaxSeq
  /\ AppendRecord
  /\ UNCHANGED <<conn, req, pc, range, build>>

(* Callbacks of the Bluetooth stack. *)
connected ==
  /\ ~link /\ links < MaxLinks
  /\ link' = TRUE /\ mtu' \in Mtus /\ links' = links + 1
  /\ stream' = <<>>
  /\ UNCHANGED <<store, notify_enabled, writes, req, pc, range, seq, fill, pend, crc, rec>>

\* The stack clears the subscription of an unbonded peer with the link.
disconnected ==
  /\ link
  /\ link' = FALSE /\ mtu' = 0 /\ notify_enabled' = FALSE
  /\ owed' = FALSE
  /\ UNCHANGED <<store, links, writes, dump_req, dump_first_seq, pc, range, build>>

ccc_changed ==
  /\ link /\ writes < MaxWrites
  /\ writes' = writes + 1
  /\ notify_enabled' = ~notify_enabled
  /\ stream' = IF notify_enabled THEN stream ELSE <<>>
  /\ owed' = FALSE
  /\ UNCHANGED <<store, link, mtu, links, dump_req, dump_first_seq, pc, range,
                 seq, fill, pend, crc, rec>>

\* A valid dump command; others are refused and change nothing.
ctrl_write(w) ==
  /\ link /\ writes < MaxWrites
  /\ w.offset = 0 /\ sntl_parse_cmd(w)
  /\ writes' = writes + 1
  /\ dump_first_seq' = w.first_seq
  /\ dump_req' = 1
  /\ owed' = notify_enabled
  /\ UNCHANGED <<store, link, mtu, notify_enabled, links, pc, range, build>>

(* The dump thread. *)
TakeReq ==
  /\ pc = "wait" /\ dump_req = 1
  /\ dump_req' = 0
  /\ pc' = "check"
  /\ UNCHANGED <<store, conn, dump_first_seq, owed, range, build>>

\* Go only with a subscriber; first_seq is the latest request's, whichever
\* request the semaphore was given for.
Check ==
  /\ pc = "check"
  /\ IF link /\ notify_enabled
       THEN /\ pc' = "range"
            /\ first' = dump_first_seq
            /\ upto' = next_seq
            /\ owed' = FALSE
       ELSE /\ pc' = "wait"
            /\ UNCHANGED <<first, upto, owed>>
  /\ UNCHANGED <<store, conn, dump_req, dump_first_seq, lo, hi, start, count, chunk, build>>

\* The two arguments store_oldest_seq() and store_next_seq() are evaluated in
\* an order C leaves open, without the store's mutex.
ReadFirstArgument ==
  /\ pc = "range"
  /\ \/ lo' = oldest /\ UNCHANGED hi
     \/ hi' = next_seq /\ UNCHANGED lo
  /\ pc' = "range2"
  /\ UNCHANGED <<store, conn, req, first, upto, start, count, chunk, build>>

\* The other argument, sntl_dump_range, the MTU and the header.
ReadSecondArgument ==
  /\ pc = "range2"
  /\ LET r == sntl_dump_range(first, IF lo = -1 THEN oldest ELSE lo,
                                     IF hi = -1 THEN next_seq ELSE hi)
     IN  /\ start' = r.start /\ count' = r.count /\ seq' = r.start
         /\ pend' = <<Header(r)>>
         /\ crc' = sntl_crc16(<<>>, Header(r))
         /\ pc' = IF r.count = 0 THEN "crc" ELSE "get"
  /\ lo' = -1 /\ hi' = -1
  /\ chunk' = ChunkOf(mtu)
  /\ fill' = SNTL_HEADER_SIZE
  /\ UNCHANGED <<store, conn, req, first, upto, rec, stream>>

GetRecord ==
  /\ pc = "get"
  /\ rec' = IF seq \in held THEN Stored(seq) ELSE Placeholder(seq)
  /\ pc' = "place"
  /\ UNCHANGED <<store, conn, req, range, seq, fill, pend, crc, stream>>

\* buf goes out before the next piece would not fit, and at the end; once it is
\* empty the piece is placed, whether or not it fits.
MustFlush ==
  \/ pc = "place" /\ fill > 0 /\ fill + SNTL_RECORD_SIZE > chunk
  \/ pc = "crc" /\ fill > 0 /\ fill + SNTL_CRC_SIZE > chunk
  \/ pc = "last"

PlaceRecord ==
  /\ pc = "place" /\ ~MustFlush
  /\ fill' = fill + SNTL_RECORD_SIZE
  /\ pend' = Append(pend, rec)
  /\ crc' = sntl_crc16(crc, rec)
  /\ rec' = NoToken
  /\ seq' = seq + 1
  /\ pc' = IF seq + 1 < start + count THEN "get" ELSE "crc"
  /\ UNCHANGED <<store, conn, req, range, stream>>

PlaceCrc ==
  /\ pc = "crc" /\ ~MustFlush
  /\ fill' = fill + SNTL_CRC_SIZE
  /\ pend' = Append(pend, Crc)
  /\ pc' = "last"
  /\ UNCHANGED <<store, conn, req, range, seq, crc, rec, stream>>

\* dump_run returns.
Return ==
  /\ pc' = "wait"
  /\ fill' = 0 /\ pend' = <<>> /\ crc' = <<>> /\ rec' = NoToken
  /\ seq' = 0 /\ start' = 0 /\ count' = 0 /\ chunk' = 0 /\ first' = 0 /\ upto' = 0

\* Mutant: what has gone out stays in buf.
NotifyOk_KeepBuf ==
  /\ MustFlush
  /\ link /\ notify_enabled /\ fill <= mtu - 3
  /\ stream' = stream \o pend
  /\ IF pc = "last" THEN Return
                    ELSE /\ fill' = 0
                         /\ UNCHANGED <<pend, crc, pc, seq, start, count, chunk, first, upto, rec>>
  /\ UNCHANGED <<store, conn, req, lo, hi>>

\* notify_chunk: the stack takes the payload, after any number of -ENOMEM.
NotifyOk ==
  /\ MustFlush
  /\ link /\ notify_enabled /\ fill <= mtu - 3
  /\ stream' = stream \o pend
  /\ IF pc = "last" THEN Return
                    ELSE /\ fill' = 0 /\ pend' = <<>>
                         /\ UNCHANGED <<crc, pc, seq, start, count, chunk, first, upto, rec>>
  /\ UNCHANGED <<store, conn, req, lo, hi>>

\* Mutant: an error of the stack is retried like -ENOMEM.
NotifyFails_RetryAll ==
  /\ MustFlush
  /\ FALSE
  /\ Return
  /\ UNCHANGED <<store, conn, req, lo, hi, stream>>

\* No link, or nobody subscribed: the rest of the frame is dropped.
NotifyFails ==
  /\ MustFlush
  /\ ~(link /\ notify_enabled)
  /\ Return
  /\ UNCHANGED <<store, conn, req, lo, hi, stream>>

\* Mutant: requests that came in during a dump are taken to be answered by it.
dump_thread_Drains ==
  \/ TakeReq \/ Check \/ ReadFirstArgument \/ ReadSecondArgument
  \/ GetRecord \/ PlaceRecord \/ PlaceCrc
  \/ pc = "crc" /\ dump_req = 1 /\ dump_req' = 0
     /\ UNCHANGED <<store, conn, dump_first_seq, owed, pc, range, build>>
  \/ NotifyOk \/ NotifyFails

dump_thread ==
  \/ TakeReq \/ Check \/ ReadFirstArgument \/ ReadSecondArgument
  \/ GetRecord \/ PlaceRecord \/ PlaceCrc
  \/ NotifyOk \/ NotifyFails

Next ==
  \/ store_append
  \/ connected \/ disconnected \/ ccc_changed
  \/ \E w \in Writes : ctrl_write(w)
  \/ dump_thread

\* The dump thread runs when it can: it has the lowest priority, but every
\* other thread sleeps between its turns.  The stack frees a buffer or loses
\* the link, so a payload it can carry is taken or refused in the end.
Spec == Init /\ [][Next]_vars /\ WF_vars(dump_thread)

-----------------------------------------------------------------------------
(* What is claimed of the dump.                                            *)

IsHeader(i) == stream[i].kind = "header"
IsRecord(i) == stream[i].kind = "record"
IsCrc(i)    == stream[i].kind = "crc"

\* ble.c:122-127.  What a subscriber receives is frames back to back: headers
\* follow a CRC, records count up by one from the header's start, and the CRC
\* comes after exactly as many records as the header announced - whatever
\* appends, requests and disconnects fall in between.  Only the first token may
\* be the middle of a frame begun for an earlier subscription.
StreamIsFrames ==
  \A i \in 2 .. Len(stream) :
    /\ IsHeader(i) => IsCrc(i - 1)
    /\ IsRecord(i) => \/ IsHeader(i - 1) /\ stream[i].seq = stream[i - 1].start
                      \/ IsRecord(i - 1) /\ stream[i].seq = stream[i - 1].seq + 1
    /\ IsHeader(i - 1) => LET end == i + stream[i - 1].n IN
         \A j \in i .. Len(stream) : (IsCrc(j) /\ \A k \in i .. j - 1 : ~IsCrc(k)) => j = end

\* frame.h:107-110, frame.c:88-90: a whole frame answers its request.  Every
\* number from the one asked for up to the newest at that moment is in it, or is
\* gone from the ring, or comes after as many as a header can announce; and it is
\* not padded with numbers nobody asked for.
FrameAnswersRequest ==
  \A i \in 1 .. Len(stream) :
    IsHeader(i) =>
      LET h   == stream[i]
          end == h.start + h.n IN
      /\ \A s \in h.first .. h.upto - 1 :
           s \in h.start .. end - 1 \/ s < oldest \/ (h.n = UINT16_MAX /\ s >= end)
      /\ h.n > 0 => h.start >= h.first

\* frame.h:1-16, ble.c:184.  The CRC of a frame sums exactly what the subscriber
\* got of it, header included, however it was cut into notifications; and a
\* record is replaced by a placeholder only when the ring has lost it.
FrameSumsUp ==
  /\ \A i, j \in 1 .. Len(stream) :
       IsHeader(i) /\ IsCrc(j) /\ i < j /\ (\A k \in i + 1 .. j - 1 : IsRecord(k)) =>
         stream[j].sum = SubSeq(stream, i, j - 1)
  /\ \A i \in 1 .. Len(stream) :
       IsRecord(i) /\ ~stream[i].stored => stream[i].seq \notin held

\* A request of a subscribed central is not lost, however it falls against the
\* dump under way: the semaphore, or the thread before its check, still knows it.
NoRequestLost == owed => dump_req = 1 \/ pc = "check"

\* The chunk was cut for the MTU of an earlier link, a larger one.
StaleChunk == link /\ chunk > mtu - 3

\* A dump ends: the frame is out, or the subscriber is gone.  (One that is
\* carried on, unnoticed, over a smaller link than it was begun for may not.)
DumpEnds == pc # "wait" ~> pc = "wait" \/ StaleChunk

=============================================================================
