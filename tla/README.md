# Presence node: models, checks and proofs

This directory holds the TLA+ development of the firmware in `src/src/`: an nRF5340 with an
IWRL6432 mmWave radar on a UART and a SEN5x air sensor on I2C. Once per period the node folds
what both sensors said into one record, appends it to a ring in flash, and streams the ring over
Bluetooth LE to an app that asks for "everything from sequence number n".

Everything is translated from the C code; the docs, comments and tests are quoted only for what
they promise. `PROJECT.json` maps every definition to the lines it models.

    tlc -workers 2 -config StoreCuts.cfg MCStore     # a run: <cfg> with its MC module
    tlapm StoreProofs.tla                            # a proof module

## 1. The system

Four threads and two interrupts share the state:

| runs on | code | touches |
|---|---|---|
| main thread | `main.c` loop: `sen5x_poll` each second, `window_flush` each period | air sensor window, radar accumulators, store |
| radar thread | `radar.c` `radar_thread`: configure, reassemble, `on_frame` | uart ring, reassembler, radar accumulators |
| dump thread | `ble.c` `dump_thread`: one frame per request | store (reads), connection |
| Bluetooth threads, work queue | `ctrl_write`, `ccc_changed`, `connected`, `disconnected`, `adv_on_fn`, `adv_off_fn` | connection, request, advertising flag |
| isr | `uart_isr`, Button 1 | uart ring; advertising flag and timer |

They interact through a mutex in the store, a mutex over the radar accumulators, a binary
semaphore with one argument for dump requests, a few unprotected words (`current_conn`,
`notify_enabled`, `adv_window_open`, `meta.next_seq`), and the uart ring.

| component | state it keeps | operations | what is hard about it | what makes it correct |
|---|---|---|---|---|
| record store (`store.c`) | NVS slots, META, FORMAT, FLOOR; RAM copies | `store_init`, `store_append`, `store_get`, `store_now` | power loss between two writes, failing writes, a format migration, lock-free range checks | a sequence number names one record for ever; what the range claims is there; time follows sequence |
| dump (`ble.c`, `frame.c`) | request semaphore and argument, connection, buffer | `ctrl_write`, `ccc_changed`, connection callbacks, `dump_run` | appends, requests and disconnects during a dump; chunk boundaries; retries | well-formed frames that answer the request; no request lost; dumps end |
| advertising window (`ble.c`) | flag, timer, two work items | button, expiry, disconnect | everything may fall between the timer's expiry and the work item | visible inside the window, not beyond it |
| radar link (`radar.c`) | what the CLI waits for, stall clock | reset, configure, watchdog | a sensor that hangs, refuses, answers late | streams only when started, with the whole profile; always comes back |
| occupancy (`radar.c`) | accumulators, dwell clock | `on_frame`, `radar_window_take` | two threads; a dead sensor | a window is exactly its frames; dwell is unbroken occupancy |
| TLV reassembler (`tlv.c`) | buffer, wanted length, match | `tlv_push`, `tlv_reset` | lost bytes, magic words in payloads, bogus lengths | bounds; resynchronisation; exactness without loss |
| TLV decoder (`tlv.c`, `on_frame`) | offset of the walk, what it found | `tlv_find`, `tlv_targets`, `tlv_presence` | lying lengths, sums that wrap around, stitched frames | stays inside the frame and returns; counts nobody who is not in it |
| CLI (`radar.c`) | a buffer of 96 bytes | `cli_line`, `cli_wait` | replies behind binary, tokens across a slide | believes nothing but a Done; misses none |
| air quality (`sen5x.c`) | window of peaks and last values | start, poll, take | "not measured" codes, a stopped fan | the window is that of its own samples; faults are told |
| wire codec (`frame.c`) | none | CRC, encode, parse, range | boundaries | encode and decode agree |
| main loop (`main.c`) | next tick, second counter | poll, flush, append | slow and failing calls | the period is kept; losses are visible |

Prints, the probe mode, the register-level I/O, the PC tools and the build are not modelled.

## 2. Modules

| module | models | |
|---|---|---|
| `SeqLedger` | abstract | what the store promises the app: numbers are issued one by one, and a number once answered with a record is answered with that record for ever |
| `Ring` | abstract | what the store is to its readers while the node is up: a range of numbers, both ends moved by an append, and the numbers that are found, which are all but possibly the oldest |
| `Store`, `MCStore`, `StoreProofs` | `store.c` | flash, RAM copies, and a program counter through `store_init` and `store_append`; `GetCheck`/`GetRead` for the two halves of `store_get`. Each read and each write of NVS may fail. Implements `SeqLedger` and `Ring` |
| `Dump`, `MCDump`, `DumpProofs` | `ble.c` dump path, `sntl_dump_range`, `sntl_parse_cmd`, the chaining of the CRC | the dump thread step by step, built on `Ring` |
| `AdvWindow`, `MCAdvWindow`, `AdvWindowProofs` | `ble.c` advertising | the system work queue as a queue of two items beside callbacks and the button, and the timer, which may expire whatever is queued; `AdvStartFails` is a stack that refuses |
| `RadarLink`, `MCRadarLink`, `RadarLinkProofs` | `radar.c` bring-up and watchdog | the thread against a timed sensor, in ticks of 250 ms. A line takes time to write (`cli_write` paces its characters) and time to answer |
| `Occupancy`, `MCOccupancy`, `OccupancyProofs` | `radar.c` accumulators | both holders of `acc_lock`, each one step. The counts of frames are numbers: 2^16 frames do not come in a window |
| `TlvFormat` | `tlv.h` | what a frame is, for the next two |
| `TlvReasm` | `tlv.c` reassembler | byte by byte, between a sender, a lossy ring and the loop of `radar_thread` |
| `TlvDecode` | `tlv.c` decoder and `on_frame` up to the headcount, then its diagnostic walk | one step per TLV; offsets wrap at `Word`, bytes outside of the frame are anything |
| `CliWait` | `radar.c` `cli_line`, `cli_wait` | byte by byte, with the buffer that slides and the string that ends at a 0 |
| `RadarStream`, `MCRadarStream`, `RadarStreamProofs` | `radar.c` `radar_thread` | the composition of the three before it: one of them at a time has the thread, while the isr goes on losing bytes. A frame is decoded in the reassembler's buffer; a restart hands the bytes to the CLI and then resets the reassembler |
| `AirQuality`, `MCAirQuality`, `AirQualityProofs` | `sen5x.c` | one step per poll and per take, on 16-bit words |
| `Node`, `MCNode`, `NodeProofs` | `main.c` | the loop composed of what the three drivers and the store are to it: a frame came or not, a sample came or not, an append takes time and may fail. The clock is finer than the seconds of a stamp, on any phase |

An action is named after the function it models, or after the part of it between two points
where another thread, a power loss or a failing call may come in. Where the code holds a lock
for the whole of an access, the access is one step. Definitions called `X_Something`, each with
the comment "Mutant", are the way a plausible slip would have `X`; no model uses them. They show
that a property can fail.

**What is abstracted.** A record is its number, time and a value that stands for all of its
measurements. In `Dump` bytes are tokens with a size, and a CRC is the
tokens it was summed over. In `TlvReasm` the magic word is shorter and the header is a length at one
position; in `TlvDecode` a byte and a 32-bit word are one cell each, the header's number of TLVs is
chosen freely, and the coordinates of a target are left out, for they are only printed. In `RadarLink` the
characters of the CLI are gone: a line is sent, and an answer is `done`, `error` or a bare prompt;
`CliWait` has the characters and leaves out the time, so that its wait may end between any two bytes.
In `RadarStream` a restart is one such wait. `Dump` takes the ring for granted and with it that a record that
is held can be read: a read of NVS that fails is in `Store` alone. Of `connected` the path with an error, which
changes nothing here, is left out. Counters are unbounded except
where their width matters (`occ_s`, `dwell_s`, the words of the air sensor, `recordCount`).

**What is external.** NVS: one `nvs_write` is atomic, may fail and then changes nothing;
an `nvs_read` may fail whatever is stored; `nvs_clear` erases piece by piece. Bluetooth: one connection; `bt_gatt_notify` answers `-ENOMEM`
both when buffers are short and when no bearer can carry the payload. The radar: takes lines in
order, accepts `sensorStart` once per reset, and may hang, refuse or be late. The air sensor: a
read is not answered, or answered with any of its words garbled; the fan and laser bits latch.

## 3. Runs

Every bound is a constant of its module (`Max...`) and given in the cfg.

| run | question | instance and why it is enough |
|---|---|---|
| `StoreCuts` | does the store keep its promise when power may go at any step of an append, and mounts, slot writes and reads of FORMAT and of records fail? | ring of 2, 5 numbers (it wraps twice), one reader, two values, at most one record of an older firmware. Two values are needed to tell two records with one number apart; symmetric |
| `StoreFaults` | what is left when everything may fail, in boot and migration too? A number names two records only after a boot took up a lost counter | ring of 2, numbers 0 to 3 (the ring wraps), all eleven kinds of fault: a failing mount, read of META, FORMAT, FLOOR or a record, `nvs_clear`, write in boot, of a slot or of META, and power lost in boot or after it |
| `StoreMigrationCut` (violated) | does the number survive a migration that is cut short? | it does not: see section 6 |
| `DumpStream` | what does a subscriber receive, does its CRC hold, is a request ever lost, does a dump end? | ring of 2, up to 3 numbers, two connections, four control writes or subscription changes: enough for two requests on one link, and for a dump that meets a new link. MTU 27 cuts a chunk at every record, 247 holds the frame. A header announces at most 2 records (`UINT16_MAX`), so that a range of 3 is cut. The ring may start full, and with its oldest record torn |
| `DumpSmallMtu` (violated) | the same at MTU 23 | the dump does not end: see section 6 |
| `OccWindow` | are the accumulators those of the window's frames; whose is the dwell clock; do the seconds fit their byte? | windows of 2 s taken up to 1 s late, 9 s, 3 frames anywhere; the dwell saturates at 4 s |
| `AqWindow` | is a window that of its own samples? | four samples of six kinds: low and high, a part without RH/T/gas, one not yet converting, odd and even temperatures below zero; any set of words garbled |
| `AqSilentFault` (violated) | does no window hide a fan or laser fault? | one does: see section 6 |
| `RadarStream` | is the buffer kept, are frames whole, what does a loss cost; does the decoder stay in the frame, return, and count only who is there; does the CLI hear what is said and nothing else? | magic of 3, header of 5, frames of at most 12, three frames, two lost bytes or restarts; seven payloads: the start of the magic word at the end of a frame, all of it behind an empty list, a list before zones, a list of no known struct, zones cut short, and two lengths of which one wraps to 0 and the other ends the walk; offsets of five bits, the least that hold two frames and a bit; a CLI buffer of 6 that keeps 3, the longer token's length, and four replies: accepted, refused, Done and the prompt sharing a byte, none |
| `RadarLink` | does the link always come back, with the whole profile, at the cost of one record? | the profile's 22 lines and the timeouts of the code in 250 ms ticks; a tick to write a line (the longest has some 130 characters at 1 ms each) and one to answer it; three benches: with NRST and any fault, the same with late answers, without NRST and a refused start; two faults |
| `AdvRaces` | is the node visible when, and only when, it should be? | a window of 3 s, four presses, four connections and two refusals |
| `NodeCadence` | is the period kept, and is a lost record visible? | windows of 4 s of two units each, four of them, on either phase of the clock; polls and status reads of up to a unit, writes of up to three, which is over a second; any append may fail |

A run that says `CHECK_DEADLOCK FALSE` is one whose system may really stop there: bounds on
numbers, links, frames, time or presses are used up and the node is idle.

**Properties.** `StoreInv` is the inductive invariant of the proofs. `OneRecordPerSeq`,
`TsFollowsSeq` and `LedgerSpec` relate answers across boots. `RingSpec` says that what readers see
is a `Ring`: what `store_oldest_seq` claims is there, the oldest record excepted while an append over
its slot is under way or when one was cut short, and an append moves the range by one. `ReuseNeedsLostCounter` is what
stands with any fault at all: `behind` becomes true when a boot takes up a counter that is not past every number
answered, and until then no number names two records. `StreamIsFrames` relates tokens that were sent by many steps with appends, disconnects
and requests in between; `FrameAnswersRequest` relates a frame to the request and to the ring at
its time; `FrameSumsUp` says that the CRC
covers what was received, whatever the chunks, and that only recycled records are replaced by
placeholders; `NoRequestLost` and `DumpEnds` are about the semaphore and the retry.
`AccSummarisesFrames` and `DwellIsUnbroken` compare the accumulators with the history of
frames: each accumulator is the one value that the frames since the last take determine, how many of them were
occupied included; `SecondsFit` says that scaling them to seconds cuts nothing off; `PmIsWindowPeak` and `RestIsLastSample` the air window with its samples.
`ResyncsWithinMaxFrame` and `LosslessIsExact` compare what the radar sent with what
`on_frame` saw. A damaged header may claim up to `TLV_MAX_FRAME` bytes and so swallow several short
frames, not only the next one; what the code promises is that no more than that many bytes are lost
on, and `clear`, a history variable, counts the whole bytes since the damage. `WalkStaysInside` and `WalkAdvances` hold the decoder to its frame and to progress for
whatever lengths a frame claims; `HeadcountIsHonest` says that its headcount is exactly that of the frame read by
what a TLV is, without offsets that wrap: the whole targets of the first list there is, or else 1 or 0 for the
zones. Of the diagnostic walk nothing is claimed (section 5). `DoneIsHeard` and `RepliesAreHeard` compare what `cli_wait` makes of a reply with all of its
bytes, from both sides: no acceptance without a Done, and no token missed but for a 0 nearby. `StreamMeansStarted`, `NeverMute`, `WholeProfile` and `RestartCostsOneRecord`
relate what the thread believes with what the sensor does; the last says that a sensor that failed once since its
last frame (`struck`, of what went wrong since then) has a frame again before two windows pass without one. `PeriodIsKept`
and `GapIsVisible` relate the timestamps of records, in whole seconds, with the windows they stand for: the k-th
window is stamped in its own second or within `Late` of it, and the seconds between two records are nearest to as
many periods as there were windows between them.

**Exceptions, stated in the properties.** A dump carried over to a link with a smaller MTU is not
claimed to end. A new subscription may begin in the middle of a frame. A disconnect between the timer's expiry and `adv_off_fn` (`late`) is exempt from
`VisibleIsBounded`, a press there (`lost`) from `VisibleInWindow`, each until the next undisturbed press:
`VisibleOnlyInWindow` and `VisibleAllWindow` are the two without the exception, and TLC refutes each in the order of events that its
exception names. Nor is a node whose stack refused to advertise
claimed to be visible until it is asked again (`refused`). A sensor that answers later than the CLI
waits may have its answers taken one line late, so `StreamMeansStarted` and
`RestartCostsOneRecord` are claimed for sensors that answer in time; `NeverMute`,
`WholeProfile` and `Recovers` for all of the run's benches. `RestartCostsOneRecord` says nothing of a second failure
before the first frame after the first. A `TypeOK` that no run lists is there to
document the module's state.

**Fairness.** `Dump`: weak fairness of the dump thread as a whole. It has the lowest priority,
but every thread above it sleeps between its turns; and the stack frees a buffer or loses the
link, so a payload it can carry is taken or refused in the end. `RadarLink`: weak fairness of
the radar thread, of the sensor's answers, of the window and of time. Nothing that goes wrong is
fair, and nothing is assumed of how often it does, except that it stops (`MaxFaults`): `Recovers`
says that the link streams again after the last fault.

## 4. Proofs

The `...Proofs` modules are checked by TLAPS, for every value of the constants.

| theorem | states | assumes |
|---|---|---|
| `StoreTypeCorrect` | `Spec => []TypeOK` | the constants' assumptions |
| `StoreInvariant` | `[]StoreInv` | `MetaIsKept` |
| `SeqNamesOneRecord` | `[]OneRecordPerSeq` | `MetaIsKept` |
| `AnswersAreDurable` | `[]AnsweredIsDurable` | `MetaIsKept` |
| `StoreImplementsLedger` | `Spec => LedgerSpec` | `MetaIsKept` |
| `StoreImplementsRing` | `Spec => RingSpec` | `MetaIsKept`, no failing read of FLOOR |
| `TimeFollowsNumber` | `[]TsFollowsSeq` | `MetaIsKept` |
| `ReuseIsTheCounters` | `[]ReuseNeedsLostCounter` | the constants' assumptions |
| `CounterIsNeverBehind` | `[]~behind` | `MetaIsKept` |
| `DumpTypes` | `[]TypeInv` | the constants' assumptions |
| `RequestsAreKept` | `[]NoRequestLost` | the constants' assumptions |
| `FramesAreWhole` | `[]StreamIsFrames` | the constants' assumptions |
| `FramesAnswer` | `[]FrameAnswersRequest` | the constants' assumptions |
| `FramesSum` | `[]FrameSumsUp` | the constants' assumptions |
| `FlagEnds` | `[]FlagIsTemporary` | the constants' assumptions |
| `VisibilityEnds` | `[]VisibleIsBounded` | the constants' assumptions |
| `WindowIsServed` | `[]VisibleInWindow` | the constants' assumptions |
| `OccTypeCorrect` | `[]TypeOK` | the constants' assumptions |
| `OccSecondsFit` | `[]SecondsFit` | the constants' assumptions |
| `DwellIsSomeones` | `[]DwellMeansSomeone` | the constants' assumptions |
| `DwellOfUnbrokenRun` | `[]DwellIsUnbroken` | the constants' assumptions |
| `AccIsOfItsFrames` | `[]AccSummarisesFrames` | the constants' assumptions |
| `AirTypeCorrect` | `[]TypeOK` | the constants' assumptions |
| `PmIsPeak` | `[]PmIsWindowPeak` | the constants' assumptions |
| `RestIsLast` | `[]RestIsLastSample` | the constants' assumptions |
| `ReasmBufferFits` | `[]BufferFits` | the constants' assumptions |
| `ReasmFramesAreFramed` | `[]FramesAreFramed` | the constants' assumptions |
| `LosslessIsWhole` | `[]LosslessIsExact` | `FramesFit` |
| `LossesResync` | `[]ResyncsWithinMaxFrame` | `FramesFit` |
| `StreamReassembles` | `StreamSpec =>` both of these and `[]BufferFits` | `FramesFit` |
| `StreamTypes` | `StreamSpec => []StreamTypeOK` | the constants' assumptions |
| `StreamWalkStaysInside` | `StreamSpec => []WalkStaysInside` | the constants' assumptions |
| `StreamWalkAdvances` | `StreamSpec => []WalkAdvances` | the constants' assumptions |
| `StreamHeadcountIsHonest` | `StreamSpec => []HeadcountIsHonest` | the constants' assumptions |
| `StreamDoneIsHeard` | `StreamSpec => []DoneIsHeard` | the constants' assumptions |
| `StreamRepliesAreHeard` | `StreamSpec => []RepliesAreHeard` | the constants' assumptions |
| `StreamFramesAreFramed` | `StreamSpec => []FramesAreFramed` | the constants' assumptions |
| `LinkTypeOK` | `[]TypeOK` | the constants' assumptions |
| `NeverConfiguredInPlace` | `[]NeverMute` | the constants' assumptions |
| `NoAnswerForAnother` | `[]StreamMeansStarted` | `Timely` |
| `StreamsTheWholeProfile` | `[]WholeProfile` | `Timely`, `WiredOrInTime` |
| `RestartsInOneRecord` | `[]RestartCostsOneRecord` | `Timely`, `DeadIsWired`, `TwoWindows`, a stall timeout within a refused start and its retry |
| `NodeTypes` | `[]TypeOK` | the constants' assumptions |
| `NodePeriodIsKept` | `[]PeriodIsKept` | the constants' assumptions |
| `NodeGapIsVisible` | `[]GapIsVisible` | the constants' assumptions |

`MetaIsKept` says that none of five faults is among `Faults`: a failing read of META, a failing `nvs_clear`, a failing
write in `store_init`, a failing write of META, a power loss in `store_init`. `StoreMigrationCut`
shows what the last of them does. Power loss anywhere else, failing mounts, slot writes and other reads
are covered. `ReuseIsTheCounters` assumes none of this: whatever fails, a lost counter is the only way to a number
that names two records, and `CounterIsNeverBehind` says that only the five faults lose it.

The other hypotheses are of the benches and the sizes. `FramesFit`: a frame the radar sends is no longer
than `TLV_MAX_FRAME` (`tlv.h:23-25` says a few hundred bytes of 2048). `Timely`: a sensor that is not late
answers before `cli_wait` gives up. `WiredOrInTime`: a sensor that may answer late has NRST wired.
`DeadIsWired`: so has one that may stop dead or not start. `TwoWindows`: a bring-up (`Healthy`) and what
a fault may add to it (`FaultCost`) are less than two windows, however many faults there are over time. The run's cfg
satisfies each of them, `TwoWindows` with the whole profile by 59 + 153 < 240 ticks of 250 ms.

*The store.* `OneRecordPerSeq` alone is not inductive: nothing in it keeps `GetRead` from
answering with a record that has since been replaced. `StoreInv` adds what does: a slot holds
only a record whose number belongs there, and if that number was ever answered, the very record
(`SlotsAgree`); every answered number is below the counter in flash (`AnsweredIsDurable`), so an
append, which takes the counter as its number (`InSync`), never rewrites the record of an
answered number; and a reader between its range check and its read holds a number below the RAM
counter (`GetsInRange`), which is one ahead of flash only while the mutex is held. The proof goes
action by action (`InvStep`); `NoAnswerStep` collects the actions that change neither slots nor
answers. The refinement follows: `UsedStep` says that the abstract counter moves by at most one,
in `AppendCommit`, and `InvStep` gives `Deliver` its side conditions.

*The counter.* Without `MetaIsKept` the counter in flash says nothing: META may be gone or unread. `AheadInv` is about
the RAM counter instead, as long as `behind` is false: it is past every number answered once `store_init` is through, an append
takes it, and slots and answers agree. A boot makes `behind` true or takes up a counter for which all of this holds (`AheadStep`); a half-done
migration only takes slots away (`AheadWiped`).

*The ring.* That a record is found says nothing of its neighbours, so `RingInv` is needed beside
`StoreInv`: from the floor or a capacity below the counter in flash, whichever is higher, every slot holds
its number, but that the oldest may already hold the next record (`FlashIsRing`); and the floor in
RAM is the one in flash (`FloorsAgree`). It is kept because numbers less than a capacity apart have
different slots (`SlotsDiffer`) and numbers a capacity apart share one (`SlotWraps`): a write
can only take away the oldest record of a full ring, and does (`SlotTears`), and the RAM counter then
moves past it (`CommitReadsAll`).

*The clock of the records.* `ClockInv` orders the settled records, those that flash has moved past and
those answered: a greater number has no earlier time, and none is later than the seconds in META, which the next boot
starts from (`SettledInOrder`). The clock of this boot, and so the time of the record under way, starts from
there too (`ClockRuns`).

*The dump.* The frames are not in `stream` alone: a part of the last one waits in the buffer. `FramesInv`
is about `Sent`, the two concatenated, which a notification does not change. It says that `Sent` is
frames back to back up to the point the program counter stands for, and that the CRC under way covers
exactly the frame's tokens so far (`SumInv`). `RangeInv` bounds the range that was read by the
ring as it was then and is now: both ends of the ring only move up, so a record that was out of it
stays out (`Sound`). `OwedInv` is the request: the semaphore is up or the thread has yet to read its
argument.

*The window.* `VisibleIsBounded` and `VisibleInWindow` are not inductive: they say nothing of an
item in the queue that is about to advertise or to close. `Undisturbed` adds what holds outside of the two races: a close is queued
only with the timer expired or just started, and with a running timer only after a lost press; a restart is queued only while the timer runs,
in front of the close, or late; a close under way with the timer running has a restart queued behind it; and the flag is set
while the timer runs. `WindowStep` goes action by action; `SubmitWaits` and `ServeHead` say what the queue holds after each.

*The accumulators.* `ClockInv` bounds the occupied frames by all frames and says that a running
clock with frames since the last take has seen a target; that gives `DwellMeansSomeone`, and with
`ShareFits` (a share scaled by p is at most p) `SecondsFit`. `SumStep` compares the accumulators with
the frames of the history before and after `Append`, the number of occupied ones as the cardinality of their set; `RunStep` does so for the run of occupied
frames that reaches up to now, which an occupied frame makes longer by one and an empty one, or a window
without frames, ends.

*The air window.* Field by field: `PeakStep` and `LastStep` say what one more sample makes of the
measured ones and of the accumulator. A last sample need not exist in a set of numbers as such, so
`LastOf` carries along that one does, or that nothing was measured. `HalfIsNear` is C's division: at most one from
the half, and of the same sign.

*The reassembler.* The invariant is the type of the buffer with the two bounds, and, for frames
handed on, that `buf` begins with the magic word and has the length its header says when
`complete` holds. `HuntStep` and `CollectStep` carry it over the two halves of `tlv_push`.

*Reassembly without loss.* `LosslessIsExact` speaks only of the moments between frames. `InStep` says
where the reassembler is in the frame that is on the wire: before it, inside (`Reading`: what was read and
what is to come make up the frame), at its end, or at its end with the next one sent. Since the length
is the frame's own (`FrameFacts`), it ends where the frame ends, whatever its payload.

*Reassembly with losses.* `SyncInv` says, of a frame of which no byte is lost, where the reassembler
is when p bytes of it have come (`Where`): in step as above, or `Stale`: it collects what began in a
hurt frame and has taken every byte since, so that its buffer is at least the magic word, `clear` and p
long; or `Astray`: that has ended within this frame, and it hunts in it, having matched only bytes of
this frame (`AstrayStep`: no magic word comes of it). `BufferFits` bounds the stale buffer by
`TLV_MAX_FRAME` and so ends both. The first byte of the next frame begins a match whatever was matched before it,
because the bytes of the magic word are distinct (`ReadyStep`).

*The CLI.* `cli_wait` keeps the end of what it heard, all of it or at least what a slide keeps
(`LastHeard`). A token is shorter than that (`TokensAssumption`), so one that is complete with the
newest byte lies in the buffer wherever the slide fell.

*The headcount.* `Tlvs` reads the frame by a recursive function over offsets, and its values are needed only
along the walk. `WalkIsItems` shows that each is a sequence of TLVs going back from the end of the frame: the least
offset from which on that is so (`WFMin` on the naturals) is 0; `Passed` then ties the offset of `tlv_find` to the number
of TLVs it has passed, and `WalkInv` says what the search has found so far: no TLV of the type among those
passed, or the first. `ZonesHonest` and `ZonesSeen` do the same for the zones.

*The radar link.* `RoundInv` has what is in the sensor's queue in the order it was sent (`InOrder`) and,
for the next command the sensor will take, queued already or sent next (`Coming`), that the sensor is
`Fit` for it: no line of the profile comes to one that has started. `OnTime` says that, while answers are in time, at most the
answer the thread waits for is under way; that gives `Started`. `ProfileInv` has for the line that comes next which lines the sensor has
accepted before it (`Has`), and that a warm reset is the last thing in a queue (`WarmIsLast`).
`RestartCostsOneRecord` is a sum: `Within(b)` bounds, from each stage, the time until a frame by b if
nothing more goes wrong, every line with its time to write and to answer; `CostInv` says that, with at most one fault
since the last frame, this b, the whole windows that have passed without one (`Elapsed`) and the cost of the fault that may
still come (`Left`) are at most `Healthy + FaultCost`. A step of time moves a tick from b to `Elapsed`, a fault moves
its cost to b, a frame starts over. A second fault before a frame could add as much again, and with this profile that is over two windows.

*The cadence.* `Scheduled` is the time at which the loop's second should begin. `OnTimeStep` shows that no
step takes the loop further behind it than the rest of the period makes up for: a poll is shorter than
a second, and the polls, the status read and the write together fit in a period (`LoadAssumption`). The
lag therefore never adds up, and the k-th window is stamped in the k-th period: `Quotient`, `SecondsInOrder` and `StampInTime` take that
through the division of `store_now`, whatever the phase of the clock. `RecordsCount` says which
window a record is of, so that windows lost between two records show as periods between their times; that they are the nearest needs
the jitter of a stamp to be less than half a period (`StampAssumption`).

*The radar thread.* `StreamInv` is the reassembler's invariant and `DecodeInv`: while the decoder
walks, its frame is at least a header and at most `TLV_MAX_FRAME` long and the offset is not past its
end, and a payload that was found ends within it. The first comes from the reassembler
(`CompleteIsFramed`), the rest from `TlvFits`: a length is compared with the frame before it is added
to an offset, so the sum is at most two frames and a header, which is below the width of an offset
(`WordAssumption`, `NoWrap`) and does not wrap. `StreamIsReasm` says that every step of the thread is
one of the reassembler or none of its own; with it the composed thread inherits what is proved of
`TlvReasm`.

**Not proved, only model-checked:** liveness (`DumpEnds`, `Recovers`), which is beyond the prover's
temporal backend, as is `ENABLED`. Every invariant that a passing run checks is also stated by a theorem,
with the hypotheses above. What a recursive definition computes for every input is out of reach in general, since
the induction theorems take an operator as a parameter; `WalkIsItems` gets by because the function and the
order are fixed. The runs that find a violation have no theorem, of course.

## 5. Hazards

`PROJECT.json` lists them at their lines, each with the properties that would catch it. Those at `ble.c:239`,
`ble.c:271` and `radar.c:451` have none because the property that would be theirs is false there (section 6). Four more have none:

- `store.c:104`: a read of FLOOR that fails makes the range reach below what was erased. It cannot make a number name two
  records, which `ReuseNeedsLostCounter` checks with it; that the range is then wrong is so, and `RingSpec` assumes it away.
- `ble.c:199`: `dump_thread` reads `current_conn` for its test and again for the argument, and a disconnect in between
  passes NULL on. What the Bluetooth stack makes of it is not in this repository, and `Check` reads the pointer once.
- `ble.c:222`: `bt_le_adv_start` fails. Nothing in the code tries again but a press or a disconnect, and
  `VisibleInWindow` exempts a node that was refused.
- `radar.c:487`: the diagnostic walk adds a TLV's length without looking at what is left, so a lying one can take its offset
  round through 0 and out of the frame. The model lets it (`LengthRead`); what it reads is only printed.

Of two more a part is not caught, as their notes say: a frame stitched together around a loss is
decoded within its bounds, but nothing can tell that it is no frame of the sensor's; and a line that the sensor does not hear
has no event in the model, a line that it rejects has. Left out of the list for its distance: the sequence
number wraps after 2^32 records, 4000 years at one per 30 s.

## 6. Where the code and its comments part

1. **A migration that is cut short loses the sequence number** (`StoreMigrationCut`). `store_init`
   clears the file system, META with it, before it writes the counter back. A power loss in
   between starts the counter at 0, although `store.c:28-30` says the number survives.
2. **At MTU 23 a dump never ends** (`DumpSmallMtu`). The chunk is 20 bytes, a record 24; the
   record goes to `bt_gatt_notify` all the same, and `-ENOMEM` is retried for as long as the link
   is up. `prj.conf:38` says a smaller MTU "still works, just slower".
3. **A fan fault can pass unseen** (`AqSilentFault`). If the one read of the status register fails,
   the window is handed over as alive, although `sen5x.c:22-23` calls this "the one failure this
   must never report silently".

Four more are in the models, each behind an exception or an assumption of what is claimed, and have no run of their own.
TLC shows each when one line of a cfg is changed:

- *A read of META that fails loses the sequence number.* `store_init` takes any result but the size of META as "no META
  yet" (`store.c:72-75`) and starts at 0; the next append overwrites the META that was there all the time. `store.h:4-6`
  says "seq is monotonic and survives reset". (`StoreMigrationCut.cfg` with `Faults = {"metaRead", "powerLoss"}`)
- *The node can stay visible for ever.* A disconnect after the timer has expired and before `adv_off_fn` has run finds the flag
  set and queues a restart behind the close (`ble.c:271`); no timer is left to stop it. `ble.c:210-211` says "The window
  bounds how long it stays visible." (`VisibleOnlyInWindow` in `AdvRaces.cfg`)
- *A window can be dark.* A press at the same point opens a window whose flag the old `adv_off_fn` clears (`ble.c:239`); after a
  disconnect in it the node is not made visible again, against `ble.h:28-29`. (`VisibleAllWindow` in `AdvRaces.cfg`)
- *A mixed window is flagged as the tracker's.* One frame with a target list, an empty one too, flags a count that the presence
  zones gave (`radar.c:451`), against `radar.h:16-17`. (`FlaggedCountIsTrackers` in `OccWindow.cfg`)

Met besides, and kept as exceptions too:
a failed write of META followed by a power loss reuses a number (`store.c:142`); after an error
in `store_init` records are still written, though `main.c:197` says that nothing will be; the
placeholder of a recycled record lacks `RTC_UNSET` (`ble.c:157`, against `main.c:13-14`); the answer that comes
one line late (`radar.c:349`); the diagnostic walk of section 5; and the comment that a type outside of 301..315 "folds into bit 0"
(`radar.c:476-478`), where `BIT((t - 300) & 31)` folds it into any of the 32.

## 7. Plan

Done: the store with its ledger, its ring and proofs; dump over the ring; advertising window; radar
link; occupancy; the radar thread's bytes - reassembler, decoder and CLI composed, with proofs; air
quality; main loop.

Every invariant of a passing run is proved. What is left: which ring readers still see after a failed read of FLOOR, and how
much two failures in a row cost the radar link.

**Not modelled**, and staying so: the byte layout of header and records (`frame.c:19-61`), straight-line
code without a decision, which `tests/test_frame.c` pins byte by byte; what is only printed; the probe
mode, an endless loop on a pin; `ble_start` and the other calls that configure a driver once; the PC
tools, which do not run on the node; the build.
