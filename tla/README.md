# A TLA+ verification project for DTP

DTP (Deadline Transport Protocol) is a QUIC implementation derived from quiche.
It sends *blocks*: each block is one unidirectional stream with a size, a
priority and a deadline. A scheduler chooses the block to send next and drops
blocks that are late; FEC may recover lost packets without retransmission.

This directory models the library from the octets of a datagram to the event
loops of its client and server. Paths are relative to the directory that holds
`src/` and `tla/`: the library is in `src/src/`, the tools in `src/tools/`.

## 1. Inventory

The library does no I/O and has no threads of its own, except for cc_trigger's
pool. The application calls methods of one `Connection`, each of which runs to
completion: `recv(datagram)`, `send(buffer)`, `on_timeout()`,
`stream_send_full`, `stream_recv`, `stream_shutdown`. Concurrency is the order
of these calls against the network, the peer and the clock.

| Component | State | Operations | Talks to |
|---|---|---|---|
| Block sender: `SendBuf`, sending side of `StreamMap` (`stream.rs`), stream part of `send()` (`lib.rs`) | bytes queued, offsets, window, `fin_off`, acked ranges; the `flushable`, `canceled`, `writable` sets; `tx_data`, `max_tx_data` | write, shut down, schedule, drop, build packet, re-buffer lost frames, process ACK, MAX_DATA, MAX_STREAM_DATA | scheduler (call), recovery (`sent`, `lost`, `acked` frame lists) |
| Schedulers: `DtpScheduler`, `BasicScheduler`, C hook (`scheduler/`) | `last_block_id` | `select_block`, `should_drop_block` | called by `StreamMap::peek_flushable` |
| Block receiver: `RecvBuf` (`stream.rs`), STREAM, BLOCK_INFO and RESET_STREAM in `process_frame`, MAX_* frames in `send()` | heap of chunks, read offset, length, limits, `drain`; the `readable`, `almost_full` sets; `rx_data`, stream counts | push, pop, reset, shut down, advertise | application (`readable`), peer (limits) |
| Loss recovery (`recovery.rs`) | packets sent per packet number space, loss times, timer, probes, lost and acked frames, FEC groups | `on_packet_sent`, `on_ack_received`, `on_loss_detection_timeout`, `drop_unacked_data` | congestion control (trait), connection (timer, frame lists) |
| Congestion control (`cc/`): Reno, Cubic with HyStart, BBR, cc_trigger | window, bytes in flight, recovery period, checkpoint, modes, rounds | sent, acked, lost, begin and end of an ACK | recovery; cc_trigger: an external solution, over channels |
| Range sets, packet number windows (`ranges.rs`, `packet.rs`) | ranges of received numbers; a sliding window of 128 bits | insert, `remove_until`, contains | duplicate suppression, ACK frames |
| FEC (`fec.rs`, `minmax.rs`) | open group, encoded repair packets, decoders, `m`, `n` | feed, encode, reconstruct, adapt | `send()`, `recv()`, recovery |
| Connection lifecycle (`lib.rs`, `tls.rs`) | keys per space, handshake state, validation credit, idle and draining timers | handshake, Retry, Version Negotiation, close, timeout | all of the above |
| Codecs (`octets.rs`, `frame.rs`, `packet.rs`) | a position in a buffer | put and get | `send()`, `recv()` |
| HTTP/3 and QPACK (`h3/`) | per stream: parser state and buffer; settings, peer's stream types, finished streams | open, send request, headers, body; `poll`, `recv_body` | streams of the connection |
| quiche-client, quiche-server (`tools/apps`) | table of clients, requests and responses half written | event loop over one socket | connection, HTTP/0.9, HTTP/3 |
| TLS and crypto, C API, other tools | | | not modelled, see section 7 |

What is hard here, and is listed line by line under `hazards` in `PROJECT.json`:

* sets kept by hand beside the state they summarise (`flushable`, `writable`,
  `readable`, `almost_full`, `canceled`, `finished_streams`), updated at a dozen
  places;
* frames that leave the buffer when they are sent and come back when the packet
  is declared lost, while the block is acknowledged, canceled or shut down;
* frames and packets that arrive overlapping, repeated, late, or for a collected
  stream, a dropped key epoch or an old version;
* work taken from its queue before it is known to fit the packet;
* a timer computed from several packet number spaces, one of which disappears;
* unsigned arithmetic on windows, sizes and bytes in flight;
* event loops that stop reading or writing on a result that does not mean what
  they take it for.

What makes each component correct: the sender never forgets or duplicates a
byte, never sends late data, tells the peer one final size, resolves every
block, and keeps its queue and window exact; the receiver keeps disjoint chunks,
announces what can be read and never accuses an honest peer; together they
deliver each block whole and in order or give it up; recovery accounts for every
byte in flight, always has a timer for what it waits for, and reduces the window
once per flight; controllers keep the window in its bounds; a packet is
processed once and acknowledged only if it was, and a sender forgets it only if
the receiver has it or can restore it; keys are dropped when nobody needs them,
and the server answers at most three times what it received from an unproved
address; the sender keeps to the connection's window; what is written is read
back; HTTP/3 reports events in order and closes on a breach; the programs answer
every request.

## 2. Modules

| Module | Models | Uses |
|---|---|---|
| `BlockSender` | sender, `StreamMap` queues, both schedulers | |
| `BlockReceiver`, `HeapReceiver` | `RecvBuf`, receiving side of `StreamMap`, credit frames; the array of the `BinaryHeap` | |
| `BlockTransfer` | both ends and the network, packets and ACKs | `BlockSender`, `BlockReceiver`, `BlockDelivery` (as instances) |
| `BlockDelivery` | abstract specification of what they promise | |
| `Recovery` | `recovery.rs` and the calls `lib.rs` makes of it | `Reno` |
| `Reno`, `Cubic`, `BBR`, `Minmax`, `CcTrigger` | `cc/`, as operators on records | |
| `Congestion` | controllers driven through the trait | `Cubic`, `BBR`, `CcTrigger`, `PacketBytes` |
| `RangeSet`, `PacketExchange` | `ranges.rs`, `PktNumWindow`; packets, ACKs of ACKs and FEC between two ends | |
| `Lifecycle` | a connection of two ends from Initial to closed | |
| `Octets`, `Frames`, `Packet` | the bytes of integers, frames, headers and parameters | `RangeSet` |
| `Datagram` | `send_with_blocks()` and `recv()` down to the byte | `Packet` |
| `Qpack`, `Codecs` | QPACK's coding; every round trip, one sample at a time | `Packet` |
| `H3Stream`, `H3` | parser of a stream; two HTTP/3 endpoints | |
| `HttpApps` | the client's and the server's loops | |
| `BlockSender_proofs`, `BlockReceiver_proofs`, `BlockTransfer_proofs`, `Recovery_proofs`, `PacketExchange_proofs`, `Lifecycle_proofs`, `Congestion_proofs` | the theorems of section 4 | the module, `TLAPS` |
| `PacketBytes` | the bytes of a set of packets, what bytes in flight count | |
| `FiniteFacts` | lemmas about finite sets and their bytes | `PacketBytes`, `TLAPS` |
| `MC*` | sets of model values and samples for TLC | |

`PROJECT.json` maps every definition to the lines it models, the lines whose
detail it abstracts included. Definitions with a suffix, such as
`Requeue_Never`, are faulty variants: a property is only kept if putting one of
them in place of the original makes TLC find it violated.

**BlockSender.** A block is a stream `id`; its bytes are offsets, and
`queued[id]`, `acked[id]` are sets of offsets (`SendBuf::pop` joins adjacent
buffers, so their boundaries cannot be seen). A packet is a record of the frames
of this component in it. `Connection::send` is unfolded under `pc`:

    BeginSend -> ProcessLost* -> StartPacket | NoRoom -> ResetCanceled* ->
    ResetDone -> EnterStreamLoop -> Peek -> (DropBlock | KeepBlock)* ->
    SelectBlock -> FillPacket -> Peek ... -> FinishPacket

with the early returns and panics of the code (`DropFails`, `SelectNone`,
`PeekGone`, `PushFails`) as actions of their own. No other action is enabled
while `pc # "idle"`, because `send(&mut self)` cannot be interrupted. The space
`left` in a packet is drawn from `Lefts` by every call: it stands for the
congestion window, the datagram size and the frames of other components.
DtpScheduler's weights depend on measured bandwidth and RTT, so the block it
selects is any it may select.

**BlockReceiver, HeapReceiver.** A chunk is an interval.
`RecvBuf::push_evaluation` is unfolded: `RecvStream` makes the checks,
`PushContained` and `PushCut` compare the new buffer with one stored chunk each,
in any order, and `StoreChunk` stores it; `PopChunk` and `PopDone` are
`RecvBuf::pop` and the rest of `stream_recv`; `SendCredit`, `Advertise` and
`CreditDone` are the part of `send()` that builds MAX_STREAMS, MAX_DATA and
MAX_STREAM_DATA. The peer is honest: it keeps to the limits it was told
(`peer_max_*`) and to one final size, but the network may lose, repeat and
reorder what either side sends. `left -= wire_len` without a check is the action
`SendCreditPanic` (a build without overflow checks wraps instead, modulo
`UsizeMod`). The handlers `RecvStream`, `RecvStreamError`, `RecvInfo` and
`RecvReset` take whatever frame comes, as the code does; `Arrive`,
`ErrorArrives`, `InfoArrives` and `ResetArrives` are the honest peer's calls of
them, and `BlockTransfer` calls them with the frames of `BlockSender`.
`BinaryHeap::iter` promises no order; `HeapReceiver` adds the array
the standard library really keeps and restricts the comparisons to its order.

**BlockTransfer, BlockDelivery.** The sender's packets travel as sets; a call of
one side runs to its end before the other moves. `recv_single` takes the frames
of a packet one by one and records the packet, and so acknowledges it, only when
all were processed; `AcceptedWithout` says what a frame of a collected stream
does. `BlockDelivery` has per block what was written, what was read, whether the
end was told, whether the sender gave up or forgot it; `BlockTransfer!Delivery`
is its specification under the refinement mapping. `guessed` is history: a
packet was declared lost that was under way or had arrived.

**Recovery, Reno.** Per packet number space: the packets in `sent`, the largest
acknowledged number, the loss time, the time of the last ack-eliciting packet,
the probes wanted; one timer; Reno's record `cc`. The frames of a packet move
together, so they are named by its number. `on_ack_received` takes one step per
newly acknowledged packet, in the code's order (largest first), and `AckDone` is
the rest of it with the dropping of the Handshake keys that `process_frame`
adds. Each other call is one step. The RTT estimator only yields durations: the
loss delay and the probe timeout are drawn from `LossDelays` and `Ptos` whenever
they are computed, which covers every history of RTT samples.

**Congestion.** One step per acknowledged packet between `begin_ack` and
`end_ack`, then the losses, of the application space only. Cubic's curve is any
window between its bounds; BBR's bandwidth is size over duration in small units;
cc_trigger's events, job and results are sequences between the connection and
the solution's thread.

**RangeSet, PacketExchange.** A range set is the set of the `BTreeMap`'s entries;
`insert` and `remove_until` are the code's loops over it. A sends data in FEC
groups, B sends ACKs, both remember what the other acknowledged of their ACKs.
The window of seen numbers has `WindowSize` bits instead of 128.

**Lifecycle.** A side is a record with what `Connection` keeps per packet number
space; handshake data are units, and a packet holds `Cap` of them. `Receive` is
a whole call of `recv()` in the code's order, `Send` one of `send()`. TLS is
external: a side knows when it has all of the peer's data. A front end answers
the first Initial with Version Negotiation or, where `Retries` has it so, Retry
as the server's program does. `verified` is `verified_peer_address`: true from the
start of a connection accepted with the token of a Retry (`lib.rs:1203`), whose
server is then not limited at all. A loss timeout while packets are on their way is
counted as spurious.

**Datagram and the codecs.** Every frame and header is a sequence of octets;
`Datagram` fills packets from a record of pending work in the order of
`send_with_blocks()` and takes them apart again. AEAD appends a tag, header
protection is the identity on what the parser reads after removing it.

**H3.** A stream is a sequence of cells that arrive in pieces; `poll()` takes one
action per turn of its loops. The transport is external, with the marks
`BlockReceiver` keeps. **HttpApps** runs both programs over an external transport
whose packets carry all there is to tell.

## 3. Runs

| Run | Instance | Checks |
|---|---|---|
| `sender_dtp` | DtpScheduler, two blocks of 2 or 3 bytes, clock to 2 with deadline 1, two packets outstanding, one loss | `QueueExact`, `NoExpiredData`, `TxDataExact`, `BlockResolved` |
| `sender_app` | zero-length fins, `stream_shutdown`, a connection window that grows from 3 to 4, late frames | `FinalSizeConsistent`, `NoByteLost`, `ByteInOnePlace`, `WritableExact` |
| `receiver` | two streams of 3 bytes, one allowed at first, every frame of a block, in any order and repeated, reads of up to two bytes, resets, shutdowns, credit frames lost or not fitting; the heap's array | `HeapAgrees`, `ChunksDisjoint`, `ReadableExact`, `NoUnderflow`, `HonestPeerKept` |
| `recovery` | client and server, one Handshake and three application packets, FEC group of 1+1, clock to 2 | `InFlightExact`, `TimerArmed`, `NoLimbo`, `CutOncePerFlight` |
| `congestion` | Cubic, BBR and cc_trigger in turn, four packets, clock to 4 | `WindowInBounds`, `BBRConsistent`, `CubicCuts` |
| `transfer` | one block of 4 bytes with a deadline, a connection window of 3 that MAX_DATA raises, two packets outstanding, one drop, one loss declared wrongly | `MaxDataKept`, `Delivery`, `BlockDelivered` |
| `exchange` | two units in a group of 2+3, five packets, one loss, one copy, a window of 3 numbers | `AckedWasRecorded`, `HandledOnce`, `RangesExact`, `SettledWasProcessed` |
| `lifecycle` | version negotiation, with and without a Retry, a flight of three Handshake packets, one fault, closing, TLS failures | `DropIsSafe`, `AmplificationLimit`, `HandshakeCompletes` |
| `h3` | requests with bodies read in pieces or canceled, the next `poll()` only while an application was told at most six events of a stream; rogue streams of up to two frames against each role | `EventsInOrder`, `RulesKept`, `NothingForgotten` |
| `wire` | ten kinds of pending work with several rooms and losses; samples of every codec at the varints' boundaries | `FramesSurvive`, `NothingMisread`, `SizesRight`, `WorkKept`, `CodecsAgree` |
| `apps` | two files, one fault, one stream of credit, short writes | `ConnectionKept`, `AllAnswered` |
| `doc_info_stuck` | BasicScheduler, a block whose ACK came too late | `BlockSettled` is violated |

`doc_info_stuck` states what a comment of the code says and shows how the code
departs from it; `findings` in `PROJECT.json` quotes the lines.

**Bounds.** Two blocks are the fewest that compete, are swapped in the queue and
share the connection window; the actions treat blocks symmetrically and never
count them. Blocks of two or three bytes can be sent, lost and acknowledged in
parts. Two packets let one be lost while the other is acknowledged. Three bytes
let a frame overlap a stored chunk at either end or contain it. In `recovery`,
`PacketThreshold` is 2 instead of 3 and an application space of three packets
then has a packet at, above and below the threshold; sizes are scaled to small
units. In `exchange`, a window of 3 numbers slides within five packets, which the
code's 128 would not. In `transfer` the block does not fit the window, so the
sender waits for MAX_DATA, which waits for the application to read; the per-stream
limit cannot bind there, because a block is written in one call that the stream's
limit admits whole, and there is a stream for every block (`receiver` has streams
that wait for both limits). Four packets and four ticks let `congestion` have two
rounds, a probe and a cut followed by another loss. `lifecycle`'s server flight
exceeds what it may send to an unproved address; the front end asks for a Retry
or does not, and the limit is a limit of the second kind. Deadlock is not checked where
the bounds themselves end behaviours, or the code really stops (after a panic or
a closed connection); `sender_dtp` checks it.

**Fairness.** Sender: weak fairness of the steps of `send()` and of finding that
there is nothing to send (the application must call `send()` after every event,
as the API demands), strong fairness of acknowledging outstanding packets (a
network that does not lose everything). Nothing is assumed of writes, shutdowns,
the clock or window updates. `FairTransferSpec`: weak fairness of the steps of
`send()` and `recv()`; strong fairness, since a call of `send()` in between
disables them, of the fate of every packet number (it arrives, its ACK arrives, or
the loss timer finds it missing) and of reads, credit frames and their arrival: the
network loses only the packets `MaxDrops` allows, the application reads. Nothing is
assumed of the clock or of spurious losses. `Lifecycle` and `HttpApps`: the
application calls `send()` and `recv()` when they have something to do and
`on_timeout()` when a timer expires, the network delivers what it does not lose;
`HttpApps` has strong fairness of timeouts, since a timeout is only taken when
nothing else can move. `NothingForgotten` of `H3` states completion as an
invariant of the states in which nothing is left to do.


**What the properties excuse.** Where the code falls short of what a property
would say at first, the property names the exception:

* `MaxDataKept` counts every byte that arrived or is under way once, and speaks of
  the time until the first wrong guess: `send()` gives `tx_data` back for each
  packet declared lost (`src/src/lib.rs:1865`), also for one that was not, and the
  sender may from then on exceed MAX_DATA (TLC finds it when `guessed` is left
  out). A receiver that was made to close the connection is left out too, as it
  counts retransmitted bytes again (`src/src/lib.rs:4531`).
* `BlockDelivered` excuses a canceled block, a connection one side closed, and a
  panic: a full connection window leads to a packet with an empty frame, whose loss
  queues a stream a second time.
* `AmplificationLimit` ends when the server has processed a Handshake packet,
  and for a connection accepted after a Retry when the client has the token: the
  code then takes the address for verified from the start
  (`src/src/lib.rs:1203`) and sends its whole first flight for one Initial. The
  Retry and Version Negotiation packets themselves, which the program sends
  without a connection, are not counted.
* `EventsInOrder` and `NothingForgotten` allow the end of a stream, and nothing
  else, to be told again where a fin may come in a frame of its own
  (`EndRepeated`): `recv_body()` (`src/src/h3/mod.rs:872`) and `poll()` (`:929`)
  note a finished stream each time they find it so, the read of the lone fin as
  well. TLC finds three Finished events for a stream that ends with an empty DATA
  frame, and ever more for one that is collected while its readable mark stays.
  quiche-client counts every Finished (`src/tools/apps/src/lib.rs:728`), so it
  may close early; `AllAnswered` counts each request once.
* `RulesKept` names the breaches the code lets pass (`Overlooked`). "Request stream
  starts uninitialized and only HEADERS is accepted. Other frames cause an error"
  says `src/src/h3/stream.rs:262`, but every frame that is not refused at all times
  passes before HEADERS, DATA too; the library's own requests begin with grease
  frames. SETTINGS is among the "Frames that can never be received on request
  streams" (`:297`), but a client checks nothing on its own requests, and SETTINGS
  there replace the peer's (`src/src/h3/mod.rs:1355`). With `Overlooked` left out
  TLC finds both. (`:297` also lists PUSH_PROMISE and DUPLICATE_PUSH, which a
  client may receive on a request stream and `process_frame` admits there.)
* `AllAnswered` excuses three ways to lose a response, which the module
  lists, and an address that changes during the handshake: a connection of the
  server keeps the address it was accepted from.
* `HandshakeCompletes` excuses a handshake one of whose Initial or Handshake packets
  was lost or overtaken (`disturbed`): there is no timer for a lost first flight.

## 4. Proofs

All constants are arbitrary, subject to the named assumptions of the modules:
any number of blocks, any sizes, windows, frames, space, groups and clocks. Each
module states its inductive invariant in named parts, proves that every action
keeps each part, and concludes by `PTL`. TLC checked every invariant on the
instance of the run before it was proved. `FiniteFacts` holds what the proofs
need of `Min` and `Max` of finite sets, the sizes of sets of packets, and
`Counting`: a set with 0 and the successor of each of its naturals holds them
all, by the least number it lacks. It takes the place of induction.

*Sender* (`BlockSender_proofs`): `TypeCorrect`, `WritableCorrect`,
`FinalSizeCorrect`, `ByteInOnePlaceCorrect`, `NoByteLostCorrect`,
`TxDataCorrect`. Of these properties only `WritableExact` is close to inductive.
The invariant adds to `TypeOK`: `Shape` (what `pc` says of the packet under
construction and the selected block, and that a stream not yet opened is blank),
`OnePlace` (every offset is in at most one of the queue, the acked set and the
outstanding packets, and packet numbers are distinct), `Placed` (every written
offset is in one of them unless the block was shut down or a call failed), and
`FinalSizes` (sizes announced by fin and by RESET_STREAM equal the block's size,
and no byte lies beyond it). For `TxDataCorrect` the sum over packets is replaced
by the set `Held` of the pairs of block and offset that are acked or in a
packet: `TxOK` says that `tx_data` is its cardinality, and `OnePlace` makes this
the sum `TxDataExact` states, since no pair is counted twice.

*Sender's queue* (`BlockSender_proofs`): `NoPanicCorrect`,
`NoExpiredCorrect`, `QueueCorrect`. They have two hypotheses. `Plain`: the
application does not finish a block with a zero-length write, and a STREAM
header is not larger than `MAX_STREAM_OVERHEAD`; a zero-length fin does reach the
panic (section 5). `Roomy`: when a block is selected the connection window has
more room than a STREAM header takes; otherwise the loop takes the block out of
the queue, finds nothing to put in the packet and does not queue it again, which
is what `QueueExact` denies. `sender_dtp` is an instance of both: its window of 9
exceeds all the bytes its blocks hold. `QueueCorrect` also excludes shutdowns by
the application, after which a stream may stay in the queue. The invariant adds
`QueueOK` (members of the queue have bytes inside their window, none is there
twice), `EmptyFrames`, `Waiting` (every flushable stream is a member, or is the
one just taken out), `NotShut` and `ExpiryOK` (what the loop of
`should_drop_block` has passed has time left).

*Receiver* (`BlockReceiver_proofs`): `TypeCorrect`, `ChunksDisjointCorrect`,
`NoUnderflowCorrect`, `ReadableCorrect`, `HonestPeerCorrect`. The invariant is
`TypeOK`, `Streams` (per stream: disjoint chunks above the read offset and below
the length and the final size), `Call` (what holds in the middle of
`push_evaluation` and `pop`: the buffer and the piece put aside are disjoint
from the chunks already compared), `Limits` (received amounts below limits, told
limits below committed ones), `HonestPeerKept` and `Marks`; `MarksSound` is the
converse half of `ReadableExact`. Disjointness is the interesting one: it holds
for every order of comparison, although bytes may be lost in some.

*Delivery* (`BlockTransfer_proofs`): `DeliveryCorrect`, `FaithfulCorrect`,
`MaxDataCorrect`. The first is the refinement: a step of `BlockTransfer` is
one step of `BlockDelivery` or a stutter (`Promise`), for any number of blocks
and packets, any drops, losses declared early, and credit that comes late. Its
invariant `TInv` takes the sender's (`Inv1`) and the receiver's (`IInv`, and
`Delivered`: what was read, is buffered or is being stored has arrived) and joins
them by what is between them. `PacketsSound`: a STREAM frame under construction,
on its way or being processed is a run of bytes of a written block, its fin and a
RESET_STREAM are of a finished or canceled one, which stays true however long the
packet travels. `Numbered`: a packet number stands for one packet until its fate
is settled, so an ACK settles the packet that was recorded; a sender that gives a
number up and uses it again must not take the old ACK for the new packet
(`AcceptedWithout`). `Arrived`: acknowledged bytes and those of accepted packets
are at the receiver. `Ends`: the receiver has a final size only from a finished
block. `WholeBlocks` says that blocks are written in one call, the assumption of
the module. Then `ack_and_drop`'s collection is `Settle`, the last read is
`Close`, and so on. `Faithful` follows from `BlockDelivery`.
`MaxDataKept` is the meeting of three accounts, and needs no hypothesis: `tx_data`
is the cardinality of the sender's set `Held`, its window is at most what the
receiver has advertised (`Books`), and until the first wrong guess every byte that
arrived or is under way is in `Held`, acked or in an outstanding packet
(`AccountsOK`). Only a loss takes bytes out of `Held`, and a packet that is really
missing has none that count; new bytes come in through `StreamRoom`, which leaves
`tx_data` within the window. So the bytes counted are at most `tx_data`, which is
at most the window, which is at most what was advertised.

*Recovery* (`Recovery_proofs`): `TypeCorrect`, `InFlightCorrect`,
`TimerCorrect`, `LimboCorrect`, `CutCorrect`, for every threshold, delay, size,
FEC shape and bound on the clock. `NoLimbo` speaks of the states between calls, and the ACK
handler looks at acknowledged packets one by one, so `LimboOK` says what holds in
between: a packet older than an acknowledged one has a loss time, or the handler
still has to look. `GoneIsOlder` is what makes the timer right after losses: a
number that left `sent` is below the largest acknowledged one or older than all
that wait. `LastSentOK` and `KeysOK` give the PTO its time of departure.
`InFlightExact` needs that ack-eliciting packets are exactly those with a size
(`SentOK`), and `TypeOK`'s statement that Reno's unchecked subtractions stay
natural numbers needs `InFlightExact`.

*Controllers* (`Congestion_proofs`): `InFlightCorrect`, `WindowCorrect`,
`BBRCorrect`, `CutsCorrect`, `CallsCorrect`, for all bounds, units, packet
sizes, expiries and clocks that the assumptions of `BBR`, `Cubic` and
`Congestion` admit. `SentOK` says what recovery holds: packets have numbers of
their own, and those of an ACK were sent before it came. Bytes in flight are the
cardinality of the set of bytes of the packets outstanding (`PacketBytes`), so
the loss of many packets is a difference of sets, and `InFlightExact` is part of
the invariant: it keeps the subtractions of BBR and cc_trigger at or above zero.
CUBIC's window is bounded only together with its checkpoint, since a rollback
makes an old window the present one, and a window below the checkpoint's means
that a cut is still standing (`CubicOK`). For cc_trigger, jobs at work and answers
not yet taken are at most one together, and what was handed over, followed by
what waits, is what happened (`TriggerOK`). BBR needs most. `QueueOK`: its sampler
has an entry with the time and size of every packet outstanding, none sent before
the last ACK that the entry remembers; so every acknowledged packet gives a
sample, and `end_ack`, which takes the first sample's RTT when bytes were acked,
has one (`AckOK`). `Measured` says what is a number and that the filters are in
order (`FilterOK`, in value and in age); `Agreeing` and `NotMarked` relate mode,
gains and the mark of full bandwidth, and `NotMarked` is broken inside `end_ack`,
between the mark and the change of mode. BBR's handlers are long chains of updates
of one record: each link has a lemma that says which fields it `Changes` and which
of the parts it keeps. The samples of one ACK are folded into the filter; that
every prefix of the fold keeps `FilterOK` is shown by `Counting`.

*Packets and FEC* (`PacketExchange_proofs`): `RangesCorrect`, `AckedCorrect`,
`HandledOnceCorrect`, `SettledCorrect`. Lemmas first say what each operator of
`RangeSet` and `PktNumWindow` returns: `push_item` adds one number and keeps
ranges disjoint with gaps, `remove_until` cuts, the window's insertion slides
without forgetting a number that is not below it. `SettledWasProcessed` is the
deep one. The sender takes the frames of a group for delivered once m of its
packet numbers are acknowledged; the receiver restores them once it has m of its
shards. The code relies on these being the same m: no number stands for two
shards and no shard has two numbers, in spite of probes, losses and groups left
open. Nothing in the state says so once a packet is forgotten, so the invariant
has a witness instead: `Places` says that some function `h` gives every number
used its own place in a group (`PlacesOK`). Then m acknowledged numbers inject
into the receiver's shards (`RecoveredIs`), the group was restored, and its
frames were processed unless one was refused, which is the exception the
property states.

*Handshake* (`Lifecycle_proofs`): `DropCorrect`, `AmplificationCorrect`, for
every size of flight and packet, every fault, with and without a Retry. Neither property
is inductive: that a client may drop its Initial keys rests on what the packet it
read said of the server. So the invariant has four parts. `ConnOK` speaks of one
side: what it holds in an epoch is handshake data of that epoch, the server has
none for Initial packets before it read the client's, Handshake keys and
completion wait for the peer's data. `PairOK` is what a side's state says of its
peer: one that confirmed, dropped its Initial keys or verified the address has a
peer that got the data. `PacketOK` carries the same through the network: what a
packet on its way says of its sender, however late, repeated or overtaken.
`CreditOK` is the arithmetic of the limit, bytes written and credit left against
three times the bytes received, as long as the address is not verified; `PairOK`
says that a connection accepted after a Retry has a client with the token. The operators of recovery are long record
updates, so each has a lemma that relates the record before and after: `Same`
(data is only moved or forgotten), `Dropping` (and keys too), `Grows` (what was
received only accumulates).

*Only model-checked.* `BlockResolved`, `BlockDelivered`, `HandshakeCompletes` and
`AllAnswered` are liveness. `HeapAgrees` compares with an array that RECURSIVE
operators sift, so its module is outside the prover's reach; so are the modules
of bytes, whose decoders are folds and recursions over data (`CodecsAgree`,
`FramesSurvive` and the others of `wire`). The invariants of the HTTP/3 and
application modules are checked by their runs only.

## 5. Departures from the comments that are not runs

Each was found with these models, in runs that were then given up for the ones
above. The formulas named are kept in the modules.

Blocks:

| Where | What happens |
|---|---|
| `src/src/scheduler/dtp_scheduler.rs:98` | a zero-length fin queues a stream the scheduler does not consider, and a stream complete before its fin was sent is collected while queued: `unwrap()` of `None` (`NoPanic`) |
| `src/src/lib.rs:2361` | a connection window smaller than the STREAM header takes a flushable stream out of the queue for good (`QueueComplete`) |
| `src/src/lib.rs:4304` | `write_epoch` ignores `has_canceled`: the RESET_STREAM of the last canceled block is never built |
| `src/src/lib.rs:2059`, `:1851` | the canceled mark is removed before the frame is known to fit, and a lost RESET_STREAM is not sent again |
| `src/src/stream.rs:457` | `cancel_block` passes on the `Done` of a stream shut down by the application: `send()` returns `Done` with other data queued |
| `src/src/stream.rs:1370` | a frame lost before an empty fin was written is refused with FinalSize |
| `src/src/stream.rs:197` | MAX_STREAM_DATA for a collected local stream is InvalidStreamState and closes the connection (`LateCreditIgnored`) |
| `src/src/stream.rs:1006` | overlapping frames compared in the heap array's order lose bytes of an acknowledged packet (`OverlapHandled`) |
| `src/src/lib.rs:1865` | `tx_data` is given back for a packet declared lost that arrives: the sender may exceed MAX_DATA (section 3) |
| `src/src/lib.rs:4531` | retransmitted bytes are counted again in `rx_data` (`HonestPeerInWindow`) |
| `src/src/lib.rs:4453` | RESET_STREAM charges bytes the peer never sent to the connection window |
| `src/src/lib.rs:4447`, `:3684` | a canceled stream, and one collected before its empty fin was read, stay in `readable`; over HTTP/3 `poll()` then returns TransportError for ever |
| `src/src/stream.rs:977` | a fin on data already read leaves a complete stream that is never collected |
| `src/src/lib.rs:2157` | the `almost_full` mark is removed before MAX_STREAM_DATA is known to fit |
| `src/src/stream.rs:1033` | `good_recv` compares with the constant 200, not with the block's deadline |

Recovery, congestion control, FEC:

| Where | What happens |
|---|---|
| `src/src/recovery.rs:353` | the timer a dropped space had set fires and asks for probes in the Initial space, whose keys are gone; `send()` returns `Done` from then on (`DroppedEpochSilent`, `ProbesHaveKeys`) |
| `src/src/recovery.rs:489` | Handshake packets do not count as bytes in flight, so a lost flight is not probed for |
| `src/src/cc/bbr.rs:1306` | `max_packno` is `u64::MAX`, so every ACK of a new packet starts a round; STARTUP is left after two flat rounds; `bbr_lost` has no caller |
| `src/src/cc/cubic.rs:213` | the shift after idling may put the start of recovery in the future |
| `src/src/cc/cubic.rs:262` | the losses compared with the checkpoint include those that caused the cut |
| `src/src/cc/hystart.rs:102` | `start_round` has no caller: slow start is never left for Limited Slow Start |
| `src/src/cc/cc_trigger.rs:220` | the answer taken is the oldest one queued, however late |
| `src/src/lib.rs:1623` | a restored packet with the BLOCK_INFO of a collected block stops the loop: other restored packets are dropped, though the sender settles them |
| `src/src/lib.rs:1973` | a repair packet that does not fit while Handshake packets are due makes `send()` return `Done` for ever; `write_epoch` does not look at repair packets |
| `src/src/fec.rs:198` | shards of another size panic; decoders are never removed |
| `src/src/recovery.rs:591` | the adaptation's interval test is inverted, and its result has no reader |

Connection, codecs:

| Where | What happens |
|---|---|
| `src/src/lib.rs:1330` | the comment wants credit for CONNECTION_CLOSE, but the limit is raised after the early returns (`CloseHasCredit`) |
| `src/src/lib.rs:1203` | after a Retry the server is not limited to three times what it received (section 3) |
| `src/src/lib.rs:1474` | an Initial of a version negotiated away, delayed or copied, closes the server's connection |
| `src/src/lib.rs:4259` | a close by the application with nothing else pending is never sent |
| `src/src/lib.rs:2216` | PATH_RESPONSE, like RESET_STREAM, is put in Initial and Handshake packets |
| `src/src/lib.rs:2337` | FEC padding ignores the room left: `BufferTooShort` after data was taken, or a wrapped size |
| `src/src/packet.rs:438` | the packet number's length is chosen by its value, not by the distance to the last one acknowledged: 128 packets overtaken cannot be read |
| `src/src/octets.rs` via `qpack/decoder.rs` | `decode_int` loses bits shifted out |
| `src/src/lib.rs:2680` | bytes are reported as sent by `send_with_blocks` before the frame is known to fit |

HTTP/3, programs:

| Where | What happens |
|---|---|
| `src/src/h3/mod.rs:872`, `:929` | after a fin in a frame of its own the end of a stream is reported more than once (section 3) |
| `src/src/h3/stream.rs:262`, `:297` | frames before HEADERS, and SETTINGS on a client's request, are let pass (`Overlooked`, section 3) |
| `src/src/h3/mod.rs:891` | `poll()` may return `Done` with `finished_streams` not empty |
| `src/src/h3/mod.rs:1312` | after a deadline's RESET_STREAM in state Data every `poll()` returns Data |
| `src/src/h3/mod.rs:649` | a canceled stream is never reported Finished, and streams have a default deadline of 200 ms |
| `src/src/h3/mod.rs:705` | short writes of headers are taken for whole ones |
| `src/tools/apps/src/bin/quiche-server.rs:142` | `Done` or an error of one connection ends the reading of an edge-triggered socket |
| `src/tools/apps/src/lib.rs` | an empty body never sends its fin; HTTP/0.9 answers the first read only; the `--body` of the client is not stored |

## 6. Abstractions worth knowing

* RTT samples, bandwidth estimates and weights are choices among all values.
* In `H3`, a header block fits the window, lengths of bodies are chosen when
  sent, calls of `poll()` that find nothing are left out, and one
  unidirectional stream of each kind is opened.
* In `HttpApps`, a closed server connection drains for no time, and a packet
  tells all there is to tell.
* In `Lifecycle`, datagrams carry one packet each, ACK frames have no size, and
  the idle timeout is longer than any packet takes.
* In `Qpack`, the static table and Huffman's code are sampled; strings are
  bytes, without the check for UTF-8.

## 7. What is not modelled, and the plan

BoringSSL's bindings, the C API, the C scheduler's trampoline, clock, NTP and
randomness, examples, qlog, fuzzers, the nginx patch: see `components` in
`PROJECT.json` for the reason of each. Generated tables and the many tests of
`src/` are what most of the unmapped lines are.

Every safety property of the sender, the receiver, their composition, recovery,
the controllers, the packet exchange and the handshake that a run checks is also
proved. Left for later, in this order: the invariants of `H3` and `HttpApps`
(`EventsInOrder`, `RulesKept`, `NothingForgotten`, `ConnectionKept`), whose
proofs need the marks of the transport and the parser's cells in one invariant;
and an induction, outside this prover, for the codecs.
