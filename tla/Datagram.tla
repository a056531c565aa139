------------------------------ MODULE Datagram ------------------------------
(***************************************************************************)
(* How send_with_blocks() packs its pending work into a packet, and how    *)
(* recv() takes a datagram apart (lib.rs), down to the byte: the formats   *)
(* are those of Frames and Packet.  One endpoint sends, its peer receives. *)
(* send() is the same code but that it tells its caller of no blocks.      *)
(*                                                                         *)
(* What there is to send is external: the modules of the components say    *)
(* how it comes about.  Here it is whatever Works holds, and what was lost.*)
(* The network loses and reorders; packets of an application that puts     *)
(* several into one datagram arrive together.                              *)
(***************************************************************************)
EXTENDS Packet

CONSTANTS
    Works,         \* what the sender may have to send: its connection, the sizes of its blocks, the
                   \* FEC groups (m, n) it may open, what the windows may leave, a number to skip to,
                   \* and the calls of send()
    MaxPkt,        \* length of the output buffer, as far as the peer's limit allows
    MinInitial,    \* MIN_CLIENT_INITIAL_LEN
    FecPayload,    \* payload of the first packet of an FEC group
    AckRatio,      \* data_ack_ratio
    UsizeMod,      \* usize wraps here
    MaxLosses      \* bound

MaxCryptoOverhead == 8
MaxStreamOverhead == 12
PayloadMinLen == 4

ASSUME DatagramConstants ==
    /\ AckRatio \in Nat \ {0}
    /\ {MaxPkt, MinInitial, FecPayload, MaxLosses} \subseteq Nat
    /\ UsizeMod \in Nat /\ UsizeMod > 2 * MaxPkt

VARIABLES
    c,       \* the sender's Connection
    net,     \* packets on their way
    rx,      \* the receiver's packet number spaces
    sends,   \* calls of send()
    log, dead, got, failed,   \* history: packets sent, lost, read, not read
    overrun,   \* history: has `left' overrun, or a packet not had the length of its FEC group?
    given      \* the work there was to begin with

vars == <<c, net, rx, sends, log, dead, got, failed, overrun, given>>

Cid == [i \in 1..16 |-> i]
Byte(off) == off % 256
Started == 1200000000   \* when a block was: eight bytes
Closing(x) == x.error \/ x.app >= 0

-----------------------------------------------------------------------------
(* Before the packet: lost frames, the epoch *)

RequeuedFrame(x, e, f) ==
    CASE f.ty = "Crypto" -> [x EXCEPT !.crypto[e] = @ \cup (f.a[1]..(f.a[1] + Len(f.a[2]) - 1))]
      [] f.ty = "BlockInfo" -> [x EXCEPT !.new = @ \cup {f.a[1]}]
      [] f.ty = "Stream" -> [x EXCEPT !.streams[f.a[1]] = @ \cup (f.a[2]..(f.a[2] + Len(f.a[3]) - 1)),
                                      !.credit = @ + Len(f.a[3])]
      [] f.ty = "ACK" -> [x EXCEPT !.elicited = @ \cup {e}]
      [] f.ty = "HandshakeDone" -> [x EXCEPT !.done = TRUE]
      [] OTHER -> x
Requeued(x, e) == [FoldLeft(LAMBDA y, f : RequeuedFrame(y, e, f), x, x.lost[e]) EXCEPT !.lost[e] = <<>>]

Flushable(x) == {s \in DOMAIN x.streams : x.streams[s] # {}}

\* write_epoch; 3 when there is nothing to send
WriteEpoch(x) ==
    LET open == IF x.established THEN Epochs ELSE {0, 1}
        ready == {e \in open : x.crypto[e] # {} \/ e \in x.elicited \/ x.lost[e] # <<>> \/ x.probes[e] > 0}
    IN CASE x.error -> IF x.established THEN x.level ELSE Min({1, x.level})
         [] ~x.error /\ ready # {} -> Min(ready)
         [] ~x.error /\ ready = {} ->
              IF x.established /\ (x.max_data \/ x.bidi \/ x.uni \/ Flushable(x) # {} \/ x.almost # {}) THEN 2 ELSE 3

-----------------------------------------------------------------------------
(* Into the packet.  A packet being made is [c, e, left, len, frames,      *)
(* elicit, mn, overrun, blocks]: the connection, the epoch, the space      *)
(* left, the length of the payload, must it be acknowledged, the FEC group *)
(* it opens, has `left' overrun, and the blocks the caller is told of.     *)

PushedOf(p, f, n) ==
    [p EXCEPT !.left = (@ - n) % UsizeMod, !.len = @ + n, !.frames = Append(@, f), !.overrun = @ \/ n > p.left]
Pushed(p, f) == PushedOf(p, f, WireLen(f))
Eliciting(p, f) == [Pushed(p, f) EXCEPT !.elicit = TRUE]
Fits(p, f) == WireLen(f) <= p.left
IsShort(p) == p.e = 2

AddAck(p, pn) ==
    LET acks == p.c.acks[p.e] f == F("ACK", <<5, 1, acks>>) IN
    IF /\ ~Closing(p.c) /\ (p.e \in p.c.elicited \/ (acks # {} /\ pn % AckRatio = 0)) /\ Fits(p, f)
    THEN [Pushed(p, f) EXCEPT !.c.elicited = @ \ {p.e}] ELSE p

\* One frame for each stream of `marks' until one does not fit; its mark is gone too
AddMarked(p, order, FrameOf(_), Unmarked(_, _)) ==
    LET Step(q, s) == IF q.full THEN q
                      ELSE IF Fits(q.p, FrameOf(s))
                      THEN [q EXCEPT !.p = Unmarked(Eliciting(q.p, FrameOf(s)), s)]
                      ELSE [p |-> Unmarked(q.p, s), full |-> TRUE]
    IN FoldLeft(Step, [p |-> p, full |-> FALSE], order).p

AddResets(p) ==
    LET Reset(s) == F("ResetStream", <<s, 1, given.size[s]>>)
        Unmarked(q, s) == [q EXCEPT !.c.canceled = @ \ {s}]
    IN AddMarked(p, SetToSeq(p.c.canceled), Reset, Unmarked)

\* HANDSHAKE_DONE and MAX_STREAMS are pushed whether they fit or not
AddHandshakeDone(p) ==
    IF p.c.done THEN [Pushed(p, F("HandshakeDone", <<>>)) EXCEPT !.c.done = FALSE] ELSE p
AddMaxStreams(p) ==
    LET bidi == IF p.c.bidi THEN [Eliciting(p, F("MaxStreamsBidi", <<100>>)) EXCEPT !.c.bidi = FALSE] ELSE p
    IN IF p.c.uni THEN [Eliciting(bidi, F("MaxStreamsUni", <<100>>)) EXCEPT !.c.uni = FALSE] ELSE bidi
AddMaxData(p) ==
    LET f == F("MaxData", <<70000>>) IN
    IF p.c.max_data /\ Fits(p, f) THEN [Eliciting(p, f) EXCEPT !.c.max_data = FALSE] ELSE p
AddMaxStreamData(p) ==
    LET Max_(s) == F("MaxStreamData", <<s, 70000>>)
        Unmarked(q, s) == [q EXCEPT !.c.almost = @ \ {s}]
    IN AddMarked(p, SetToSeq(p.c.almost), Max_, Unmarked)

AddControl(p) ==
    IF IsShort(p) /\ ~Closing(p.c) THEN AddMaxStreamData(AddMaxData(AddMaxStreams(AddHandshakeDone(p)))) ELSE p

AddClose(p) ==
    LET f == F("ConnectionClose", <<2, 0, <<>>>>) IN
    IF p.c.error /\ Fits(p, f) THEN [Eliciting(p, f) EXCEPT !.c.challenge = FALSE, !.c.draining = TRUE] ELSE p

AddAppClose(p) ==
    IF p.c.app >= 0 /\ IsShort(p)
    THEN [Eliciting(p, F("ApplicationClose", <<3, Zeros(p.c.app)>>)) EXCEPT !.c.draining = TRUE] ELSE p

AddPathResponse(p) ==
    LET f == F("PathResponse", <<Zeros(8)>>) IN
    IF p.c.challenge /\ p.left > WireLen(f) THEN [Eliciting(p, f) EXCEPT !.c.challenge = FALSE] ELSE p

\* SendBuf::pop: the first of the bytes that wait, as far as they go together
Run(pending, max) ==
    LET first == Min(pending) IN {o \in pending : o < first + max /\ first..o \subseteq pending}
Data(run) == LET first == Min(run) IN [i \in 1..Cardinality(run) |-> Byte(first + i - 1)]

AddCrypto(p) ==
    LET run == Run(p.c.crypto[p.e], p.left - MaxCryptoOverhead) IN
    IF p.c.crypto[p.e] # {} /\ p.left > MaxCryptoOverhead /\ ~Closing(p.c)
    THEN [Eliciting(p, F("Crypto", <<Min(run), Data(run)>>)) EXCEPT !.c.crypto[p.e] = @ \ run] ELSE p

\* Fault: the mark goes although the frame does not fit
AddBlockInfo_Marked(p, s) ==
    LET f == F("BlockInfo", <<s, given.size[s], 1, 64, Started>>) q == [p EXCEPT !.c.new = @ \ {s}] IN
    IF s \in p.c.new /\ Fits(p, f) THEN Eliciting(q, f) ELSE q
AddBlockInfo(p, s) ==
    LET f == F("BlockInfo", <<s, given.size[s], 1, 64, Started>>) IN
    IF s \in p.c.new /\ Fits(p, f) THEN [Eliciting(p, f) EXCEPT !.c.new = @ \ {s}] ELSE p

\* In an FEC group the frame must leave the packet room within a shard; the
\* estimate of its header is a high one
MaxLen(p, s) ==
    LET room == Min({p.left, p.c.credit})
        shard == (p.c.group.size - p.len - 1 - VarintLen(s) - 16) % UsizeMod
    IN IF p.c.group.size > 0 THEN Min({room, shard}) ELSE room

\* Nothing of the group is decided for a packet that joins an open one
StreamFrame(p, s, run, mn) ==
    LET fin == given.size[s] - 1 \in run IN
    [Eliciting(p, F("Stream", <<s, Min(run), Data(run), fin>>))
        EXCEPT !.c.streams[s] = @ \ run, !.c.credit = @ - Cardinality(run), !.mn = IF p.c.group.size = 0 THEN mn ELSE @]

\* One turn of the loop over the flushable streams: the caller is told of the
\* stream's block, whatever becomes of it; a stream the windows leave no room
\* for makes way for the next (and leaves the queue, which is BlockSender's)
FlushStream(p, s, mn) ==
    LET pending == p.c.streams[s]
        max == MaxLen(p, s)
        overhead == 1 + VarintLen(s) + VarintLen(Min(pending)) + VarintLen(max)
    IN IF p.left <= MaxStreamOverhead THEN [p |-> p, over |-> TRUE]
       ELSE IF max <= overhead THEN [p |-> p, over |-> FALSE]
       ELSE [p |-> StreamFrame(p, s, Run(pending, max - overhead), mn), over |-> TRUE]
StreamTurn(q, s, mn) ==
    LET told == [id |-> s, remaining |-> Cardinality(q.p.c.streams[s])] IN
    IF q.over THEN q ELSE FlushStream(AddBlockInfo([q.p EXCEPT !.blocks = Append(@, told)], s), s, mn)

AddStream(p, order, mn) ==
    IF IsShort(p) /\ p.c.credit > 0 /\ p.left > MaxStreamOverhead /\ ~Closing(p.c)
    THEN FoldLeft(LAMBDA q, s : StreamTurn(q, s, mn), [p |-> p, over |-> FALSE], order).p
    ELSE p

AddPing(p) ==
    IF p.c.probes[p.e] > 0 /\ ~p.elicit /\ p.left >= 1 /\ ~Closing(p.c)
    THEN Eliciting(p, F("Ping", <<>>)) ELSE p
Probed(p) == IF p.elicit THEN [p EXCEPT !.c.probes[p.e] = Max({0, @ - 1})] ELSE p

\* A repair packet carries nothing else
AddRepair(p) ==
    LET f == F("Fec", <<Head(p.c.repairs).data>>) IN
    Probed([Eliciting(p, f) EXCEPT !.c.repairs = Tail(@)])

Packed(p, pn, order, mn) ==
    LET control == AddPathResponse(AddAppClose(AddClose(AddControl(AddResets(AddAck(p, pn))))))
        data == AddCrypto(control)
    IN Probed(AddPing(AddStream(data, order, mn)))

\* Fault: the windows are not looked at
InitialPadding_Whole(p, pn_len) == Max({0, MinInitial - (pn_len + p.len + TagLen)})

\* What the client's Initial packets and all short payloads are padded with;
\* packets of an FEC group have the length of a shard
InitialPadding(p, pn_len) == Min({MinInitial - (pn_len + p.len + TagLen), p.left})
\* Fault: packets are padded for FEC only
PaddedTo_Group(p) ==
    IF ~IsShort(p) \/ ~(p.mn # <<0, 0>> \/ p.c.group.size > 0) THEN 0
    ELSE IF p.c.group.size > 0 THEN p.c.group.size ELSE FecPayload

InGroup(p) == p.mn # <<0, 0>> \/ p.c.group.size > 0
PaddedTo(p) ==
    IF IsShort(p) /\ InGroup(p) THEN (IF p.c.group.size > 0 THEN p.c.group.size ELSE FecPayload)
    ELSE PayloadMinLen
Padding(p, n) == [p EXCEPT !.frames = Append(@, F("Padding", <<n>>)), !.len = @ + n]
Padded(p, pn_len) ==
    LET q == IF ~p.c.server /\ p.e = 0 THEN Padding(p, InitialPadding(p, pn_len)) ELSE p
    IN IF q.len < PaddedTo(q) THEN Padding(q, PaddedTo(q) - q.len) ELSE q

-----------------------------------------------------------------------------
(* The packet's place in its FEC group, opened with it or before; a full   *)
(* group leaves repairs to send                                            *)

\* Fault: a packet gets the index of the next
GroupIndex_Next(group) == group.index + 1
GroupIndex(group) == group.index

Grouped(p) ==
    LET open == IF p.c.group.size > 0 THEN p.c.group
                ELSE [size |-> p.len, index |-> 0, m |-> p.mn[1], n |-> p.mn[2], id |-> p.c.next_group]
        next == [open EXCEPT !.index = @ + 1]
        Info(i) == [group_id |-> open.id, index |-> i, m |-> open.m, n |-> open.n]
        full == next.index = open.m
    IN [fec |-> Info(GroupIndex(open)), size |-> open.size, fits |-> p.len = open.size,
        c |-> [p.c EXCEPT !.group = IF full THEN [@ EXCEPT !.size = 0] ELSE next,
                  !.next_group = IF p.c.group.size > 0 THEN @ ELSE @ + 1,
                  !.repairs = IF full THEN @ \o [i \in 1..open.n |->
                                    [info |-> Info(open.m + i - 1), data |-> [j \in 1..open.size |-> 9]]]
                              ELSE @]]

\* update_fec_info writes behind the connection id of a short header; a long
\* one has other fields there
UpdateFecInfo(bytes, fec) ==
    LET at == 1 + Len(Cid) new == FecBytes(fec) IN
    [i \in DOMAIN bytes |-> IF i \in (at + 1)..(at + Len(new)) THEN new[i - at] ELSE bytes[i]]

Returned(x) ==   \* no packet: Done or an error
    /\ c' = x
    /\ UNCHANGED <<net, log>>

Sent(x, p, pn, bytes, payload, room, shard) ==
    LET pkt == [e |-> p.e, pn |-> pn, frames |-> p.frames, size |-> Len(bytes), payload |-> payload, room |-> room,
                shard |-> shard, overrun |-> p.overrun, blocks |-> p.blocks]
    IN /\ c' = [x EXCEPT !.next[p.e] = pn + 1]
       /\ net' = net \cup {[of |-> pkt, bytes |-> bytes]} /\ log' = log \cup {pkt}

HeaderOf(e, pn) ==
    [ty |-> FromEpoch(e), version |-> 25, dcid |-> Cid, scid |-> Cid, token |-> <<>>,
     pkt_num_len |-> PktNumLen(pn), fec |-> NoFec]

\* Header, number, tag, and two bytes for the length of a long packet
Overhead(e, pn) == Len(HeaderBytes(HeaderOf(e, pn))) + PktNumLen(pn) + TagLen + (IF e = 2 THEN 0 ELSE 2)

\* What the windows and the buffer leave; a probe may exceed the window
Space(x, e, window) ==
    IF x.probes[e] > 0 /\ ~Closing(x) /\ (x.established \/ ~x.server) THEN MaxPkt ELSE Min({window, MaxPkt})

Payload(p) == FlattenSeq([i \in DOMAIN p.frames |-> ToBytes(p.frames[i])])

\* The packet p that `packed' became with its padding, in `room' bytes
Emit(x, packed, p, pn, room) ==
    LET repair == x.repairs # <<>>
        bytes == EncryptPkt(HeaderOf(p.e, pn), pn, Payload(p))
        fits == room >= Overhead(p.e, pn)
        Finish(y, wire, shard, uneven) ==
            /\ IF ~fits \/ (repair /\ Len(Head(x.repairs).data) > room - Overhead(p.e, pn)) THEN Returned(x)
               ELSE IF packed.frames = <<>> THEN Returned(packed.c)
               ELSE IF Len(wire) > MaxPkt THEN Returned(p.c)
               ELSE Sent(y, p, pn, wire, Len(Payload(p)), room, shard)
            /\ overrun' = (overrun \/ (fits /\ (p.overrun \/ uneven)))
        Join(g) == Finish(g.c, UpdateFecInfo(bytes, g.fec), g.size, ~g.fits)
    IN IF InGroup(p) THEN Join(Grouped(p))
       ELSE Finish(p.c, IF repair THEN UpdateFecInfo(bytes, Head(x.repairs).info) ELSE bytes, 0, FALSE)

SendIn(x, e, pn) ==
    \E window \in given.windows, order \in SetToSeqs(Flushable(x)), mn \in given.groups :
        LET room == Space(c, e, window)
            start == [c |-> x, e |-> e, left |-> room - Overhead(e, pn), len |-> 0, frames |-> <<>>,
                      elicit |-> FALSE, mn |-> <<0, 0>>, overrun |-> FALSE, blocks |-> <<>>]
        IN \E packed \in {IF x.repairs # <<>> THEN AddRepair(start) ELSE Packed(start, pn, order, mn)} :
               Emit(x, packed, Padded(packed, PktNumLen(pn)), pn, room)

Send ==
    LET e == WriteEpoch(c) IN
    /\ sends < given.sends /\ ~c.draining /\ e # 3
    /\ sends' = sends + 1
    /\ SendIn(Requeued(c, e), e, c.next[e])
    /\ UNCHANGED <<rx, dead, got, failed, given>>

-----------------------------------------------------------------------------
(* The network *)

Lose ==
    /\ Cardinality(dead) < MaxLosses
    /\ \E p \in net :
         /\ net' = net \ {p} /\ dead' = dead \cup {p.of}
         /\ c' = [c EXCEPT !.lost[p.of.e] = @ \o SelectSeq(p.of.frames, LAMBDA f : f.ty # "Padding")]
    /\ UNCHANGED <<rx, sends, log, got, failed, overrun, given>>

\* Packets went before that are of no interest, and were lost
Skip ==
    /\ LET e == WriteEpoch(c) IN
       e # 3 /\ c.next[e] < given.skip /\ sends < given.sends /\ c' = [c EXCEPT !.next[e] = given.skip]
    /\ UNCHANGED <<net, rx, sends, log, dead, got, failed, overrun, given>>

-----------------------------------------------------------------------------
(* recv_single *)

\* All frames of a payload, up to the first that is refused
ParseFrames(payload, pkt) ==
    LET From[off \in 0..Len(payload)] ==
            LET Then(p) == IF p.error # "" THEN [error |-> p.error, frames |-> <<>>]
                           ELSE [From[p.off] EXCEPT !.frames = <<p.frame>> \o @]
            IN IF off = Len(payload) THEN [error |-> "", frames |-> <<>>] ELSE Then(FromBytes(payload, off, pkt))
    IN From[0]

\* How a packet ends: the bytes it took, and what became of it
Ended(why, n) == [why |-> why, read |-> n, e |-> 3, pn |-> 0, frames |-> <<>>]

\* read: its frames, unless it is a repair packet
RecvFrames(opened, read, e, n) ==
    IF read.error # "" THEN Ended(read.error, 0)
    ELSE [why |-> "", read |-> n, e |-> e, pn |-> opened.pn, frames |-> read.frames]

RecvOpened(opened, h, x, e, n) ==
    LET processed == \E any \in Epochs : x.seen[any] # {}
        repair == h.hdr.fec.group_id # 0 /\ h.hdr.fec.index >= h.hdr.fec.m
    IN IF opened.error = "CryptoFail" /\ processed THEN Ended("Done", 0)
       ELSE IF opened.error # "" THEN Ended(opened.error, 0)
       ELSE IF opened.pn \in x.seen[e] THEN Ended("Done", 0)
       ELSE RecvFrames(opened, IF repair THEN [error |-> "", frames |-> <<F("Fec", <<opened.payload>>)>>]
                               ELSE ParseFrames(opened.payload, h.hdr.ty), e, n)

\* sized: what follows a long header tells how long the packet is
RecvSized(b, off, x, h, sized) ==
    LET len == sized.vals[1]
        e == ToEpoch(h.hdr.ty)
        n == sized.off + len - off
    IN CASE ~sized.ok -> Ended("BufferTooShort", 0)
         [] sized.ok /\ Room(b, sized.off) < len -> Ended("BufferTooShort", 0)
         [] OTHER -> IF e \notin x.keys THEN Ended("skipped", n)
                     ELSE RecvOpened(DecryptPkt(b, sized.off, len, b[off + 1], x.largest[e], e), h, x, e, n)

RecvHeader(b, off, x, h) ==
    LET short == h.hdr.ty = "Short" IN
    CASE h.error # "" -> Ended(h.error, 0)
      [] h.error = "" /\ h.hdr.ty \in {"Retry", "VersionNegotiation"} -> Ended("Done", 0)
      [] h.error = "" /\ short /\ ~x.established -> Ended("skipped", Len(b) - off)
      [] OTHER -> IF ~short /\ h.hdr.version # 25 THEN Ended("UnknownVersion", 0)
                  ELSE RecvSized(b, off, x, h, IF short THEN [ok |-> TRUE, off |-> h.off, vals |-> <<Room(b, h.off)>>]
                                               ELSE GetVarint(b, Reader(h.off)))

RecvSingle(b, off, x) ==
    IF x.closed THEN Ended("Done", 0) ELSE RecvHeader(b, off, x, ParseHeader(b, off, Len(Cid)))

\* The loop of recv(): an error ends it for all that is left of the datagram,
\* and one that is not Done closes the connection
RecvTurn(q, r, pkt) ==
    LET dead_end == r.why \notin {"", "skipped"} IN
    IF r.why = ""
    THEN [q EXCEPT !.off = @ + r.read, !.got = @ \cup {[e |-> r.e, pn |-> r.pn, frames |-> r.frames]},
                   !.rx.largest[r.e] = Max({@, r.pn}), !.rx.seen[r.e] = @ \cup {r.pn}]
    ELSE [q EXCEPT !.off = @ + r.read, !.over = dead_end, !.failed = @ \cup {[pkt |-> pkt, why |-> r.why, rx |-> q.rx]},
                   !.rx.closed = @ \/ (dead_end /\ r.why # "Done")]
RecvNext(b, q, pkt) == IF q.over THEN q ELSE RecvTurn(q, RecvSingle(b, q.off, q.rx), pkt)

\* One packet, or two of the handshake in one datagram
Recv ==
    /\ \E p \in net, q \in net :
         LET parts == IF p = q THEN <<p>> ELSE <<p, q>>
             bytes == FlattenSeq([i \in DOMAIN parts |-> parts[i].bytes])
             start == [off |-> 0, over |-> FALSE, rx |-> rx, got |-> got, failed |-> failed]
         IN /\ p # q => p.of.e < 2
            /\ net' = net \ {p, q}
            /\ \E end \in {FoldLeft(LAMBDA r, part : RecvNext(bytes, r, part.of), start, parts)} :
                    rx' = end.rx /\ got' = end.got /\ failed' = end.failed
    /\ UNCHANGED <<c, sends, log, dead, overrun, given>>

\* External: the receiver's handshake goes on
Establish ==
    /\ ~rx.established
    /\ rx' = [rx EXCEPT !.established = TRUE, !.keys = Epochs]
    /\ UNCHANGED <<c, net, sends, log, dead, got, failed, overrun, given>>

-----------------------------------------------------------------------------
Init ==
    /\ given \in Works
    /\ c = given.conn
    /\ net = {}
    /\ rx = [closed |-> FALSE, established |-> FALSE, keys |-> {0, 1},
             largest |-> [e \in Epochs |-> 0], seen |-> [e \in Epochs |-> {}]]
    /\ sends = 0 /\ log = {} /\ dead = {} /\ got = {} /\ failed = {} /\ overrun = FALSE

Next == Send \/ Lose \/ Skip \/ Recv \/ Establish
Spec == Init /\ [][Next]_vars

-----------------------------------------------------------------------------
(* Properties *)

Contents(frames) == SelectSeq(frames, LAMBDA f : f.ty # "Padding")

\* What the peer reads from a packet is what send() put into it, frame by
\* frame: to_bytes, from_bytes, the header with its FEC fields and the number
\* cut to a few bytes agree, also when packets are lost, late or coalesced.
FramesSurvive ==
    \A r \in got : \E p \in log : p.e = r.e /\ p.pn = r.pn /\ Contents(p.frames) = Contents(r.frames)

\* Frames from_bytes refuses in a long header packet, and the FEC fields
\* update_fec_info writes over its connection ids: send() sees to neither when
\* write_epoch gives it an earlier space than the application's.
Misplaced(p) ==
    p.e < 2 /\ (p.shard > 0 \/ \E i \in DOMAIN p.frames : p.frames[i].ty \in {"ResetStream", "PathResponse", "Fec"})

\* A number of one byte tells numbers apart that are less than half its range away
Unclear(p, largest) == PktNumLen(p.pn) = 1 /\ p.pn <= largest - 127

\* Every packet that arrives is read, but for those whose keys are not there
\* yet, those overtaken by too many others, those that should not have been
\* made (above), and what comes after them on a connection they closed.
NothingMisread ==
    \A r \in failed :
        \/ r.why = "skipped" /\ (r.pkt.e \notin r.rx.keys \/ (r.pkt.e = 2 /\ ~r.rx.established))
        \/ Misplaced(r.pkt) \/ r.rx.closed \/ Unclear(r.pkt, r.rx.largest[r.pkt.e])

\* A packet is as long as send() thought it was while it filled it: it fits the
\* buffer and, but for the padding that hides the header and that of an FEC
\* group, what the windows left; a client's Initial is as long as the peer asks
\* and a packet of an FEC group as its shards.  The caller of send_with_blocks
\* has been told of the block its STREAM frame is from, with what was left of
\* it before.  Where `left' wrapped there is nothing to be said.
SizesRight ==
    \A p \in log :
        ~p.overrun =>
            /\ p.size <= MaxPkt
            /\ p.shard = 0 => p.size <= p.room + PayloadMinLen - 1
            /\ p.shard > 0 /\ p.e = 2 => p.payload = p.shard
            /\ ~given.conn.server /\ p.e = 0 => p.size >= Min({MinInitial, p.room - 2})
            /\ \A i \in DOMAIN p.frames : p.frames[i].ty = "Stream" =>
                    \E j \in DOMAIN p.blocks : /\ p.blocks[j].id = p.frames[i].a[1]
                                              /\ p.blocks[j].remaining >= Len(p.frames[i].a[3])

Waiting(f, frames) == \E i \in DOMAIN frames : frames[i].ty = f
Carries(frames, s, o) ==
    \E i \in DOMAIN frames : /\ frames[i].ty = "Stream" /\ frames[i].a[1] = s
                             /\ o \in frames[i].a[2]..(frames[i].a[2] + Len(frames[i].a[3]) - 1)
CarriesCrypto(frames, o) ==
    \E i \in DOMAIN frames : /\ frames[i].ty = "Crypto"
                             /\ o \in frames[i].a[1]..(frames[i].a[1] + Len(frames[i].a[2]) - 1)
Held(e) == {c.lost[e]} \cup {p.frames : p \in {q \in log \ dead : q.e = e}}

\* Nothing that must arrive is dropped on the way into a packet: a byte of a
\* stream or of the handshake, a BLOCK_INFO or a HANDSHAKE_DONE is still to be
\* sent, was in a packet declared lost, or is in one that was not, whatever
\* did not fit, failed or was sent again.  Not once `left' has wrapped: then
\* to_bytes fails, and what was taken for the packet is gone.
WorkKept ==
    ~overrun =>
        /\ \A s \in DOMAIN given.conn.streams : \A o \in given.conn.streams[s] :
                o \in c.streams[s] \/ \E frames \in Held(2) : Carries(frames, s, o)
        /\ \A e \in Epochs : \A o \in given.conn.crypto[e] :
                o \in c.crypto[e] \/ \E frames \in Held(e) : CarriesCrypto(frames, o)
        /\ \A s \in given.conn.new :
                s \in c.new \/ \E frames \in Held(2) : \E i \in DOMAIN frames :
                                    frames[i].ty = "BlockInfo" /\ frames[i].a[1] = s
        /\ given.conn.done => c.done \/ \E frames \in Held(2) : Waiting("HandshakeDone", frames)

\* "Done if there was nothing to write" (the comment on send()): with the
\* windows open a call makes a packet, or leaves nothing to be sent.
DoneMeansNothing == [][sends' # sends => log' # log \/ WriteEpoch(c') = 3]_vars

=============================================================================
