---------------------------- MODULE BlockReceiver ---------------------------
(***************************************************************************)
(* The receiving half of a DTP connection: RecvBuf and the peer-opened     *)
(* unidirectional streams of StreamMap (src/src/stream.rs), and the part   *)
(* of Connection (src/src/lib.rs) that accepts STREAM, BLOCK_INFO and      *)
(* RESET_STREAM frames, hands data to the application and advertises flow  *)
(* control credit.                                                         *)
(*                                                                         *)
(* A chunk (RangeBuf) is the interval off..end-1 of a stream.  RecvBuf     *)
(* keeps its chunks in a std BinaryHeap, here a set: iterating over it     *)
(* visits the chunks in an arbitrary order (BinaryHeap::iter promises no   *)
(* more), peek and pop find the lowest offset.  HeapReceiver adds the      *)
(* order of the actual array.                                              *)
(*                                                                         *)
(* The loops of RecvBuf::push, RecvBuf::pop and of the MAX_STREAM_DATA     *)
(* frames are unfolded under pc: nothing else happens while pc # "idle".   *)
(* The peer is honest: it obeys the limits it was told, whatever the       *)
(* network drops, delays, reorders or makes it send again.  A packet that  *)
(* recv() refuses with Done (a RESET_STREAM for a drained stream, a        *)
(* BLOCK_INFO for a collected one) and a STREAM frame of a collected       *)
(* stream change nothing here.                                             *)
(***************************************************************************)
EXTENDS Integers, FiniteSets

CONSTANTS
    Ids,           \* stream IDs of the peer's unidirectional streams
    BlockLen,      \* bytes in a block: the final size of every stream
    Frames,        \* the chunks the peer may put in a STREAM frame
    Retransmit,    \* may the peer send bytes again (ACKs may be lost or late)?
    Resets,        \* may the peer cancel blocks?
    Infos,         \* may BLOCK_INFO frames arrive?
    AppShutdown,   \* may the application call stream_shutdown(Read)?
    Caps,          \* lengths of the buffers given to stream_recv
    InitStreamMax, \* initial_max_stream_data_uni
    InitMaxData,   \* initial_max_data
    InitMaxStreams,\* initial_max_streams_uni
    Lefts,         \* space a packet offers, in control frames
    LossyControl,  \* may packets with MAX_* frames be lost?
    UsizeMod,      \* the modulus of usize arithmetic
    EvalLimit,     \* the constant push_evaluation compares with
    MaxNow,        \* bound: clock
    NoId

ASSUME ConstantsAssumption ==
    /\ NoId \notin Ids /\ IsFiniteSet(Ids)
    /\ BlockLen \in Nat
    /\ \A f \in Frames :
         /\ f \in [off : Nat, end : Nat, fin : BOOLEAN]
         /\ f.off <= f.end /\ f.end <= BlockLen
         /\ f.fin => f.end = BlockLen
         /\ f.off < f.end \/ f.fin
    /\ Retransmit \in BOOLEAN /\ Resets \in BOOLEAN /\ Infos \in BOOLEAN
    /\ AppShutdown \in BOOLEAN /\ LossyControl \in BOOLEAN
    /\ Caps \subseteq Nat /\ Lefts \subseteq Nat
    /\ InitStreamMax \in Nat /\ InitMaxData \in Nat /\ InitMaxStreams \in Nat
    /\ UsizeMod \in Nat \ {0} /\ \A l \in Lefts : l < UsizeMod
    /\ EvalLimit \in Nat /\ MaxNow \in Nat

VARIABLES
    \* Stream and RecvBuf, one field per variable
    st,              \* "none", "live" or "collected"
    data, off, len, max_data, max_data_next, fin_off, drain,
    info,            \* set_block_info was called
    good_recv,
    \* StreamMap
    readable, almost_full,
    opened,          \* peer_opened_streams_uni
    max_streams, max_streams_next,   \* local_max_streams_uni, _next
    \* Connection
    rx_data, max_rx_data, max_rx_data_next,
    error,           \* why the connection was closed; "panic": overflow check
    now,
    \* the call in progress: its stream; the chunk being stored, the piece put
    \* aside, the chunks still to compare with; space left in the output
    \* buffer or the packet; does the packet reach the peer?
    pc, cur, buf, tmp, todo, cap, reaches,
    \* what the peer knows: the limits it was told; the bytes acked to it
    peer_max_data, peer_max_streams, peer_max_stream, got

streamVars == <<st, data, off, len, max_data, max_data_next, fin_off, drain, info,
                good_recv>>
mapVars    == <<readable, almost_full, opened, max_streams, max_streams_next>>
flowVars   == <<rx_data, max_rx_data, max_rx_data_next>>
callVars   == <<pc, cur, buf, tmp, todo, cap, reaches>>
limitVars  == <<peer_max_data, peer_max_streams, peer_max_stream>>
vars == <<streamVars, mapVars, flowVars, error, now, callVars, limitVars, got>>

-----------------------------------------------------------------------------
NoFin == -1

Chunk == [off : Nat, end : Nat, fin : BOOLEAN]
NoChunk == [off |-> 0, end |-> 0, fin |-> FALSE]

\* RangeBuf::is_empty; the bytes of a chunk
Empty(c) == c.off = c.end
Bytes(c) == c.off..(c.end - 1)

\* RangeBuf::split_off: the tail keeps the fin flag, the head loses it
TailFrom(c, o) == [c EXCEPT !.off = o]
HeadTo(c, o) == [c EXCEPT !.end = o, !.fin = FALSE]

Live(id) == st[id] = "live"

\* BinaryHeap::peek under RangeBuf's reversed order (fault: not reversed), and
\* RecvBuf::ready
Lowest_Highest(chunks) == CHOOSE c \in chunks : \A d \in chunks : d.off <= c.off
Lowest(chunks) == CHOOSE c \in chunks : \A d \in chunks : c.off <= d.off
ReadyAt(chunks, o) ==
    /\ \E c \in chunks : c.off = o
    /\ \A c \in chunks : o <= c.off
Ready(id) == ReadyAt(data[id], off[id])

\* StreamMap::mark_readable of a stream with something to read; fault: left out
Marked_Never(id, chunks) == readable
Marked(id, chunks) ==
    IF ReadyAt(chunks, off[id]) THEN readable \cup {id} ELSE readable

\* RecvBuf::almost_full
AlmostFull(id) ==
    /\ fin_off[id] = NoFin
    /\ max_data_next[id] # max_data[id]
    /\ max_data_next[id] \div 2 > max_data[id] - len[id]

\* Connection::should_update_max_data; fault: the limit must have doubled
ShouldUpdateMaxData_Doubled ==
    max_rx_data_next # max_rx_data /\ max_rx_data_next \div 2 > max_rx_data
ShouldUpdateMaxData ==
    /\ max_rx_data_next # max_rx_data
    /\ max_rx_data_next \div 2 > max_rx_data - rx_data

\* StreamMap::should_update_max_streams_uni
ShouldUpdateMaxStreams ==
    /\ max_streams_next # max_streams
    /\ max_streams_next \div 2 > max_streams - opened

-----------------------------------------------------------------------------
TypeOK ==
    /\ st \in [Ids -> {"none", "live", "collected"}]
    /\ data \in [Ids -> SUBSET Chunk]
    /\ off \in [Ids -> Nat] /\ len \in [Ids -> Nat]
    /\ max_data \in [Ids -> Nat] /\ max_data_next \in [Ids -> Nat]
    /\ fin_off \in [Ids -> Nat \cup {NoFin}]
    /\ drain \in [Ids -> BOOLEAN] /\ info \in [Ids -> BOOLEAN]
    /\ good_recv \in [Ids -> Nat]
    /\ readable \subseteq Ids /\ almost_full \subseteq Ids
    /\ opened \in Nat /\ max_streams \in Nat /\ max_streams_next \in Nat
    /\ rx_data \in Nat /\ max_rx_data \in Nat /\ max_rx_data_next \in Nat
    /\ error \in {"none", "flow_control", "final_size", "stream_limit", "panic"}
    /\ now \in Nat
    /\ pc \in {"idle", "push", "pop", "credit"} /\ cur \in Ids \cup {NoId}
    /\ buf \in Chunk /\ tmp \in Chunk /\ todo \subseteq Chunk
    /\ cap \in Nat /\ reaches \in BOOLEAN
    /\ peer_max_data \in Nat /\ peer_max_streams \in Nat
    /\ peer_max_stream \in [Ids -> Nat]
    /\ got \in [Ids -> SUBSET Nat]

Init ==
    /\ st = [id \in Ids |-> "none"]
    /\ data = [id \in Ids |-> {}]
    /\ off = [id \in Ids |-> 0] /\ len = [id \in Ids |-> 0]
    /\ max_data = [id \in Ids |-> InitStreamMax]
    /\ max_data_next = [id \in Ids |-> InitStreamMax]
    /\ fin_off = [id \in Ids |-> NoFin]
    /\ drain = [id \in Ids |-> FALSE] /\ info = [id \in Ids |-> FALSE]
    /\ good_recv = [id \in Ids |-> 0]
    /\ readable = {} /\ almost_full = {}
    /\ opened = 0 /\ max_streams = InitMaxStreams /\ max_streams_next = InitMaxStreams
    /\ rx_data = 0 /\ max_rx_data = InitMaxData /\ max_rx_data_next = InitMaxData
    /\ error = "none" /\ now = 0
    /\ pc = "idle" /\ cur = NoId /\ buf = NoChunk /\ tmp = NoChunk /\ todo = {}
    /\ cap = 0 /\ reaches = TRUE
    /\ peer_max_data = InitMaxData /\ peer_max_streams = InitMaxStreams
    /\ peer_max_stream = [id \in Ids |-> InitStreamMax]
    /\ got = [id \in Ids |-> {}]

-----------------------------------------------------------------------------
(* The peer: what it may send, given what it was told *)

MaySend(id) == st[id] = "none" => opened < peer_max_streams

\* The peer counts each byte once against the connection's limit (tx_data).
MaySendFrame(id, f) ==
    LET acked == UNION {{i} \X got[i] : i \in Ids}
        bytes == {id} \X Bytes(f)
    IN
    /\ MaySend(id)
    /\ f.end <= peer_max_stream[id]
    /\ Cardinality(acked \cup bytes) <= peer_max_data
    /\ \/ Retransmit
       \/ Bytes(f) \cap got[id] = {} /\ (Empty(f) => fin_off[id] = NoFin)

-----------------------------------------------------------------------------
(* Connection::process_frame *)

\* StreamMap::get_or_create for a peer-initiated stream
LimitHit(id) == st[id] = "none" /\ opened >= max_streams
Open(id) ==
    IF st[id] = "none" /\ opened < max_streams
    THEN st' = [st EXCEPT ![id] = "live"] /\ opened' = opened + 1
    ELSE UNCHANGED <<st, opened>>

\* The checks RecvBuf::push_evaluation makes before it changes anything
PushError(id, f) ==
    IF f.end > max_data[id] THEN "flow_control"
    ELSE IF \/ fin_off[id] # NoFin /\ (f.end > fin_off[id] \/ (f.fin /\ f.end # fin_off[id]))
            \/ f.fin /\ f.end < len[id]
         THEN "final_size" ELSE "none"

\* The connection's limit is checked first; fault: only what was received before
OverLimit_Late(f) == rx_data > max_rx_data
OverLimit(f) == rx_data + (f.end - f.off) > max_rx_data

FrameError(id, f) ==
    IF OverLimit(f) THEN "flow_control"
    ELSE IF st[id] = "collected" THEN "none"
    ELSE IF LimitHit(id) THEN "stream_limit"
    ELSE PushError(id, f)

\* STREAM frame refused: recv() closes the connection
RecvStreamError(id, f) ==
    /\ pc = "idle" /\ error = "none"
    /\ FrameError(id, f) # "none"
    /\ error' = FrameError(id, f)
    /\ IF OverLimit(f) THEN UNCHANGED <<st, opened>> ELSE Open(id)
    /\ UNCHANGED <<data, off, len, max_data, max_data_next, fin_off, drain, info,
                   good_recv, readable, almost_full, max_streams, max_streams_next,
                   flowVars, now, callVars, limitVars, got>>

\* Does push_evaluation reach its loop?  Fault: data below the highest offset
\* received is taken for a duplicate
Stores_Len(id, f) ==
    /\ ~drain[id]
    /\ Empty(f) => f.fin /\ fin_off[id] = NoFin
    /\ Empty(f) \/ len[id] < f.end
Stores(id, f) ==
    /\ ~drain[id]
    /\ Empty(f) => f.fin /\ fin_off[id] = NoFin
    /\ Empty(f) \/ off[id] < f.end

\* "Discard incoming data below current stream offset"
Trim(id, c) == IF off[id] > c.off THEN TailFrom(c, off[id]) ELSE c

\* STREAM frame accepted
RecvStream(id, f) ==
    /\ pc = "idle" /\ error = "none"
    /\ FrameError(id, f) = "none" /\ st[id] # "collected"
    /\ Open(id)
    /\ rx_data' = rx_data + (f.end - f.off)
    /\ fin_off' = [fin_off EXCEPT ![id] = IF f.fin THEN f.end ELSE @]
    /\ got' = [got EXCEPT ![id] = @ \cup Bytes(f)]
    /\ IF Stores(id, f)
       THEN /\ pc' = "push" /\ cur' = id
            /\ buf' = Trim(id, f) /\ tmp' = NoChunk /\ todo' = data[id]
            /\ UNCHANGED readable
       ELSE /\ readable' = Marked(id, data[id])
            /\ UNCHANGED <<pc, cur, buf, tmp, todo>>
    /\ UNCHANGED <<data, off, len, max_data, max_data_next, drain, info, good_recv,
                   almost_full, max_streams, max_streams_next, max_rx_data,
                   max_rx_data_next, error, now, cap, reaches, limitVars>>

\* push_evaluation's loop, "New buffer is fully contained in existing buffer":
\* the call returns, and so does process_frame after marking the stream
PushContained(b) ==
    /\ pc = "push" /\ b \in todo
    /\ buf.off >= b.off /\ buf.end <= b.end
    /\ pc' = "idle" /\ cur' = NoId /\ buf' = NoChunk /\ tmp' = NoChunk /\ todo' = {}
    /\ readable' = Marked(cur, data[cur])
    /\ UNCHANGED <<streamVars, almost_full, opened, max_streams, max_streams_next,
                   flowVars, error, now, cap, reaches, limitVars, got>>

\* The loop's other cases: the overlap is cut off the new buffer, its part
\* from an overlapped end on is put aside; fault: an overlapping start is kept
StartOverlaps(b) == buf.off >= b.off /\ buf.off < b.end
EndOverlaps(b) == buf.off < b.off /\ buf.end > b.off
CutBuf_KeepsStart(b) == IF EndOverlaps(b) THEN HeadTo(buf, b.off) ELSE buf
CutBuf(b) ==
    IF StartOverlaps(b) THEN TailFrom(buf, b.end)
    ELSE IF EndOverlaps(b) THEN HeadTo(buf, b.off) ELSE buf
CutTmp(b) == IF EndOverlaps(b) THEN TailFrom(buf, b.off) ELSE tmp
PushCut(b) ==
    /\ pc = "push" /\ b \in todo
    /\ ~(buf.off >= b.off /\ buf.end <= b.end)
    /\ todo' = todo \ {b}
    /\ buf' = CutBuf(b) /\ tmp' = CutTmp(b)
    /\ UNCHANGED <<streamVars, mapVars, flowVars, error, now, pc, cur, cap, reaches,
                   limitVars, got>>

\* The end of one round: the buffer goes into the heap; what was put aside
\* starts another round, otherwise process_frame marks the stream readable
StoreChunk ==
    LET chunks == data[cur] \cup {buf}
        newLen == IF buf.end > len[cur] THEN buf.end ELSE len[cur]
        again == tmp # NoChunk
    IN
    /\ pc = "push" /\ todo = {}
    /\ data' = [data EXCEPT ![cur] = chunks]
    /\ len' = [len EXCEPT ![cur] = newLen]
    /\ good_recv' = [good_recv EXCEPT ![cur] =
                        IF info[cur] /\ now <= EvalLimit THEN newLen ELSE @]
    /\ IF again
       THEN /\ buf' = Trim(cur, tmp) /\ todo' = chunks
            /\ UNCHANGED <<pc, cur, readable>>
       ELSE /\ pc' = "idle" /\ cur' = NoId /\ buf' = NoChunk /\ todo' = {}
            /\ readable' = Marked(cur, chunks)
    /\ tmp' = NoChunk
    /\ UNCHANGED <<st, off, max_data, max_data_next, fin_off, drain, info, almost_full,
                   opened, max_streams, max_streams_next, flowVars, error, now, cap,
                   reaches, limitVars, got>>

\* BLOCK_INFO for a stream that is not collected
RecvInfo(id) ==
    /\ pc = "idle" /\ error = "none"
    /\ st[id] # "collected" /\ ~info[id]
    /\ Open(id)
    /\ error' = IF LimitHit(id) THEN "stream_limit" ELSE error
    /\ info' = [info EXCEPT ![id] = ~LimitHit(id)]
    /\ UNCHANGED <<data, off, len, max_data, max_data_next, fin_off, drain, good_recv,
                   readable, almost_full, max_streams, max_streams_next, flowVars, now,
                   callVars, limitVars, got>>

\* RESET_STREAM with error code 1, from a peer that wrote the whole block:
\* shutdown(), then reset(), then the connection's accounting
RecvReset(id) ==
    LET conflict == fin_off[id] \notin {NoFin, BlockLen} \/ BlockLen < len[id]
        newRx == rx_data + (BlockLen - len[id])
    IN
    /\ pc = "idle" /\ error = "none"
    /\ st[id] # "collected" /\ ~drain[id]
    /\ Open(id)
    /\ IF LimitHit(id)
       THEN error' = "stream_limit" /\ UNCHANGED <<drain, data, fin_off, rx_data>>
       ELSE /\ drain' = [drain EXCEPT ![id] = TRUE]
            /\ data' = [data EXCEPT ![id] = {}]
            /\ IF conflict
               THEN error' = "final_size" /\ UNCHANGED <<fin_off, rx_data>>
               ELSE /\ fin_off' = [fin_off EXCEPT ![id] = BlockLen]
                    /\ rx_data' = newRx
                    /\ error' = IF newRx > max_rx_data THEN "flow_control" ELSE error
    /\ UNCHANGED <<off, len, max_data, max_data_next, info, good_recv, readable,
                   almost_full, max_streams, max_streams_next, max_rx_data,
                   max_rx_data_next, now, callVars, limitVars, got>>

-----------------------------------------------------------------------------
(* The application *)

\* Connection::stream_recv up to the loop of RecvBuf::pop
StreamRecv(id, n) ==
    /\ pc = "idle" /\ error # "panic" /\ Live(id) /\ Ready(id)
    /\ pc' = "pop" /\ cur' = id /\ cap' = n
    /\ UNCHANGED <<streamVars, mapVars, flowVars, error, now, buf, tmp, todo, reaches,
                   limitVars, got>>

\* One round of pop's loop: a chunk longer than the space left is split;
\* fault: it never is
TooLong_Never == FALSE
TooLong == Lowest(data[cur]).end - Lowest(data[cur]).off > cap
PopChunk ==
    LET c == Lowest(data[cur])
        n == IF TooLong THEN cap ELSE c.end - c.off
    IN
    /\ pc = "pop" /\ cap > 0 /\ Ready(cur)
    /\ data' = [data EXCEPT ![cur] =
                   (@ \ {c}) \cup (IF TooLong THEN {TailFrom(c, c.off + cap)} ELSE {})]
    /\ off' = [off EXCEPT ![cur] = @ + n]
    /\ cap' = cap - n
    /\ max_data_next' = [max_data_next EXCEPT ![cur] = @ + n]
    /\ max_rx_data_next' = max_rx_data_next + n
    /\ UNCHANGED <<st, len, max_data, fin_off, drain, info, good_recv, mapVars, rx_data,
                   max_rx_data, error, now, pc, cur, buf, tmp, todo, reaches, limitVars,
                   got>>

\* StreamMap::collect
Collect ==
    st' = [st EXCEPT ![cur] = "collected"] /\ max_streams_next' = max_streams_next + 1

\* The rest of stream_recv
PopDone ==
    /\ pc = "pop" /\ (cap = 0 \/ ~Ready(cur))
    /\ almost_full' = IF AlmostFull(cur) THEN almost_full \cup {cur} ELSE almost_full
    /\ readable' = IF Ready(cur) THEN readable ELSE readable \ {cur}
    /\ IF fin_off[cur] = off[cur] THEN Collect ELSE UNCHANGED <<st, max_streams_next>>
    /\ pc' = "idle" /\ cur' = NoId /\ cap' = 0
    /\ UNCHANGED <<data, off, len, max_data, max_data_next, fin_off, drain, info,
                   good_recv, opened, max_streams, flowVars, error, now, buf, tmp, todo,
                   reaches, limitVars, got>>

\* Connection::stream_shutdown(Shutdown::Read)
StreamShutdownRead(id) ==
    /\ AppShutdown /\ pc = "idle" /\ error # "panic" /\ Live(id) /\ ~drain[id]
    /\ drain' = [drain EXCEPT ![id] = TRUE]
    /\ data' = [data EXCEPT ![id] = {}]
    /\ readable' = readable \ {id}
    /\ UNCHANGED <<st, off, len, max_data, max_data_next, fin_off, info, good_recv,
                   almost_full, opened, max_streams, max_streams_next, flowVars, error,
                   now, callVars, limitVars, got>>

-----------------------------------------------------------------------------
(* Connection::send: the frames that advertise credit *)

NeedsUpdate == ShouldUpdateMaxData \/ ShouldUpdateMaxStreams \/ almost_full # {}
StreamsFrames == IF ShouldUpdateMaxStreams THEN 1 ELSE 0

\* StreamMap::update_max_streams_uni; fault: the new limit is not committed
Committed_Not == max_streams
Committed == IF ShouldUpdateMaxStreams THEN max_streams_next ELSE max_streams

\* MAX_STREAMS is written without a look at the space left: usize arithmetic
\* wraps round, and the packet may then be too long to be encoded.  MAX_DATA
\* is only written if it fits.
SendCredit(l, r) ==
    LET room == (l - StreamsFrames) % UsizeMod
        maxData == ShouldUpdateMaxData /\ room >= 1
    IN
    /\ pc = "idle" /\ error = "none" /\ NeedsUpdate
    /\ r \/ LossyControl \/ l < StreamsFrames
    /\ pc' = "credit" /\ reaches' = r
    /\ cap' = IF maxData THEN room - 1 ELSE room
    /\ max_streams' = Committed
    /\ max_rx_data' = IF maxData THEN max_rx_data_next ELSE max_rx_data
    /\ peer_max_streams' = IF ShouldUpdateMaxStreams /\ r
                           THEN max_streams_next ELSE peer_max_streams
    /\ peer_max_data' = IF maxData /\ r THEN max_rx_data_next ELSE peer_max_data
    /\ UNCHANGED <<streamVars, readable, almost_full, opened, max_streams_next, rx_data,
                   max_rx_data_next, error, now, cur, buf, tmp, todo, peer_max_stream,
                   got>>

\* The same subtraction in a build with overflow checks
SendCreditPanic(l) ==
    /\ pc = "idle" /\ error = "none" /\ l < StreamsFrames
    /\ error' = "panic"
    /\ UNCHANGED <<streamVars, mapVars, flowVars, now, callVars, limitVars, got>>

\* One round of the MAX_STREAM_DATA loop: the limit is committed and the mark
\* taken away before the frame's length is compared with the space left
Advertise(id) ==
    LET fits == cap >= 1 IN
    /\ pc = "credit" /\ id \in almost_full
    /\ almost_full' = almost_full \ {id}
    /\ IF Live(id)
       THEN /\ max_data' = [max_data EXCEPT ![id] = max_data_next[id]]
            /\ peer_max_stream' = IF fits /\ reaches
                                  THEN [peer_max_stream EXCEPT ![id] = max_data_next[id]]
                                  ELSE peer_max_stream
            /\ cap' = IF fits THEN cap - 1 ELSE 0
            /\ pc' = IF fits THEN "credit" ELSE "idle"
       ELSE UNCHANGED <<max_data, peer_max_stream, cap, pc>>
    /\ UNCHANGED <<st, data, off, len, max_data_next, fin_off, drain, info, good_recv,
                   readable, opened, max_streams, max_streams_next, flowVars, error,
                   now, cur, buf, tmp, todo, reaches, peer_max_data, peer_max_streams,
                   got>>

CreditDone ==
    /\ pc = "credit" /\ almost_full = {}
    /\ pc' = "idle" /\ cap' = 0 /\ reaches' = TRUE
    /\ UNCHANGED <<streamVars, mapVars, flowVars, error, now, cur, buf, tmp, todo,
                   limitVars, got>>

Tick ==
    /\ pc = "idle" /\ now < MaxNow
    /\ now' = now + 1
    /\ UNCHANGED <<streamVars, mapVars, flowVars, error, callVars, limitVars, got>>

-----------------------------------------------------------------------------
\* The handlers take whatever frame comes; here it comes from an honest peer
InfoArrives(id) == Infos /\ MaySend(id) /\ RecvInfo(id)
ResetArrives(id) ==
    Resets /\ MaySend(id) /\ BlockLen <= peer_max_stream[id] /\ RecvReset(id)
Arrive == \E id \in Ids, f \in Frames : MaySendFrame(id, f) /\ RecvStream(id, f)
ErrorArrives == \E id \in Ids, f \in Frames : MaySendFrame(id, f) /\ RecvStreamError(id, f)
ArriveElse == (\E id \in Ids : InfoArrives(id) \/ ResetArrives(id)) \/ ErrorArrives
PushStep == (\E b \in todo : PushContained(b) \/ PushCut(b)) \/ StoreChunk
ReadStep == (\E id \in Ids, n \in Caps : StreamRecv(id, n)) \/ PopChunk \/ PopDone
CreditStep ==
    \/ \E l \in Lefts, r \in BOOLEAN : SendCredit(l, r)
    \/ \E id \in almost_full : Advertise(id)
    \/ CreditDone

Next ==
    \/ Arrive \/ ArriveElse \/ PushStep \/ ReadStep \/ CreditStep \/ Tick
    \/ \E l \in Lefts : SendCreditPanic(l)
    \/ \E id \in Ids : StreamShutdownRead(id)

Spec == Init /\ [][Next]_vars

\* The peer keeps sending what the limits allow, the application keeps
\* reading what is readable, and the event loop keeps calling send().
FairSpec ==
    Spec /\ WF_vars(Arrive) /\ WF_vars(PushStep) /\ WF_vars(ReadStep) /\ WF_vars(CreditStep)

-----------------------------------------------------------------------------
(* What the receiver promises *)

Buffered(id) == UNION {Bytes(c) : c \in data[id]}

\* Whatever overlapping, duplicated and reordered frames arrive, the chunks of
\* a RecvBuf are disjoint, not yet read, and end within the bytes received and
\* the final size; only a fin marker is empty.
ChunksDisjoint ==
    \A id \in Ids :
        /\ \A c \in data[id] :
              /\ off[id] <= c.off /\ c.off <= c.end /\ c.end <= len[id]
              /\ fin_off[id] # NoFin => c.end <= fin_off[id]
              /\ Empty(c) => c.fin
        /\ \A c, d \in data[id] : c # d => c.end <= d.off \/ d.end <= c.off

\* The unsigned subtractions of should_update_max_data, almost_full and
\* should_update_max_streams_uni never underflow while they are evaluated.
NoUnderflow ==
    /\ error = "none" => rx_data <= max_rx_data /\ opened <= max_streams
    /\ \A id \in Ids : len[id] <= max_data[id]

\* The readable set is exact between calls: a stream with data or a fin marker
\* at its read offset is in it, so the application is not left waiting for
\* data that is there, and a stream in it has something to read.  Only a
\* canceled stream may be left in it with nothing to read, and a collected one.
ReadableExact ==
    pc = "idle" => \A id \in Ids : Live(id) =>
        /\ Ready(id) => id \in readable
        /\ id \in readable => Ready(id) \/ drain[id]

\* A peer that keeps to the limits it was told and to one final size is never
\* accused of breaking the stream limit or the final size.
HonestPeerKept == error \notin {"stream_limit", "final_size"}

\* Every byte in an acknowledged packet was read or is in the buffer, unless
\* the stream was shut down: the peer will not send it again.
NoAckedByteLost ==
    pc = "idle" => \A id \in Ids :
        ~drain[id] => got[id] = 0..(off[id] - 1) \cup Buffered(id)

\* With credit frames that arrive, the flow control windows never stall the
\* transfer: every block is read to its end and collected.
AllCollected == <>(\A id \in Ids : st[id] = "collected")

-----------------------------------------------------------------------------
(* What the documentation says and the code does not do *)

\* Error::FlowControl: "The peer violated the local flow control limits."
HonestPeerInWindow == error # "flow_control"

=============================================================================
