------------------------ MODULE BlockReceiver_proofs ------------------------
(***************************************************************************)
(* Proofs about BlockReceiver for every value of its constants: type       *)
(* correctness, the shape of the receive buffers under any frames in any   *)
(* order, the flow control arithmetic, the readable set, and what an       *)
(* honest peer may rely on.                                                *)
(***************************************************************************)
EXTENDS BlockReceiver, TLAPS

-----------------------------------------------------------------------------
\* What holds of a chunk that is, or is about to be, in the buffer of a stream
ChunkOK(id, c) ==
    /\ c \in Chunk
    /\ off[id] <= c.off /\ c.off <= c.end
    /\ c.end <= max_data[id] /\ c.end <= BlockLen
    /\ Empty(c) => c.fin
    /\ c.fin => fin_off[id] = c.end
    /\ fin_off[id] # NoFin => c.end <= fin_off[id]

Apart(c, d) == c.end <= d.off \/ d.end <= c.off

BufferOK(id) ==
    /\ \A c \in data[id] : ChunkOK(id, c) /\ c.end <= len[id]
    /\ \A c, d \in data[id] : c # d => Apart(c, d)

StreamOK(id) ==
    /\ off[id] <= len[id] /\ len[id] <= max_data[id] /\ len[id] <= BlockLen
    /\ max_data[id] <= max_data_next[id]
    /\ fin_off[id] \in {NoFin, BlockLen}
    /\ st[id] = "none" => data[id] = {}

Streams == \A id \in Ids : BufferOK(id) /\ StreamOK(id)

\* The loops of RecvBuf::push and RecvBuf::pop: the buffer being stored does
\* not overlap the chunks it was compared with
Call ==
    /\ pc = "push" => /\ cur \in Ids /\ st[cur] # "none"
                      /\ ChunkOK(cur, buf)
                      /\ tmp # NoChunk => ChunkOK(cur, tmp)
                      /\ todo \subseteq data[cur]
                      /\ \A c \in data[cur] \ todo : Apart(c, buf)
    /\ pc = "pop" => cur \in Ids

\* The limits only grow, the peer is never told more than was committed
Limits ==
    /\ error = "none" => rx_data <= max_rx_data
    /\ opened <= max_streams
    /\ max_rx_data <= max_rx_data_next /\ max_streams <= max_streams_next
    /\ peer_max_streams <= max_streams

\* Data at the read offset is announced, at every step of a call
Marks ==
    \A id \in Ids :
        Live(id) /\ Ready(id) /\ ~(pc = "push" /\ id = cur) => id \in readable

IInv == TypeOK /\ Streams /\ Call /\ Limits /\ Marks

\* What a frame of the block must be like, whoever sends it and whenever it comes
Fits(f) ==
    /\ f \in Chunk /\ f.off <= f.end /\ f.end <= BlockLen
    /\ f.fin => f.end = BlockLen
    /\ f.off < f.end \/ f.fin

-----------------------------------------------------------------------------
(* Facts the steps share *)

\* The frames the peer may send
LEMMA FrameFacts ==
    ASSUME NEW f, Fits(f)
    PROVE  /\ f \in Chunk /\ f.off \in Nat /\ f.end \in Nat /\ f.fin \in BOOLEAN
           /\ f.off <= f.end /\ f.end <= BlockLen /\ BlockLen \in Nat
           /\ f.fin => f.end = BlockLen
           /\ f.off < f.end \/ f.fin
BY ConstantsAssumption DEF Fits, Chunk

LEMMA FramesFit == \A f \in Frames : Fits(f)
BY ConstantsAssumption DEF Fits, Chunk

\* The halves RangeBuf::split_off makes
LEMMA SplitFacts ==
    ASSUME NEW c \in Chunk, NEW o \in Nat
    PROVE  /\ TailFrom(c, o) \in Chunk /\ HeadTo(c, o) \in Chunk
           /\ TailFrom(c, o).off = o /\ TailFrom(c, o).end = c.end
           /\ TailFrom(c, o).fin = c.fin
           /\ HeadTo(c, o).off = c.off /\ HeadTo(c, o).end = o
           /\ HeadTo(c, o).fin = FALSE
BY DEF Chunk, TailFrom, HeadTo

\* The root of the heap is the chunk at the read offset, if there is one
LEMMA LowestReady ==
    ASSUME NEW chunks \in SUBSET Chunk, NEW o \in Nat, ReadyAt(chunks, o)
    PROVE  /\ Lowest(chunks) \in chunks
           /\ Lowest(chunks).off = o
<1>1. PICK c \in chunks : c.off = o
  BY DEF ReadyAt
<1>2. \A d \in chunks : c.off <= d.off
  BY <1>1 DEF ReadyAt
<1>3. Lowest(chunks) \in chunks /\ \A d \in chunks : Lowest(chunks).off <= d.off
  BY <1>1, <1>2 DEF Lowest
<1>4. Lowest(chunks).off <= o /\ o <= Lowest(chunks).off
  BY <1>1, <1>3 DEF ReadyAt
<1>5. Lowest(chunks).off \in Nat
  BY <1>3 DEF Chunk
<1> QED BY <1>3, <1>4, <1>5

\* Within the limit it was told, the peer never meets the stream limit
LEMMA NoLimitHit ==
    ASSUME IInv, NEW id \in Ids, MaySend(id)
    PROVE  ~LimitHit(id)
BY DEF IInv, TypeOK, Limits, MaySend, LimitHit

\* get_or_create
LEMMA OpenFacts ==
    ASSUME IInv, NEW id \in Ids, Open(id)
    PROVE  /\ st' \in [Ids -> {"none", "live", "collected"}]
           /\ opened' \in Nat /\ opened' <= max_streams
           /\ \A i \in Ids : st'[i] = st[i] \/ (i = id /\ st[i] = "none" /\ st'[i] = "live")
BY DEF IInv, TypeOK, Limits, Open

\* The parts of the invariant that only depend on the streams
LEMMA StreamsKept ==
    ASSUME IInv, UNCHANGED <<data, off, len, max_data, max_data_next, fin_off>>,
           \A i \in Ids : st'[i] = "none" => st[i] = "none"
    PROVE  Streams'
BY DEF IInv, Streams, BufferOK, StreamOK, ChunkOK

\* A step between the loops leaves nothing to say about them
LEMMA CallIdle ==
    ASSUME pc' \notin {"push", "pop"}
    PROVE  Call'
BY DEF Call

\* A stream that opens has nothing to read
LEMMA MarksKept ==
    ASSUME IInv, UNCHANGED <<data, off, readable, pc, cur>>,
           \A i \in Ids : st'[i] = st[i] \/ (st[i] = "none" /\ st'[i] = "live")
                          \/ st'[i] = "collected"
    PROVE  Marks'
BY DEF IInv, Streams, StreamOK, Marks, Live, Ready, ReadyAt

-----------------------------------------------------------------------------
(* Init *)

\* Nothing received, nothing opened
LEMMA IInvInit == Init => IInv
<1> SUFFICES ASSUME Init PROVE IInv
  OBVIOUS
<1>1. TypeOK
  BY ConstantsAssumption DEF Init, TypeOK, Chunk, NoChunk, NoFin
<1>2. Streams
  BY ConstantsAssumption DEF Init, Streams, BufferOK, StreamOK
<1>3. Call /\ Limits
  BY ConstantsAssumption DEF Init, Call, Limits
<1>4. Marks
  BY DEF Init, Marks, Live
<1> QED BY <1>1, <1>2, <1>3, <1>4 DEF IInv

-----------------------------------------------------------------------------
(* STREAM frames *)

\* An honest peer's frame is only refused by the flow control limits
LEMMA FrameErrorKind ==
    ASSUME IInv, NEW id \in Ids, NEW f, Fits(f), MaySendFrame(id, f)
    PROVE  FrameError(id, f) \in {"none", "flow_control"}
<1>1. ~LimitHit(id)
  BY NoLimitHit DEF MaySendFrame
<1>2. f.end <= BlockLen /\ (f.fin => f.end = BlockLen) /\ BlockLen \in Nat /\ f.end \in Nat
  BY FrameFacts
<1>3. fin_off[id] \in {NoFin, BlockLen} /\ len[id] <= BlockLen /\ len[id] \in Nat
  BY DEF IInv, TypeOK, Streams, StreamOK
<1>4. PushError(id, f) # "final_size"
  BY <1>2, <1>3 DEF PushError
<1> QED BY <1>1, <1>4 DEF FrameError, PushError

\* A refused STREAM frame closes the connection and keeps the rest
LEMMA I_RecvStreamError ==
    ASSUME IInv, NEW id \in Ids, NEW f, Fits(f), RecvStreamError(id, f)
    PROVE  IInv'
<1>1. error' \in {"flow_control", "final_size", "stream_limit"}
  BY DEF RecvStreamError, FrameError, PushError
<1>2. /\ st' \in [Ids -> {"none", "live", "collected"}]
      /\ opened' \in Nat /\ opened' <= max_streams
      /\ \A i \in Ids : st'[i] = st[i] \/ (i = id /\ st[i] = "none" /\ st'[i] = "live")
  BY OpenFacts DEF RecvStreamError, IInv, TypeOK, Limits
<1>3. TypeOK'
  BY <1>1, <1>2 DEF RecvStreamError, IInv, TypeOK, callVars, flowVars, limitVars
<1>4. Streams'
  BY <1>2, StreamsKept DEF RecvStreamError
<1>5. Call' /\ Limits'
  BY <1>1, <1>2, CallIdle
     DEF RecvStreamError, IInv, Limits, callVars, flowVars, limitVars
<1>6. Marks'
  BY <1>2, MarksKept DEF RecvStreamError, callVars
<1> QED BY <1>3, <1>4, <1>5, <1>6 DEF IInv

\* What the checks of push_evaluation establish about an accepted frame
LEMMA Accepted ==
    ASSUME IInv, NEW id \in Ids, NEW f, Fits(f), RecvStream(id, f)
    PROVE  /\ f.end <= max_data[id]
           /\ fin_off[id] # NoFin => f.end <= fin_off[id] /\ (f.fin => f.end = fin_off[id])
           /\ f.fin => len[id] <= f.end
           /\ rx_data + (f.end - f.off) <= max_rx_data
<1>1. ~LimitHit(id)
  BY DEF RecvStream, FrameError
<1>2. PushError(id, f) = "none" /\ ~OverLimit(f)
  BY <1>1 DEF RecvStream, FrameError
<1>3. /\ f.end \in Nat /\ f.off \in Nat /\ f.off <= f.end /\ max_data[id] \in Nat
      /\ len[id] \in Nat /\ fin_off[id] \in Nat \cup {NoFin}
      /\ rx_data \in Nat /\ max_rx_data \in Nat
  BY FrameFacts DEF IInv, TypeOK
<1>4. ~(f.end > max_data[id])
  BY <1>2 DEF PushError
<1>5. ~(\/ fin_off[id] # NoFin /\ (f.end > fin_off[id] \/ (f.fin /\ f.end # fin_off[id]))
        \/ f.fin /\ f.end < len[id])
  BY <1>2, <1>4 DEF PushError
<1> QED BY <1>2, <1>3, <1>4, <1>5 DEF OverLimit, NoFin

\* The part of a stored frame above the read offset
LEMMA TrimFacts ==
    ASSUME IInv, NEW id \in Ids, NEW f, Fits(f), RecvStream(id, f), Stores(id, f)
    PROVE  ChunkOK(id, Trim(id, f))'
<1>1. /\ f.end <= max_data[id] /\ (f.fin => len[id] <= f.end)
      /\ fin_off[id] # NoFin => f.end <= fin_off[id] /\ (f.fin => f.end = fin_off[id])
  BY Accepted
<1>2. /\ f \in Chunk /\ f.off \in Nat /\ f.end \in Nat /\ f.fin \in BOOLEAN
      /\ f.off <= f.end /\ f.end <= BlockLen /\ (f.off < f.end \/ f.fin)
      /\ off[id] \in Nat /\ len[id] \in Nat /\ off[id] <= len[id]
  BY FrameFacts DEF IInv, TypeOK, Streams, StreamOK
<1>3. /\ off' = off /\ max_data' = max_data
      /\ fin_off'[id] = IF f.fin THEN f.end ELSE fin_off[id]
  BY DEF RecvStream, IInv, TypeOK
<1>4. f.off # f.end => off[id] < f.end
  BY <1>2 DEF Stores, Empty
<1>5. CASE off[id] > f.off
  <2>1. f.off # f.end
    BY <1>1, <1>2, <1>5
  <2>2. /\ TailFrom(f, off[id]) \in Chunk /\ TailFrom(f, off[id]).off = off[id]
        /\ TailFrom(f, off[id]).end = f.end /\ TailFrom(f, off[id]).fin = f.fin
    BY <1>2 DEF TailFrom, Chunk
  <2>3. Trim(id, f)' = TailFrom(f, off[id])
    BY <1>3, <1>5 DEF Trim
  <2> DEFINE t == TailFrom(f, off[id])
  <2>4. t \in Chunk /\ t.off = off[id] /\ t.end = f.end /\ t.fin = f.fin /\ off[id] < f.end
    BY <1>4, <2>1, <2>2
  <2> HIDE DEF t
  <2>5. t.off # t.end /\ t.off <= t.end
    BY <1>2, <2>4
  <2>6. t.fin => fin_off'[id] = t.end
    BY <1>3, <2>4
  <2>7. fin_off'[id] # NoFin => t.end <= fin_off'[id]
    BY <1>1, <1>2, <1>3, <2>4
  <2>8. Trim(id, f)' = t
    BY <2>3 DEF t
  <2> QED BY <1>1, <1>2, <1>3, <2>4, <2>5, <2>6, <2>7, <2>8 DEF ChunkOK, Empty
<1>6. CASE ~(off[id] > f.off)
  <2>1. Trim(id, f)' = f
    BY <1>3, <1>6 DEF Trim
  <2> QED BY <1>1, <1>2, <1>3, <1>6, <2>1 DEF ChunkOK, Empty, NoFin
<1> QED BY <1>5, <1>6

\* An accepted STREAM frame
LEMMA I_RecvStream ==
    ASSUME IInv, NEW id \in Ids, NEW f, Fits(f), RecvStream(id, f)
    PROVE  IInv'
<1>1. /\ st' \in [Ids -> {"none", "live", "collected"}]
      /\ opened' \in Nat /\ opened' <= max_streams
      /\ \A i \in Ids : st'[i] = st[i] \/ (i = id /\ st[i] = "none" /\ st'[i] = "live")
  BY OpenFacts DEF RecvStream
<1>2. /\ f \in Chunk /\ f.off \in Nat /\ f.end \in Nat /\ f.fin \in BOOLEAN
      /\ f.off <= f.end /\ f.end <= BlockLen /\ (f.fin => f.end = BlockLen)
  BY FrameFacts
<1>3. /\ f.end <= max_data[id] /\ (f.fin => len[id] <= f.end)
      /\ fin_off[id] # NoFin => f.end <= fin_off[id] /\ (f.fin => f.end = fin_off[id])
      /\ rx_data + (f.end - f.off) <= max_rx_data
  BY Accepted
<1>4. /\ UNCHANGED <<data, off, len, max_data, max_data_next, drain, info, good_recv,
                     almost_full, max_streams, max_streams_next, max_rx_data,
                     max_rx_data_next, error, now, cap, reaches, limitVars>>
      /\ rx_data' = rx_data + (f.end - f.off)
      /\ fin_off' = [fin_off EXCEPT ![id] = IF f.fin THEN f.end ELSE @]
      /\ got' = [got EXCEPT ![id] = @ \cup Bytes(f)]
  BY DEF RecvStream
<1>5. TypeOK'
  <2>1. fin_off' \in [Ids -> Nat \cup {NoFin}] /\ rx_data' \in Nat
    BY <1>2, <1>4 DEF IInv, TypeOK
  <2>2. got' \in [Ids -> SUBSET Nat]
    BY <1>2, <1>4 DEF IInv, TypeOK, Bytes
  <2>3. Trim(id, f) \in Chunk
    BY <1>2, SplitFacts DEF Trim, IInv, TypeOK
  <2>4. /\ pc' \in {"idle", "push", "pop", "credit"} /\ cur' \in Ids \cup {NoId}
        /\ buf' \in Chunk /\ tmp' \in Chunk /\ todo' \subseteq Chunk /\ readable' \subseteq Ids
    <3>1. NoChunk \in Chunk
      BY DEF NoChunk, Chunk
    <3>2. readable' \subseteq Ids
      BY DEF RecvStream, IInv, TypeOK, Marked
    <3> QED BY <2>3, <3>1, <3>2 DEF RecvStream, IInv, TypeOK
  <2> QED BY <1>1, <1>4, <2>1, <2>2, <2>4 DEF IInv, TypeOK, limitVars
<1>6. Streams'
  <2> SUFFICES ASSUME NEW i \in Ids PROVE BufferOK(i)' /\ StreamOK(i)'
    BY DEF Streams
  <2>1. fin_off'[i] = fin_off[i] \/ (fin_off[i] = NoFin /\ fin_off'[i] = f.end /\ i = id /\ f.fin)
    BY <1>3, <1>4 DEF IInv, TypeOK
  <2>2. BufferOK(i) /\ StreamOK(i) /\ len[i] \in Nat
    BY DEF IInv, Streams, TypeOK
  <2>3. StreamOK(i)'
    BY <1>1, <1>2, <1>4, <2>1, <2>2 DEF StreamOK
  <2>4. ASSUME NEW c \in data[i] PROVE ChunkOK(i, c)'
    <3>1. ChunkOK(i, c) /\ c.end <= len[i] /\ c.end \in Nat
      BY <2>2 DEF BufferOK, ChunkOK, Chunk
    <3>2. CASE fin_off'[i] = fin_off[i]
      BY <1>4, <3>1, <3>2 DEF ChunkOK
    <3>3. CASE fin_off[i] = NoFin /\ fin_off'[i] = f.end /\ i = id /\ f.fin
      BY <1>2, <1>3, <1>4, <2>2, <3>1, <3>3 DEF ChunkOK, NoFin
    <3> QED BY <2>1, <3>2, <3>3
  <2>5. BufferOK(i)'
    BY <1>4, <2>2, <2>4 DEF BufferOK
  <2> QED BY <2>3, <2>5
<1>7. Call'
  <2>1. CASE Stores(id, f)
    <3>1. ChunkOK(id, Trim(id, f))'
      BY <2>1, TrimFacts
    <3>2. pc' = "push" /\ cur' = id /\ buf' = Trim(id, f) /\ tmp' = NoChunk /\ todo' = data[id]
      BY <2>1 DEF RecvStream
    <3>3. Trim(id, f)' = Trim(id, f)
      BY <1>4 DEF Trim
    <3>4. st'[id] # "none"
      BY DEF RecvStream, FrameError, LimitHit, Open, IInv, TypeOK
    <3> QED BY <1>4, <3>1, <3>2, <3>3, <3>4 DEF Call
  <2>2. CASE ~Stores(id, f)
    BY <2>2, CallIdle DEF RecvStream
  <2> QED BY <2>1, <2>2
<1>8. Limits'
  BY <1>1, <1>3, <1>4 DEF IInv, Limits, limitVars
<1>9. Marks'
  <2>1. readable \subseteq readable'
    BY DEF RecvStream, Marked
  <2>2. \A i \in Ids : Ready(i)' <=> Ready(i)
    BY <1>4 DEF Ready
  <2>3. \A i \in Ids \ {id} : Live(i)' => Live(i)
    BY <1>1 DEF Live
  <2>4. Ready(id) => id \in readable' \/ (pc' = "push" /\ cur' = id)
    BY DEF RecvStream, Marked, Ready
  <2>5. pc = "idle"
    BY DEF RecvStream
  <2> QED BY <2>1, <2>2, <2>3, <2>4, <2>5 DEF IInv, Marks
<1> QED BY <1>5, <1>6, <1>7, <1>8, <1>9 DEF IInv

\* push_evaluation returns at "fully contained"
LEMMA I_PushContained ==
    ASSUME IInv, NEW b \in todo, PushContained(b)
    PROVE  IInv'
<1>1. cur \in Ids /\ pc = "push"
  BY DEF PushContained, IInv, Call
<1>2. NoChunk \in Chunk
  BY DEF NoChunk, Chunk
<1>3. readable' \subseteq Ids
  BY <1>1 DEF PushContained, Marked, IInv, TypeOK
<1>4. TypeOK'
  BY <1>2, <1>3 DEF PushContained, IInv, TypeOK, streamVars, flowVars, limitVars
<1>5. Streams'
  BY StreamsKept DEF PushContained, streamVars
<1>6. Call' /\ Limits'
  BY CallIdle DEF PushContained, IInv, Limits, flowVars, limitVars
<1>7. Marks'
  <2>1. \A i \in Ids : (Ready(i)' <=> Ready(i)) /\ (Live(i)' <=> Live(i))
    BY DEF PushContained, streamVars, Ready, Live
  <2>2. readable \subseteq readable' /\ (Ready(cur) => cur \in readable')
    BY DEF PushContained, Marked, Ready
  <2> QED BY <2>1, <2>2 DEF IInv, Marks
<1> QED BY <1>4, <1>5, <1>6, <1>7 DEF IInv

\* One comparison of push_evaluation's loop: what is left of the new buffer does
\* not overlap the chunk it was compared with, nor the earlier ones
LEMMA I_PushCut ==
    ASSUME IInv, NEW b \in todo, PushCut(b)
    PROVE  IInv'
<1>1. /\ pc = "push" /\ cur \in Ids /\ st[cur] # "none" /\ b \in data[cur]
      /\ ChunkOK(cur, buf) /\ ChunkOK(cur, b) /\ (tmp # NoChunk => ChunkOK(cur, tmp))
      /\ todo \subseteq data[cur]
      /\ \A c \in data[cur] \ todo : Apart(c, buf)
  BY DEF PushCut, IInv, Call, Streams, BufferOK
<1>2. /\ UNCHANGED <<streamVars, mapVars, flowVars, error, now, pc, cur, cap, reaches,
                     limitVars, got>>
      /\ todo' = todo \ {b} /\ buf' = CutBuf(b) /\ tmp' = CutTmp(b)
      /\ ~(buf.off >= b.off /\ buf.end <= b.end)
  BY DEF PushCut
<1>3. /\ buf.off \in Nat /\ buf.end \in Nat /\ buf.fin \in BOOLEAN /\ buf \in Chunk
      /\ b.off \in Nat /\ b.end \in Nat /\ off[cur] \in Nat /\ max_data[cur] \in Nat
      /\ fin_off[cur] \in Nat \cup {NoFin} /\ BlockLen \in Nat
      /\ \A c \in data[cur] : c.off \in Nat /\ c.end \in Nat
  BY <1>1, ConstantsAssumption DEF ChunkOK, Chunk, IInv, TypeOK
<1>4. /\ off[cur] <= buf.off /\ buf.off <= buf.end /\ off[cur] <= b.off /\ b.off <= b.end
      /\ buf.end <= max_data[cur] /\ buf.end <= BlockLen
      /\ (buf.off = buf.end => buf.fin) /\ (buf.fin => fin_off[cur] = buf.end)
      /\ (fin_off[cur] # NoFin => buf.end <= fin_off[cur])
  BY <1>1 DEF ChunkOK, Empty
<1>5. /\ CutBuf(b) \in Chunk /\ CutTmp(b) \in Chunk
      /\ CutBuf(b).off >= buf.off /\ CutBuf(b).end <= buf.end
      /\ CutBuf(b).off <= CutBuf(b).end /\ Apart(b, CutBuf(b))
      /\ CutBuf(b).off = CutBuf(b).end => CutBuf(b).fin
      /\ CutBuf(b).fin => buf.fin /\ CutBuf(b).end = buf.end
      /\ CutTmp(b) = tmp \/ (/\ CutTmp(b).off = b.off /\ CutTmp(b).end = buf.end
                             /\ CutTmp(b).fin = buf.fin /\ b.off < buf.end)
  <2>1. CASE StartOverlaps(b)
    <3>1. /\ TailFrom(buf, b.end) \in Chunk /\ TailFrom(buf, b.end).off = b.end
          /\ TailFrom(buf, b.end).end = buf.end /\ TailFrom(buf, b.end).fin = buf.fin
      BY <1>3 DEF TailFrom, Chunk
    <3>2. CutBuf(b) = TailFrom(buf, b.end)
      BY <2>1 DEF CutBuf
    <3>3. CutTmp(b) = tmp /\ tmp \in Chunk
      BY <1>3, <2>1 DEF CutTmp, StartOverlaps, EndOverlaps, IInv, TypeOK
    <3> QED BY <1>2, <1>3, <1>4, <2>1, <3>1, <3>2, <3>3 DEF StartOverlaps, Apart
  <2>2. CASE ~StartOverlaps(b) /\ EndOverlaps(b)
    <3>1. /\ HeadTo(buf, b.off) \in Chunk /\ HeadTo(buf, b.off).off = buf.off
          /\ HeadTo(buf, b.off).end = b.off /\ HeadTo(buf, b.off).fin = FALSE
          /\ TailFrom(buf, b.off) \in Chunk /\ TailFrom(buf, b.off).off = b.off
          /\ TailFrom(buf, b.off).end = buf.end /\ TailFrom(buf, b.off).fin = buf.fin
      BY <1>3 DEF HeadTo, TailFrom, Chunk
    <3>2. CutBuf(b) = HeadTo(buf, b.off) /\ CutTmp(b) = TailFrom(buf, b.off)
      BY <2>2 DEF CutBuf, CutTmp
    <3> QED BY <1>2, <1>3, <1>4, <2>2, <3>1, <3>2 DEF EndOverlaps, Apart
  <2>3. CASE ~StartOverlaps(b) /\ ~EndOverlaps(b)
    <3>1. CutBuf(b) = buf /\ CutTmp(b) = tmp /\ tmp \in Chunk
      BY <2>3 DEF CutBuf, CutTmp, IInv, TypeOK
    <3> QED BY <1>2, <1>3, <1>4, <2>3, <3>1 DEF StartOverlaps, EndOverlaps, Apart
  <2> QED BY <2>1, <2>2, <2>3
<1>6. TypeOK'
  BY <1>2, <1>5 DEF IInv, TypeOK, streamVars, mapVars, flowVars, limitVars
<1>7. Streams'
  BY <1>2, StreamsKept DEF streamVars
<1>8. Call'
  <2> DEFINE B == CutBuf(b)
             T == CutTmp(b)
  <2>1. B.off \in Nat /\ B.end \in Nat /\ B.fin \in BOOLEAN /\ T.off \in Nat /\ T.end \in Nat
    BY <1>5 DEF Chunk
  <2>2. ChunkOK(cur, B)
    BY <1>3, <1>4, <1>5, <2>1 DEF ChunkOK, Empty
  <2>3. T # NoChunk => ChunkOK(cur, T)
    BY <1>1, <1>3, <1>4, <1>5, <2>1 DEF ChunkOK, Empty
  <2>4. \A c \in data[cur] \ (todo \ {b}) : Apart(c, B)
    BY <1>1, <1>3, <1>5, <2>1 DEF Apart
  <2> HIDE DEF B, T
  <2>5. buf' = B /\ tmp' = T
    BY <1>2 DEF B, T
  <2>6. UNCHANGED <<st, off, max_data, fin_off, data, cur, pc>>
    BY <1>2 DEF streamVars
  <2>7. ChunkOK(cur, buf)' /\ (tmp' # NoChunk => ChunkOK(cur, tmp)')
    BY <2>2, <2>3, <2>5, <2>6 DEF ChunkOK
  <2> QED BY <1>1, <1>2, <2>4, <2>5, <2>6, <2>7 DEF Call
<1>9. Limits'
  BY <1>2 DEF IInv, Limits, mapVars, flowVars, limitVars
<1>10. Marks'
  BY <1>2, MarksKept DEF streamVars, mapVars
<1> QED BY <1>6, <1>7, <1>8, <1>9, <1>10 DEF IInv

\* push_evaluation stores a buffer that overlaps no chunk
LEMMA I_StoreChunk ==
    ASSUME IInv, StoreChunk
    PROVE  IInv'
<1> DEFINE chunks == data[cur] \cup {buf}
           newLen == IF buf.end > len[cur] THEN buf.end ELSE len[cur]
<1>1. /\ pc = "push" /\ cur \in Ids /\ st[cur] # "none" /\ todo = {}
      /\ ChunkOK(cur, buf) /\ (tmp # NoChunk => ChunkOK(cur, tmp))
      /\ \A c \in data[cur] : Apart(c, buf)
  BY DEF StoreChunk, IInv, Call
<1>2. /\ UNCHANGED <<st, off, max_data, max_data_next, fin_off, drain, info, almost_full,
                     opened, max_streams, max_streams_next, flowVars, error, now, cap,
                     reaches, limitVars, got>>
      /\ data' = [data EXCEPT ![cur] = chunks]
      /\ len' = [len EXCEPT ![cur] = newLen]
      /\ good_recv' = [good_recv EXCEPT ![cur] =
                          IF info[cur] /\ now <= EvalLimit THEN newLen ELSE @]
      /\ tmp' = NoChunk
      /\ IF tmp # NoChunk
         THEN /\ buf' = Trim(cur, tmp) /\ todo' = chunks
              /\ UNCHANGED <<pc, cur, readable>>
         ELSE /\ pc' = "idle" /\ cur' = NoId /\ buf' = NoChunk /\ todo' = {}
              /\ readable' = Marked(cur, chunks)
  BY DEF StoreChunk
<1>3. /\ buf \in Chunk /\ buf.off \in Nat /\ buf.end \in Nat /\ len[cur] \in Nat
      /\ off[cur] \in Nat /\ newLen \in Nat /\ chunks \subseteq Chunk
      /\ len[cur] <= newLen /\ buf.end <= newLen
      /\ newLen = len[cur] \/ newLen = buf.end
  BY <1>1 DEF ChunkOK, Chunk, IInv, TypeOK
<1> HIDE DEF newLen, chunks
<1>4. tmp # NoChunk => Trim(cur, tmp) = tmp
  BY <1>1, <1>3 DEF Trim, ChunkOK, Chunk
<1>5. NoChunk \in Chunk
  BY DEF NoChunk, Chunk
<1>6. TypeOK'
  <2>1. /\ data' \in [Ids -> SUBSET Chunk] /\ len' \in [Ids -> Nat]
        /\ good_recv' \in [Ids -> Nat]
    BY <1>1, <1>2, <1>3 DEF IInv, TypeOK
  <2>2. readable' \subseteq Ids
    BY <1>1, <1>2 DEF IInv, TypeOK, Marked
  <2>3. /\ pc' \in {"idle", "push", "pop", "credit"} /\ cur' \in Ids \cup {NoId}
        /\ buf' \in Chunk /\ tmp' \in Chunk /\ todo' \subseteq Chunk
    BY <1>2, <1>3, <1>4, <1>5 DEF IInv, TypeOK
  <2> QED BY <1>2, <2>1, <2>2, <2>3 DEF IInv, TypeOK, flowVars, limitVars
<1>7. Streams'
  <2> SUFFICES ASSUME NEW i \in Ids PROVE BufferOK(i)' /\ StreamOK(i)'
    BY DEF Streams
  <2>1. BufferOK(i) /\ StreamOK(i)
    BY DEF IInv, Streams
  <2>2. CASE i # cur
    <3>1. data'[i] = data[i] /\ len'[i] = len[i]
      BY <1>2, <2>2 DEF IInv, TypeOK
    <3> QED BY <1>2, <2>1, <3>1 DEF BufferOK, StreamOK, ChunkOK
  <2>3. CASE i = cur
    <3>1. data'[i] = chunks /\ len'[i] = newLen
      BY <1>2, <2>3 DEF IInv, TypeOK
    <3>2. \A c \in chunks : ChunkOK(i, c) /\ c.end <= newLen
      BY <1>1, <1>3, <2>1, <2>3 DEF BufferOK, ChunkOK, Chunk, chunks
    <3>3. \A c, d \in chunks : c # d => Apart(c, d)
      BY <1>1, <2>1, <2>3 DEF BufferOK, Apart, chunks
    <3>4. BufferOK(i)'
      BY <1>2, <3>1, <3>2, <3>3 DEF BufferOK, ChunkOK
    <3>5. off[i] <= newLen /\ newLen <= max_data[i] /\ newLen <= BlockLen
      BY <1>1, <1>3, <2>1, <2>3 DEF StreamOK, ChunkOK
    <3>6. st[i] # "none"
      BY <1>1, <2>3 DEF IInv, Call
    <3> QED BY <1>2, <2>1, <3>1, <3>4, <3>5, <3>6 DEF StreamOK
  <2> QED BY <2>2, <2>3
<1>8. Call'
  <2>1. CASE tmp # NoChunk
    <3>1. buf' = tmp /\ cur' = cur /\ todo' = data'[cur] /\ pc' = "push" /\ tmp' = NoChunk
      BY <1>1, <1>2, <1>4, <2>1 DEF IInv, TypeOK
    <3>2. ChunkOK(cur, buf)'
      BY <1>1, <1>2, <2>1, <3>1 DEF ChunkOK
    <3> QED BY <1>1, <1>2, <3>1, <3>2 DEF Call
  <2>2. CASE tmp = NoChunk
    BY <1>2, <2>2, CallIdle
  <2> QED BY <2>1, <2>2
<1>9. Limits'
  BY <1>2 DEF IInv, Limits, flowVars, limitVars
<1>10. Marks'
  <2>1. \A i \in Ids : i # cur => (Ready(i)' <=> Ready(i)) /\ (Live(i)' <=> Live(i))
    BY <1>2 DEF Ready, Live, IInv, TypeOK
  <2>2. readable \subseteq readable'
    BY <1>2 DEF Marked
  <2>3. ASSUME tmp = NoChunk, NEW i \in Ids, i = cur, Ready(i)'
        PROVE  i \in readable'
    <3>1. data'[i] = chunks /\ off'[i] = off[cur]
      BY <1>2, <2>3 DEF IInv, TypeOK
    <3>2. ReadyAt(chunks, off[cur])
      BY <2>3, <3>1 DEF Ready
    <3> QED BY <1>2, <2>3, <3>2 DEF Marked
  <2>4. ASSUME NEW i \in Ids, i # cur, Live(i)', Ready(i)'
        PROVE  i \in readable'
    BY <2>1, <2>2, <2>4 DEF IInv, Marks
  <2>5. tmp # NoChunk => pc' = "push" /\ cur' = cur
    BY <1>1, <1>2
  <2> QED BY <2>3, <2>4, <2>5 DEF Marks
<1> QED BY <1>6, <1>7, <1>8, <1>9, <1>10 DEF IInv

-----------------------------------------------------------------------------
(* The other frames *)

\* BLOCK_INFO opens at most its stream
LEMMA I_RecvInfo ==
    ASSUME IInv, NEW id \in Ids, RecvInfo(id)
    PROVE  IInv'
<1>1. /\ st' \in [Ids -> {"none", "live", "collected"}]
      /\ opened' \in Nat /\ opened' <= max_streams
      /\ \A i \in Ids : st'[i] = st[i] \/ (i = id /\ st[i] = "none" /\ st'[i] = "live")
  BY OpenFacts DEF RecvInfo
<1>2. error' \in {error, "stream_limit"} /\ info' \in [Ids -> BOOLEAN]
  BY DEF RecvInfo, IInv, TypeOK
<1>3. TypeOK'
  BY <1>1, <1>2 DEF RecvInfo, IInv, TypeOK, callVars, flowVars, limitVars
<1>4. Streams'
  BY <1>1, StreamsKept DEF RecvInfo
<1>5. Call' /\ Limits'
  BY <1>1, <1>2, CallIdle
     DEF RecvInfo, IInv, Limits, callVars, flowVars, limitVars
<1>6. Marks'
  BY <1>1, MarksKept DEF RecvInfo, callVars
<1> QED BY <1>3, <1>4, <1>5, <1>6 DEF IInv

\* A stream whose buffer is cleared has nothing to read; the others are as before
LEMMA MarksCleared ==
    ASSUME IInv, NEW id \in Ids, pc = "idle", UNCHANGED <<off, pc, cur>>,
           data' = [data EXCEPT ![id] = {}], readable \ {id} \subseteq readable',
           \A i \in Ids \ {id} : st'[i] = st[i]
    PROVE  Marks'
<1>1. data'[id] = {} /\ \A i \in Ids \ {id} : data'[i] = data[i]
  BY DEF IInv, TypeOK
<1>2. ~Ready(id)'
  BY <1>1 DEF Ready, ReadyAt
<1>3. ASSUME NEW i \in Ids \ {id}, Live(i)', Ready(i)' PROVE i \in readable'
  BY <1>1, <1>3 DEF IInv, Marks, Ready, Live
<1> QED BY <1>2, <1>3 DEF Marks

\* The streams after a buffer was cleared
LEMMA StreamsCleared ==
    ASSUME IInv, NEW id \in Ids, UNCHANGED <<off, len, max_data, max_data_next>>,
           data' = [data EXCEPT ![id] = {}],
           \A i \in Ids \ {id} : fin_off'[i] = fin_off[i],
           fin_off'[id] \in {NoFin, BlockLen},
           \A i \in Ids : st'[i] = "none" => st[i] = "none"
    PROVE  Streams'
<1>1. data'[id] = {} /\ \A i \in Ids \ {id} : data'[i] = data[i]
  BY DEF IInv, TypeOK
<1>2. BufferOK(id)' /\ StreamOK(id)'
  BY <1>1 DEF IInv, Streams, BufferOK, StreamOK
<1>3. ASSUME NEW i \in Ids \ {id} PROVE BufferOK(i)' /\ StreamOK(i)'
  BY <1>1 DEF IInv, Streams, BufferOK, StreamOK, ChunkOK
<1> QED BY <1>2, <1>3 DEF Streams

\* RESET_STREAM: the block's length never conflicts; a stream beyond the stream
\* limit is not opened
LEMMA I_RecvReset ==
    ASSUME IInv, NEW id \in Ids, RecvReset(id)
    PROVE  IInv'
<1>1. /\ st' \in [Ids -> {"none", "live", "collected"}]
      /\ opened' \in Nat /\ opened' <= max_streams
      /\ \A i \in Ids : st'[i] = st[i] \/ (i = id /\ st[i] = "none" /\ st'[i] = "live")
  BY OpenFacts DEF RecvReset
<1>2. /\ fin_off[id] \in {NoFin, BlockLen} /\ len[id] <= BlockLen
      /\ len[id] \in Nat /\ BlockLen \in Nat /\ rx_data \in Nat /\ max_rx_data \in Nat
  BY ConstantsAssumption DEF IInv, TypeOK, Streams, StreamOK
<1>3. /\ UNCHANGED <<off, len, max_data, max_data_next, info, good_recv, readable,
                     almost_full, max_streams, max_streams_next, max_rx_data,
                     max_rx_data_next, now, callVars, limitVars, got>>
      /\ pc = "idle"
  BY DEF RecvReset
<1>4. CASE LimitHit(id)
  <2>1. error' = "stream_limit" /\ UNCHANGED <<drain, data, fin_off, rx_data>>
    BY <1>4 DEF RecvReset
  <2>2. TypeOK'
    BY <1>1, <1>3, <2>1 DEF IInv, TypeOK, callVars, limitVars
  <2>3. Streams'
    BY <1>1, <1>3, <2>1, StreamsKept
  <2>4. Call' /\ Limits'
    BY <1>1, <1>3, <2>1, CallIdle DEF IInv, Limits, callVars, limitVars
  <2>5. Marks'
    BY <1>1, <1>3, <2>1, MarksKept DEF callVars
  <2> QED BY <2>2, <2>3, <2>4, <2>5 DEF IInv
<1>5. CASE ~LimitHit(id)
  <2>1. /\ drain' = [drain EXCEPT ![id] = TRUE] /\ data' = [data EXCEPT ![id] = {}]
        /\ fin_off' = [fin_off EXCEPT ![id] = BlockLen]
        /\ rx_data' = rx_data + (BlockLen - len[id])
        /\ error' = IF rx_data' > max_rx_data THEN "flow_control" ELSE error
    BY <1>2, <1>5 DEF RecvReset
  <2>2. TypeOK'
    <3>1. rx_data' \in Nat /\ fin_off' \in [Ids -> Nat \cup {NoFin}]
      BY <1>2, <2>1 DEF IInv, TypeOK
    <3>2. drain' \in [Ids -> BOOLEAN] /\ data' \in [Ids -> SUBSET Chunk]
      BY <2>1 DEF IInv, TypeOK
    <3> QED BY <1>1, <1>3, <2>1, <3>1, <3>2 DEF IInv, TypeOK, callVars, limitVars
  <2>3. Streams'
    <3>1. fin_off'[id] = BlockLen /\ \A i \in Ids \ {id} : fin_off'[i] = fin_off[i]
      BY <2>1 DEF IInv, TypeOK
    <3> QED BY <1>1, <1>3, <2>1, <3>1, StreamsCleared
  <2>4. Call' /\ Limits'
    BY <1>1, <1>2, <1>3, <2>1, CallIdle DEF IInv, Limits, callVars, limitVars
  <2>5. Marks'
    BY <1>1, <1>3, <2>1, MarksCleared DEF callVars
  <2> QED BY <2>2, <2>3, <2>4, <2>5 DEF IInv
<1> QED BY <1>4, <1>5

-----------------------------------------------------------------------------
(* The application *)

\* stream_recv starts to read
LEMMA I_StreamRecv ==
    ASSUME IInv, NEW id \in Ids, NEW n \in Caps, StreamRecv(id, n)
    PROVE  IInv'
<1>1. n \in Nat
  BY ConstantsAssumption
<1>2. TypeOK'
  BY <1>1 DEF StreamRecv, IInv, TypeOK, streamVars, mapVars, flowVars, limitVars
<1>3. Streams'
  BY StreamsKept DEF StreamRecv, streamVars
<1>4. Call' /\ Limits'
  BY DEF StreamRecv, IInv, Call, Limits, mapVars, flowVars, limitVars
<1>5. Marks'
  BY DEF StreamRecv, IInv, Marks, Live, Ready, streamVars, mapVars
<1> QED BY <1>2, <1>3, <1>4, <1>5 DEF IInv

\* A round of RecvBuf::pop: the other chunks start after what was read
LEMMA I_PopChunk ==
    ASSUME IInv, PopChunk
    PROVE  IInv'
<1> DEFINE c == Lowest(data[cur])
           n == IF TooLong THEN cap ELSE c.end - c.off
           rest == IF TooLong THEN {TailFrom(c, c.off + cap)} ELSE {}
<1>1. /\ pc = "pop" /\ cur \in Ids /\ cap > 0 /\ cap \in Nat /\ Ready(cur)
      /\ BufferOK(cur) /\ StreamOK(cur) /\ data[cur] \subseteq Chunk /\ off[cur] \in Nat
  BY DEF PopChunk, IInv, Call, TypeOK, Streams
<1>2. /\ UNCHANGED <<st, len, max_data, fin_off, drain, info, good_recv, mapVars, rx_data,
                     max_rx_data, error, now, pc, cur, buf, tmp, todo, reaches, limitVars,
                     got>>
      /\ data' = [data EXCEPT ![cur] = (@ \ {c}) \cup rest]
      /\ off' = [off EXCEPT ![cur] = @ + n] /\ cap' = cap - n
      /\ max_data_next' = [max_data_next EXCEPT ![cur] = @ + n]
      /\ max_rx_data_next' = max_rx_data_next + n
  BY DEF PopChunk
<1>3. c \in data[cur] /\ c.off = off[cur]
  BY <1>1, LowestReady DEF Ready
<1>4. /\ ChunkOK(cur, c) /\ c.end <= len[cur] /\ c \in Chunk
      /\ c.off \in Nat /\ c.end \in Nat /\ c.fin \in BOOLEAN /\ c.off <= c.end
  BY <1>1, <1>3 DEF BufferOK, ChunkOK, Chunk
<1>5. TooLong <=> c.end - c.off > cap
  BY DEF TooLong
<1>6. n \in Nat /\ n <= cap /\ off[cur] + n <= c.end /\ (~TooLong => off[cur] + n = c.end)
  BY <1>1, <1>3, <1>4, <1>5
<1>7. TooLong => /\ TailFrom(c, c.off + cap) \in Chunk
                 /\ TailFrom(c, c.off + cap).off = off[cur] + n
                 /\ TailFrom(c, c.off + cap).end = c.end
                 /\ TailFrom(c, c.off + cap).fin = c.fin
                 /\ off[cur] + n < c.end /\ n > 0
  <2>1. c.off + cap \in Nat
    BY <1>1, <1>4
  <2>2. /\ TailFrom(c, c.off + cap) \in Chunk
        /\ TailFrom(c, c.off + cap).off = c.off + cap
        /\ TailFrom(c, c.off + cap).end = c.end
        /\ TailFrom(c, c.off + cap).fin = c.fin
    BY <1>4, <2>1 DEF TailFrom, Chunk
  <2> QED BY <1>1, <1>3, <1>4, <1>5, <2>2
<1>8. \A d \in rest : /\ d \in Chunk /\ d.off = off[cur] + n /\ d.end = c.end
                      /\ d.fin = c.fin /\ d.off < d.end /\ n > 0
  BY <1>7
<1> HIDE DEF c, n, rest
<1>9. TypeOK'
  <2>1. data' \in [Ids -> SUBSET Chunk]
    BY <1>1, <1>2, <1>8 DEF IInv, TypeOK
  <2>2. /\ off' \in [Ids -> Nat] /\ cap' \in Nat /\ max_data_next' \in [Ids -> Nat]
        /\ max_rx_data_next' \in Nat
    BY <1>1, <1>2, <1>6 DEF IInv, TypeOK
  <2> QED BY <1>2, <2>1, <2>2 DEF IInv, TypeOK, mapVars, limitVars
<1>10. ASSUME NEW d \in data[cur], d # c
       PROVE  off[cur] + n <= d.off
  <2>1. ChunkOK(cur, d) /\ Apart(c, d) /\ d.off \in Nat /\ d.end \in Nat
    BY <1>1, <1>3, <1>10 DEF BufferOK, ChunkOK, Chunk
  <2>2. CASE c.end <= d.off
    BY <1>1, <1>4, <1>6, <2>1, <2>2
  <2>3. CASE d.end <= c.off
    <3>1. d.off = c.off /\ d.end = c.off
      BY <1>1, <1>3, <1>4, <2>1, <2>3 DEF ChunkOK
    <3>2. fin_off[cur] = d.end /\ fin_off[cur] # NoFin
      BY <2>1, <3>1 DEF ChunkOK, Empty, NoFin
    <3>3. c.end <= d.end
      BY <1>4, <3>2 DEF ChunkOK
    <3> QED BY <1>1, <1>3, <1>4, <1>6, <2>1, <3>1, <3>3
  <2> QED BY <2>1, <2>2, <2>3 DEF Apart
<1>11. Streams'
  <2> SUFFICES ASSUME NEW i \in Ids PROVE BufferOK(i)' /\ StreamOK(i)'
    BY DEF Streams
  <2>1. BufferOK(i) /\ StreamOK(i)
    BY DEF IInv, Streams
  <2>2. CASE i # cur
    <3>1. data'[i] = data[i] /\ off'[i] = off[i] /\ max_data_next'[i] = max_data_next[i]
      BY <1>2, <2>2 DEF IInv, TypeOK
    <3> QED BY <1>2, <2>1, <3>1 DEF BufferOK, StreamOK, ChunkOK
  <2>3. CASE i = cur
    <3>1. /\ data'[i] = (data[cur] \ {c}) \cup rest /\ off'[i] = off[cur] + n
          /\ max_data_next'[i] = max_data_next[cur] + n
      BY <1>2, <2>3 DEF IInv, TypeOK
    <3>2. StreamOK(i)'
      <4>1. max_data_next[cur] \in Nat /\ max_data[cur] \in Nat /\ len[cur] \in Nat
        BY <1>1 DEF IInv, TypeOK
      <4>2. st[cur] # "none"
        BY <1>1, <1>3 DEF StreamOK
      <4> QED BY <1>1, <1>2, <1>4, <1>6, <2>3, <3>1, <4>1, <4>2 DEF StreamOK
    <3>3. ASSUME NEW d \in (data[cur] \ {c}) \cup rest
          PROVE  ChunkOK(i, d)' /\ d.end <= len[cur]
      <4>1. CASE d \in rest
        <5>1. /\ d \in Chunk /\ d.off = off[cur] + n /\ d.end = c.end
              /\ d.fin = c.fin /\ d.off < d.end /\ d.off \in Nat /\ d.end \in Nat
          BY <1>8, <4>1 DEF Chunk
        <5>2. /\ c.end <= max_data[cur] /\ c.end <= BlockLen
              /\ (c.fin => fin_off[cur] = c.end)
              /\ (fin_off[cur] # NoFin => c.end <= fin_off[cur])
          BY <1>4 DEF ChunkOK
        <5> QED BY <1>2, <1>4, <2>3, <3>1, <5>1, <5>2 DEF ChunkOK, Empty
      <4>2. CASE d \in data[cur] \ {c}
        <5>1. ChunkOK(cur, d) /\ d.end <= len[cur] /\ off[cur] + n <= d.off
          BY <1>1, <1>10, <4>2 DEF BufferOK
        <5> QED BY <1>2, <2>3, <3>1, <5>1 DEF ChunkOK
      <4> QED BY <3>3, <4>1, <4>2
    <3>4. ASSUME NEW d \in (data[cur] \ {c}) \cup rest, NEW e \in (data[cur] \ {c}) \cup rest,
                 d # e
          PROVE  Apart(d, e)
      <4>1. \A x \in data[cur] \ {c} : c.end <= x.off \/ x.end <= c.off
        BY <1>1, <1>3 DEF BufferOK, Apart
      <4>2. \A x \in data[cur] \ {c} :
               /\ x.off \in Nat /\ x.end \in Nat /\ off[cur] + n <= x.off /\ x.off <= x.end
        BY <1>1, <1>10 DEF BufferOK, ChunkOK, Chunk
      <4>3. \A x \in data[cur] \ {c}, y \in rest : y.end <= x.off
        BY <1>1, <1>3, <1>4, <1>6, <1>8, <4>1, <4>2
      <4>4. \A y, z \in rest : y = z
        BY DEF rest
      <4> QED BY <1>1, <3>4, <4>3, <4>4 DEF BufferOK, Apart
    <3> QED BY <1>2, <2>3, <3>1, <3>2, <3>3, <3>4 DEF BufferOK
  <2> QED BY <2>2, <2>3
<1>12. Call' /\ Limits'
  <2>1. max_rx_data_next \in Nat /\ max_rx_data \in Nat
    BY DEF IInv, TypeOK
  <2> QED BY <1>1, <1>2, <1>6, <2>1 DEF IInv, Call, Limits, mapVars, limitVars
<1>13. Marks'
  <2>1. Live(cur)' => cur \in readable
    BY <1>1, <1>2 DEF IInv, Marks, Live
  <2>2. ASSUME NEW i \in Ids, i # cur, Live(i)', Ready(i)' PROVE i \in readable
    <3>1. data'[i] = data[i] /\ off'[i] = off[i]
      BY <1>2, <2>2 DEF IInv, TypeOK
    <3> QED BY <1>1, <1>2, <2>2, <3>1 DEF IInv, Marks, Live, Ready
  <2> QED BY <1>2, <2>1, <2>2 DEF Marks, mapVars
<1> QED BY <1>9, <1>11, <1>12, <1>13 DEF IInv

\* The end of stream_recv: marks, and a complete stream is collected
LEMMA I_PopDone ==
    ASSUME IInv, PopDone
    PROVE  IInv'
<1>1. cur \in Ids /\ pc = "pop"
  BY DEF PopDone, IInv, Call
<1>2. /\ st' \in [Ids -> {"none", "live", "collected"}] /\ max_streams_next' \in Nat
      /\ max_streams <= max_streams_next'
      /\ \A i \in Ids : st'[i] = st[i] \/ st'[i] = "collected"
  BY <1>1 DEF PopDone, Collect, IInv, TypeOK, Limits
<1>3. TypeOK'
  BY <1>1, <1>2 DEF PopDone, IInv, TypeOK, flowVars, limitVars
<1>4. Streams'
  BY <1>2, StreamsKept DEF PopDone
<1>5. Call' /\ Limits'
  BY <1>2, CallIdle DEF PopDone, IInv, Limits, flowVars, limitVars
<1>6. Marks'
  <2>1. \A i \in Ids : (Ready(i)' <=> Ready(i)) /\ (Live(i)' => Live(i))
    BY <1>2 DEF PopDone, Ready, Live
  <2>2. \A i \in readable : i \in readable' \/ ~Ready(i)
    BY DEF PopDone
  <2> QED BY <1>1, <2>1, <2>2 DEF IInv, Marks
<1> QED BY <1>3, <1>4, <1>5, <1>6 DEF IInv

\* stream_shutdown(Read)
LEMMA I_StreamShutdownRead ==
    ASSUME IInv, NEW id \in Ids, StreamShutdownRead(id)
    PROVE  IInv'
<1>1. drain' \in [Ids -> BOOLEAN] /\ data' \in [Ids -> SUBSET Chunk]
  BY DEF StreamShutdownRead, IInv, TypeOK
<1>2. TypeOK'
  BY <1>1 DEF StreamShutdownRead, IInv, TypeOK, callVars, flowVars, limitVars
<1>3. fin_off[id] \in {NoFin, BlockLen}
  BY DEF IInv, Streams, StreamOK
<1>4. Streams'
  BY <1>3, StreamsCleared DEF StreamShutdownRead
<1>5. Call' /\ Limits'
  BY CallIdle
     DEF StreamShutdownRead, IInv, Limits, callVars, flowVars, limitVars
<1>6. Marks'
  BY MarksCleared DEF StreamShutdownRead, callVars
<1> QED BY <1>2, <1>4, <1>5, <1>6 DEF IInv

-----------------------------------------------------------------------------
(* Credit *)

\* MAX_STREAMS and MAX_DATA: the committed limits never shrink
LEMMA I_SendCredit ==
    ASSUME IInv, NEW l \in Lefts, NEW r \in BOOLEAN, SendCredit(l, r)
    PROVE  IInv'
<1> DEFINE room == (l - StreamsFrames) % UsizeMod
           maxData == ShouldUpdateMaxData /\ room >= 1
<1>1. room \in Nat
  <2>1. l - StreamsFrames \in Int /\ UsizeMod \in Nat /\ UsizeMod > 0
    BY ConstantsAssumption DEF StreamsFrames
  <2> QED BY <2>1
<1>2. /\ cap' = IF maxData THEN room - 1 ELSE room
      /\ max_streams' = Committed
      /\ max_rx_data' = IF maxData THEN max_rx_data_next ELSE max_rx_data
      /\ peer_max_streams' = IF ShouldUpdateMaxStreams /\ r
                             THEN max_streams_next ELSE peer_max_streams
      /\ peer_max_data' = IF maxData /\ r THEN max_rx_data_next ELSE peer_max_data
      /\ pc' = "credit" /\ reaches' = r /\ pc = "idle"
      /\ UNCHANGED <<streamVars, readable, almost_full, opened, max_streams_next, rx_data,
                     max_rx_data_next, error, now, cur, buf, tmp, todo, peer_max_stream,
                     got>>
  BY DEF SendCredit
<1> HIDE DEF room, maxData
<1>3. cap' \in Nat
  BY <1>1, <1>2 DEF maxData
<1>4. /\ max_streams' \in Nat /\ max_streams <= max_streams'
      /\ max_streams' <= max_streams_next /\ peer_max_streams' <= max_streams'
      /\ peer_max_streams' \in Nat
  BY <1>2 DEF IInv, TypeOK, Limits, Committed
<1>5. /\ max_rx_data' \in Nat /\ max_rx_data <= max_rx_data'
      /\ max_rx_data' <= max_rx_data_next /\ peer_max_data' \in Nat
  BY <1>2 DEF IInv, TypeOK, Limits
<1>6. TypeOK'
  BY <1>2, <1>3, <1>4, <1>5 DEF IInv, TypeOK, streamVars
<1>7. Streams'
  BY <1>2, StreamsKept DEF streamVars
<1>8. Limits'
  <2>1. /\ opened \in Nat /\ max_streams \in Nat /\ rx_data \in Nat /\ max_rx_data \in Nat
        /\ opened <= max_streams /\ (error = "none" => rx_data <= max_rx_data)
    BY DEF IInv, TypeOK, Limits
  <2> QED BY <1>2, <1>4, <1>5, <2>1 DEF Limits
<1>9. Call'
  BY <1>2, CallIdle DEF IInv
<1>10. Marks'
  BY <1>2 DEF IInv, Marks, Live, Ready, streamVars
<1> QED BY <1>6, <1>7, <1>8, <1>9, <1>10 DEF IInv

\* MAX_STREAM_DATA: update_max_data commits a limit that is no lower
LEMMA I_Advertise ==
    ASSUME IInv, NEW id \in almost_full, Advertise(id)
    PROVE  IInv'
<1>1. /\ id \in Ids /\ pc = "credit" /\ pc' \in {"credit", "idle"}
      /\ cap' \in Nat /\ almost_full' \subseteq Ids
      /\ max_data' \in [Ids -> Nat] /\ peer_max_stream' \in [Ids -> Nat]
      /\ UNCHANGED <<st, data, off, len, max_data_next, fin_off, drain, info, good_recv,
                     readable, opened, max_streams, max_streams_next, flowVars, error,
                     now, cur, buf, tmp, todo, reaches, peer_max_data, peer_max_streams,
                     got>>
  BY DEF Advertise, IInv, TypeOK
<1>2. \A i \in Ids : max_data[i] <= max_data'[i] /\ max_data'[i] <= max_data_next[i]
  BY DEF Advertise, IInv, TypeOK, Streams, StreamOK
<1>3. TypeOK'
  BY <1>1 DEF IInv, TypeOK, flowVars
<1>4. Streams'
  <2> SUFFICES ASSUME NEW i \in Ids PROVE BufferOK(i)' /\ StreamOK(i)'
    BY DEF Streams
  <2>1. /\ BufferOK(i) /\ StreamOK(i) /\ max_data[i] \in Nat /\ max_data'[i] \in Nat
        /\ len[i] \in Nat /\ max_data[i] <= max_data'[i] /\ max_data'[i] <= max_data_next[i]
    BY <1>1, <1>2 DEF IInv, Streams, TypeOK
  <2>2. StreamOK(i)'
    BY <1>1, <2>1 DEF StreamOK
  <2>3. ASSUME NEW c \in data[i] PROVE ChunkOK(i, c)'
    <3>1. ChunkOK(i, c) /\ c.end \in Nat
      BY <2>1 DEF BufferOK, ChunkOK, Chunk
    <3>2. c.end <= max_data'[i]
      BY <2>1, <3>1 DEF ChunkOK
    <3> QED BY <1>1, <3>1, <3>2 DEF ChunkOK
  <2>4. BufferOK(i)'
    BY <1>1, <2>1, <2>3 DEF BufferOK
  <2> QED BY <2>2, <2>4
<1>5. Call' /\ Limits'
  BY <1>1, CallIdle DEF IInv, Limits, flowVars
<1>6. Marks'
  BY <1>1 DEF IInv, Marks, Live, Ready
<1> QED BY <1>3, <1>4, <1>5, <1>6 DEF IInv

\* Steps that touch neither the streams nor the limits
LEMMA I_Rest ==
    ASSUME IInv,
           CreditDone \/ Tick \/ (\E l \in Lefts : SendCreditPanic(l)) \/ UNCHANGED vars
    PROVE  IInv'
<1>1. /\ UNCHANGED <<streamVars, mapVars, flowVars, cur, buf, tmp, todo, limitVars, got>>
      /\ pc' = pc \/ (pc = "credit" /\ pc' = "idle")
      /\ error' \in {error, "panic"} /\ cap' \in Nat /\ reaches' \in BOOLEAN /\ now' \in Nat
  <2>0. now \in Nat /\ cap \in Nat /\ reaches \in BOOLEAN
    BY DEF IInv, TypeOK
  <2>1. CASE CreditDone
    BY <2>0, <2>1 DEF CreditDone
  <2>2. CASE Tick
    <3>1. now' = now + 1 /\ UNCHANGED <<streamVars, mapVars, flowVars, error, callVars, limitVars, got>>
      BY <2>2 DEF Tick
    <3>2. now' \in Nat
      BY <2>0, <3>1
    <3> QED BY <2>0, <3>1, <3>2 DEF callVars
  <2>3. CASE \E l \in Lefts : SendCreditPanic(l)
    <3>1. error' = "panic" /\ UNCHANGED <<streamVars, mapVars, flowVars, now, callVars, limitVars, got>>
      BY <2>3 DEF SendCreditPanic
    <3> QED BY <2>0, <3>1 DEF callVars
  <2>4. CASE UNCHANGED vars
    BY <2>0, <2>4 DEF vars, callVars
  <2> QED BY <2>1, <2>2, <2>3, <2>4
<1>2. TypeOK'
  BY <1>1 DEF IInv, TypeOK, streamVars, mapVars, flowVars, limitVars
<1>3. Streams'
  BY <1>1, StreamsKept DEF streamVars
<1>4. Call'
  BY <1>1 DEF IInv, Call, ChunkOK, streamVars
<1>5. Limits'
  BY <1>1 DEF IInv, Limits, mapVars, flowVars, limitVars
<1>6. Marks'
  BY <1>1 DEF IInv, Marks, Live, Ready, streamVars, mapVars
<1> QED BY <1>2, <1>3, <1>4, <1>5, <1>6 DEF IInv

-----------------------------------------------------------------------------
(* The theorems *)

\* Every step of the receiver keeps the invariant
LEMMA IInvStep == IInv /\ [Next]_vars => IInv'
<1> SUFFICES ASSUME IInv, [Next]_vars PROVE IInv'
  OBVIOUS
<1>1. CASE Arrive
  BY <1>1, FramesFit, I_RecvStream DEF Arrive
<1>2. CASE ArriveElse
  BY <1>2, FramesFit, I_RecvInfo, I_RecvReset, I_RecvStreamError
     DEF ArriveElse, InfoArrives, ResetArrives, ErrorArrives
<1>3. CASE PushStep
  BY <1>3, I_PushContained, I_PushCut, I_StoreChunk DEF PushStep
<1>4. CASE ReadStep
  BY <1>4, I_StreamRecv, I_PopChunk, I_PopDone DEF ReadStep
<1>5. CASE CreditStep
  BY <1>5, I_SendCredit, I_Advertise, I_Rest DEF CreditStep
<1>6. CASE \E id \in Ids : StreamShutdownRead(id)
  BY <1>6, I_StreamShutdownRead
<1>7. CASE Tick \/ (\E l \in Lefts : SendCreditPanic(l)) \/ UNCHANGED vars
  BY <1>7, I_Rest
<1> QED BY <1>1, <1>2, <1>3, <1>4, <1>5, <1>6, <1>7 DEF Next

\* The variables keep their types: in particular the space left in the output
\* buffer and in the packet never goes negative.
THEOREM TypeCorrect == Spec => []TypeOK
<1>1. IInv => TypeOK
  BY DEF IInv
<1> QED BY <1>1, IInvInit, IInvStep, PTL DEF Spec

\* The chunks of every receive buffer are disjoint, unread and within the final
\* size, whatever frames arrive, in whatever order the heap lists its chunks.
THEOREM ChunksDisjointCorrect == Spec => []ChunksDisjoint
<1>1. IInv => ChunksDisjoint
  BY DEF IInv, Streams, BufferOK, ChunkOK, Apart, ChunksDisjoint
<1> QED BY <1>1, IInvInit, IInvStep, PTL DEF Spec

\* The unsigned subtractions behind should_update_max_data, almost_full and
\* should_update_max_streams_uni never underflow.
THEOREM NoUnderflowCorrect == Spec => []NoUnderflow
<1>1. IInv => NoUnderflow
  BY DEF IInv, Streams, StreamOK, Limits, NoUnderflow
<1> QED BY <1>1, IInvInit, IInvStep, PTL DEF Spec

\* The other half of ReadableExact at every step of a call
MarksSound ==
    \A id \in readable :
        /\ st[id] # "none"
        /\ Live(id) /\ ~drain[id] /\ ~(pc = "pop" /\ id = cur) => Ready(id)

\* Steps that change neither the buffers nor the marks, nor end a pop
LEMMA SoundKept ==
    ASSUME MarksSound,
           UNCHANGED <<data, off, drain, readable>>,
           \A id \in Ids : st[id] # "none" => st'[id] = st[id],
           readable \subseteq Ids,
           pc = "pop" => pc' = "pop" /\ cur' = cur
    PROVE  MarksSound'
BY DEF MarksSound, Live, Ready

\* A stream is marked only when it has something to read
LEMMA SoundMarked ==
    ASSUME MarksSound, NEW id \in Ids,
           UNCHANGED <<data, off, drain>>,
           readable' = Marked(id, data[id]), st'[id] # "none",
           \A i \in Ids : st[i] # "none" => st'[i] = st[i],
           readable \subseteq Ids, pc # "pop"
    PROVE  MarksSound'
<1>1. \A i \in readable' : i \in readable \/ (i = id /\ Ready(id))
  BY DEF Marked, Ready
<1> QED BY <1>1 DEF MarksSound, Live, Ready

\* A drained buffer is exempt
LEMMA SoundCleared ==
    ASSUME MarksSound, TypeOK, NEW id \in Ids,
           drain' = [drain EXCEPT ![id] = TRUE], data' = [data EXCEPT ![id] = {}],
           off' = off, readable' \subseteq readable,
           \A i \in Ids : st[i] # "none" => st'[i] = st[i],
           pc # "pop"
    PROVE  MarksSound'
<1>1. readable \subseteq Ids
  BY DEF TypeOK
<1>2. drain'[id] /\ \A i \in Ids : i # id => drain'[i] = drain[i] /\ data'[i] = data[i]
  BY DEF TypeOK
<1> QED BY <1>1, <1>2 DEF MarksSound, Live, Ready

LEMMA SoundStore == IInv /\ MarksSound /\ StoreChunk => MarksSound'
<1> SUFFICES ASSUME IInv, MarksSound, StoreChunk PROVE MarksSound'
  OBVIOUS
<1> DEFINE chunks == data[cur] \cup {buf}
<1>1. /\ pc = "push" /\ cur \in Ids /\ st[cur] # "none" /\ pc' # "pop"
      /\ readable \subseteq Ids /\ off[cur] \in Nat /\ buf.off \in Nat /\ off[cur] <= buf.off
  BY DEF StoreChunk, IInv, Call, TypeOK, ChunkOK, Chunk
<1>2. /\ data'[cur] = chunks /\ \A i \in Ids : i # cur => data'[i] = data[i]
      /\ UNCHANGED <<st, off, drain>>
      /\ readable' = readable \/ readable' = Marked(cur, chunks)
  BY <1>1 DEF StoreChunk, IInv, TypeOK
<1>3. ReadyAt(data[cur], off[cur]) => ReadyAt(chunks, off[cur])
  BY <1>1 DEF ReadyAt
<1>4. \A i \in readable' : i \in readable \/ (i = cur /\ ReadyAt(chunks, off[cur]))
  BY <1>2 DEF Marked
<1> QED BY <1>1, <1>2, <1>3, <1>4 DEF MarksSound, Live, Ready

LEMMA SoundStep == IInv /\ MarksSound /\ [Next]_vars => MarksSound'
<1> SUFFICES ASSUME IInv, MarksSound, [Next]_vars PROVE MarksSound'
  OBVIOUS
<1>0. TypeOK /\ readable \subseteq Ids /\ st \in [Ids -> {"none", "live", "collected"}]
  BY DEF IInv, TypeOK
<1>1. ASSUME NEW id \in Ids
      PROVE  Open(id) => \A i \in Ids : st[i] # "none" => st'[i] = st[i]
  BY <1>0 DEF Open
<1>2. ASSUME NEW id \in Ids, NEW f, Fits(f), RecvStream(id, f)
      PROVE  MarksSound'
  <2>1. /\ pc = "idle" /\ Open(id) /\ UNCHANGED <<data, off, drain>> /\ pc' # "pop"
        /\ readable' = readable \/ readable' = Marked(id, data[id])
    BY <1>2 DEF RecvStream
  <2>2. st'[id] # "none"
    <3>1. ~LimitHit(id) /\ opened \in Nat /\ max_streams \in Nat
      BY <1>2 DEF RecvStream, FrameError, IInv, TypeOK
    <3> QED BY <1>0, <2>1, <3>1 DEF Open, LimitHit
  <2>3. CASE readable' = readable
    BY <1>0, <1>1, <2>1, <2>3, SoundKept
  <2>4. CASE readable' = Marked(id, data[id])
    BY <1>0, <1>1, <2>1, <2>2, <2>4, SoundMarked
  <2> QED BY <2>1, <2>3, <2>4
<1>3. ASSUME NEW id \in Ids, RecvInfo(id) \/ (\E f \in Frames : RecvStreamError(id, f))
      PROVE  MarksSound'
  <2>1. /\ pc = "idle" /\ (Open(id) \/ UNCHANGED st)
        /\ UNCHANGED <<data, off, drain, readable>> /\ pc' = pc
    BY <1>3 DEF RecvInfo, RecvStreamError, callVars
  <2> QED BY <1>0, <1>1, <2>1, SoundKept
<1>4. ASSUME NEW id \in Ids, RecvReset(id)
      PROVE  MarksSound'
  <2>1. pc = "idle" /\ Open(id) /\ UNCHANGED <<off, readable>> /\ pc' = pc
    BY <1>4 DEF RecvReset, callVars
  <2>2. CASE LimitHit(id)
    <3>1. UNCHANGED <<data, drain>>
      BY <1>4, <2>2 DEF RecvReset
    <3> QED BY <1>0, <1>1, <2>1, <3>1, SoundKept
  <2>3. CASE ~LimitHit(id)
    <3>1. drain' = [drain EXCEPT ![id] = TRUE] /\ data' = [data EXCEPT ![id] = {}]
      BY <1>4, <2>3 DEF RecvReset
    <3> QED BY <1>0, <1>1, <2>1, <3>1, SoundCleared
  <2> QED BY <2>2, <2>3
<1>5. ASSUME NEW b \in todo, PushContained(b)
      PROVE  MarksSound'
  <2>1. /\ pc = "push" /\ UNCHANGED <<data, off, drain, st>>
        /\ readable' = Marked(cur, data[cur])
    BY <1>5 DEF PushContained, streamVars
  <2>2. cur \in Ids /\ st[cur] # "none"
    BY <2>1 DEF IInv, Call
  <2> QED BY <1>0, <2>1, <2>2, SoundMarked
<1>6. ASSUME NEW b \in todo, PushCut(b)
      PROVE  MarksSound'
  BY <1>0, <1>6, SoundKept DEF PushCut, streamVars, mapVars
<1>7. ASSUME NEW id \in Ids, NEW n \in Caps, StreamRecv(id, n)
      PROVE  MarksSound'
  BY <1>0, <1>7, SoundKept DEF StreamRecv, streamVars, mapVars
<1>8. CASE PopChunk
  <2>1. /\ pc = "pop" /\ cur \in Ids /\ pc' = pc /\ cur' = cur
        /\ UNCHANGED <<st, drain, readable>>
        /\ \A i \in Ids : i # cur => data'[i] = data[i] /\ off'[i] = off[i]
    BY <1>8 DEF PopChunk, IInv, Call, TypeOK, mapVars
  <2> QED BY <1>0, <2>1 DEF MarksSound, Live, Ready
<1>9. CASE PopDone
  <2>1. /\ pc = "pop" /\ cur \in Ids /\ pc' = "idle" /\ UNCHANGED <<data, off, drain>>
        /\ readable' = IF Ready(cur) THEN readable ELSE readable \ {cur}
    BY <1>9 DEF PopDone, IInv, Call
  <2>2. \A i \in Ids : st'[i] = st[i] \/ st'[i] = "collected"
    BY <1>0, <1>9, <2>1 DEF PopDone, Collect
  <2> QED BY <1>0, <2>1, <2>2 DEF MarksSound, Live, Ready
<1>10. ASSUME NEW id \in Ids, StreamShutdownRead(id)
       PROVE  MarksSound'
  BY <1>0, <1>10, SoundCleared DEF StreamShutdownRead
<1>11. ASSUME NEW l \in Lefts, NEW r \in BOOLEAN, SendCredit(l, r)
       PROVE  MarksSound'
  BY <1>0, <1>11, SoundKept DEF SendCredit, streamVars
<1>12. ASSUME NEW id \in almost_full, Advertise(id)
       PROVE  MarksSound'
  BY <1>0, <1>12, SoundKept DEF Advertise
<1>13. CASE CreditDone
  BY <1>0, <1>13, SoundKept DEF CreditDone, streamVars, mapVars
<1>14. CASE Tick \/ (\E l \in Lefts : SendCreditPanic(l)) \/ UNCHANGED vars
  BY <1>0, <1>14, SoundKept DEF Tick, SendCreditPanic, vars, streamVars, mapVars, callVars
<1>15. CASE Arrive
  BY <1>2, <1>15, FramesFit DEF Arrive
<1>16. CASE ArriveElse
  BY <1>3, <1>4, <1>16 DEF ArriveElse, InfoArrives, ResetArrives, ErrorArrives
<1>17. CASE PushStep
  BY <1>5, <1>6, <1>17, SoundStore DEF PushStep
<1>18. CASE ReadStep
  BY <1>7, <1>8, <1>9, <1>18 DEF ReadStep
<1>19. CASE CreditStep
  BY <1>11, <1>12, <1>13, <1>19 DEF CreditStep
<1> QED BY <1>10, <1>14, <1>15, <1>16, <1>17, <1>18, <1>19 DEF Next

\* readable() announces data or a fin marker at the read offset, and nothing
\* else but streams that were canceled or collected.
THEOREM ReadableCorrect == Spec => []ReadableExact
<1>1. Init => MarksSound
  BY DEF Init, MarksSound
<1>2. IInv /\ MarksSound => ReadableExact
  BY DEF IInv, Marks, MarksSound, TypeOK, ReadableExact
<1> QED BY <1>1, <1>2, IInvInit, IInvStep, SoundStep, PTL DEF Spec

\* No step accuses an honest peer
LEMMA HonestStep == IInv /\ HonestPeerKept /\ [Next]_vars => HonestPeerKept'
<1> SUFFICES ASSUME IInv, HonestPeerKept, [Next]_vars PROVE HonestPeerKept'
  OBVIOUS
<1> USE DEF HonestPeerKept
<1>1. CASE Arrive
  BY <1>1 DEF Arrive, RecvStream
<1>2. ASSUME NEW id \in Ids, InfoArrives(id) PROVE HonestPeerKept'
  BY <1>2, NoLimitHit DEF InfoArrives, RecvInfo
<1>3. ASSUME NEW id \in Ids, ResetArrives(id) PROVE HonestPeerKept'
  <2>1. ~LimitHit(id) /\ RecvReset(id)
    BY <1>3, NoLimitHit DEF ResetArrives
  <2>2. /\ fin_off[id] \in {NoFin, BlockLen} /\ len[id] <= BlockLen
        /\ len[id] \in Nat /\ BlockLen \in Nat
    BY ConstantsAssumption DEF IInv, TypeOK, Streams, StreamOK
  <2> QED BY <2>1, <2>2 DEF RecvReset
<1>4. ASSUME NEW id \in Ids, NEW f \in Frames, MaySendFrame(id, f), RecvStreamError(id, f)
      PROVE  HonestPeerKept'
  BY <1>4, FramesFit, FrameErrorKind DEF RecvStreamError
<1>5. CASE PushStep \/ ReadStep \/ CreditStep
  BY <1>5 DEF PushStep, PushContained, PushCut, StoreChunk, ReadStep, StreamRecv, PopChunk,
     PopDone, CreditStep, SendCredit, Advertise, CreditDone
<1>6. CASE (\E l \in Lefts : SendCreditPanic(l)) \/ (\E id \in Ids : StreamShutdownRead(id))
  BY <1>6 DEF SendCreditPanic, StreamShutdownRead
<1>7. CASE Tick \/ UNCHANGED vars
  BY <1>7 DEF Tick, vars
<1> QED BY <1>1, <1>2, <1>3, <1>4, <1>5, <1>6, <1>7 DEF Next, ArriveElse, ErrorArrives

\* A peer within its limits and true to one final size is never refused with
\* StreamLimit or FinalSize, whatever credit frames get lost.
THEOREM HonestPeerCorrect == Spec => []HonestPeerKept
<1>1. Init => HonestPeerKept
  BY DEF Init, HonestPeerKept
<1> QED BY <1>1, IInvInit, IInvStep, HonestStep, PTL DEF Spec

-----------------------------------------------------------------------------
(* What has reached the receiver and what the application reads of it *)

\* The application read, and finds in the buffer, only what has arrived; a
\* canceled stream has no buffer, a collected one was read to its end.
Delivered ==
    /\ \A id \in Ids :
         /\ \A n \in Nat : n < off[id] => n \in got[id]
         /\ \A c \in data[id] : Bytes(c) \subseteq got[id]
         /\ drain[id] => data[id] = {}
         /\ st[id] = "collected" => ~drain[id] /\ fin_off[id] = off[id]
    /\ pc = "push" => /\ Live(cur) /\ ~drain[cur] /\ Bytes(buf) \subseteq got[cur]
                      /\ tmp # NoChunk => Bytes(tmp) \subseteq got[cur]
    /\ pc = "pop" => Live(cur) /\ ~drain[cur]

\* A step between the loops that opens at most a stream
LEMMA DeliveredKept ==
    ASSUME Delivered, UNCHANGED <<data, off, fin_off, drain, got>>,
           \A i \in Ids : st'[i] = "collected" => st[i] = "collected",
           pc' \notin {"push", "pop"}
    PROVE  Delivered'
BY DEF Delivered

\* An accepted STREAM frame
LEMMA V_RecvStream ==
    ASSUME IInv, Delivered, NEW id \in Ids, NEW f, Fits(f), RecvStream(id, f)
    PROVE  Delivered'
<1>1. /\ st[id] # "collected" /\ pc = "idle" /\ Open(id)
      /\ UNCHANGED <<data, off, drain>>
      /\ fin_off' = [fin_off EXCEPT ![id] = IF f.fin THEN f.end ELSE @]
      /\ got' = [got EXCEPT ![id] = @ \cup Bytes(f)]
  BY DEF RecvStream
<1>2. /\ st \in [Ids -> {"none", "live", "collected"}] /\ fin_off \in [Ids -> Nat \cup {NoFin}]
      /\ got \in [Ids -> SUBSET Nat] /\ off \in [Ids -> Nat] /\ opened \in Nat /\ max_streams \in Nat
  BY DEF IInv, TypeOK
<1>3. /\ f \in Chunk /\ f.off \in Nat /\ f.end \in Nat
  BY FrameFacts
<1>4. st'[id] = "live" /\ \A i \in Ids : i # id => st'[i] = st[i] \/ st'[i] = "live"
  <2>1. ~LimitHit(id)
    BY DEF RecvStream, FrameError
  <2> QED BY <1>1, <1>2, <2>1 DEF Open, LimitHit
<1>5. /\ \A i \in Ids : got[i] \subseteq got'[i]
      /\ Bytes(f) \subseteq got'[id]
      /\ \A i \in Ids : i # id => fin_off'[i] = fin_off[i]
  BY <1>1, <1>2
<1>6. CASE Stores(id, f)
  <2>1. pc' = "push" /\ cur' = id /\ buf' = Trim(id, f) /\ tmp' = NoChunk
    BY <1>6 DEF RecvStream
  <2>2. ~drain[id]
    BY <1>6 DEF Stores
  <2>3. Bytes(Trim(id, f)) \subseteq Bytes(f)
    <3>1. CASE off[id] > f.off
      <4>1. off[id] \in Nat
        BY <1>2
      <4>2. TailFrom(f, off[id]).off = off[id] /\ TailFrom(f, off[id]).end = f.end
        BY <1>3, <4>1, SplitFacts
      <4> QED BY <1>3, <3>1, <4>1, <4>2 DEF Trim, Bytes
    <3>2. CASE ~(off[id] > f.off)
      BY <3>2 DEF Trim
    <3> QED BY <3>1, <3>2
  <2> QED BY <1>1, <1>4, <1>5, <2>1, <2>2, <2>3 DEF Delivered, Live
<1>7. CASE ~Stores(id, f)
  <2>1. pc' = "idle"
    BY <1>1, <1>7 DEF RecvStream
  <2> QED BY <1>1, <1>4, <1>5, <2>1 DEF Delivered
<1> QED BY <1>6, <1>7

\* The frames that store nothing
LEMMA V_Others ==
    ASSUME IInv, Delivered, NEW id \in Ids,
           (\E f : RecvStreamError(id, f)) \/ RecvInfo(id) \/ RecvReset(id)
    PROVE  Delivered'
<1>1. /\ st \in [Ids -> {"none", "live", "collected"}] /\ fin_off \in [Ids -> Nat \cup {NoFin}]
      /\ data \in [Ids -> SUBSET Chunk] /\ drain \in [Ids -> BOOLEAN]
  BY DEF IInv, TypeOK
<1>2. Open(id) \/ UNCHANGED st => \A i \in Ids : st'[i] = "collected" => st[i] = "collected"
  BY <1>1 DEF Open
<1>3. CASE (\E f : RecvStreamError(id, f)) \/ RecvInfo(id)
  <2>1. /\ Open(id) \/ UNCHANGED st
        /\ UNCHANGED <<data, off, fin_off, drain, got>> /\ pc = "idle" /\ pc' = pc
    BY <1>3 DEF RecvStreamError, RecvInfo, callVars
  <2> QED BY <1>2, <2>1, DeliveredKept
<1>4. CASE RecvReset(id)
  <2>1. /\ Open(id) /\ st[id] # "collected" /\ UNCHANGED <<off, got>> /\ pc = "idle" /\ pc' = pc
    BY <1>4 DEF RecvReset, callVars
  <2>2. \A i \in Ids : st'[i] = "collected" => st[i] = "collected"
    BY <1>2, <2>1
  <2>3. CASE UNCHANGED <<drain, data, fin_off>>
    BY <2>1, <2>2, <2>3, DeliveredKept
  <2>4. CASE /\ drain' = [drain EXCEPT ![id] = TRUE] /\ data' = [data EXCEPT ![id] = {}]
             /\ fin_off' = [fin_off EXCEPT ![id] = BlockLen] \/ UNCHANGED fin_off
    <3>1. /\ data'[id] = {} /\ \A i \in Ids : i # id => /\ data'[i] = data[i]
                                                       /\ drain'[i] = drain[i]
                                                       /\ fin_off'[i] = fin_off[i]
      BY <1>1, <2>4
    <3> QED BY <2>1, <2>2, <3>1 DEF Delivered
  <2> QED BY <1>4, <2>3, <2>4 DEF RecvReset
<1> QED BY <1>3, <1>4

\* RecvBuf::push cuts and stores what has arrived
LEMMA V_Push ==
    ASSUME IInv, Delivered, PushStep
    PROVE  Delivered'
<1>1. /\ pc = "push" /\ cur \in Ids /\ todo \subseteq data[cur]
      /\ Live(cur) /\ ~drain[cur] /\ Bytes(buf) \subseteq got[cur]
      /\ tmp # NoChunk => Bytes(tmp) \subseteq got[cur]
  BY DEF PushStep, PushContained, PushCut, StoreChunk, IInv, Call, Delivered
<1>2. buf \in Chunk /\ tmp \in Chunk /\ data \in [Ids -> SUBSET Chunk] /\ off \in [Ids -> Nat]
  BY DEF IInv, TypeOK
<1>3. ASSUME NEW b \in todo, PushContained(b) PROVE Delivered'
  <2>1. UNCHANGED <<st, data, off, fin_off, drain, got>> /\ pc' = "idle"
    BY <1>3 DEF PushContained, streamVars
  <2> QED BY <2>1, DeliveredKept
<1>4. ASSUME NEW b \in todo, PushCut(b) PROVE Delivered'
  <2>1. /\ UNCHANGED <<st, data, off, fin_off, drain, got, pc, cur>>
        /\ buf' = CutBuf(b) /\ tmp' = CutTmp(b)
    BY <1>4 DEF PushCut, streamVars
  <2>2. b \in Chunk /\ b.off \in Nat /\ b.end \in Nat /\ buf.off \in Nat /\ buf.end \in Nat
    BY <1>1, <1>2 DEF Chunk
  <2>3. /\ TailFrom(buf, b.end).off = b.end /\ TailFrom(buf, b.end).end = buf.end
        /\ TailFrom(buf, b.off).off = b.off /\ TailFrom(buf, b.off).end = buf.end
        /\ HeadTo(buf, b.off).off = buf.off /\ HeadTo(buf, b.off).end = b.off
    <3>1. buf \in Chunk /\ b.off \in Nat /\ b.end \in Nat
      BY <1>2, <2>2
    <3>2. TailFrom(buf, b.end).off = b.end /\ TailFrom(buf, b.end).end = buf.end
      BY ONLY <3>1 DEF Chunk, TailFrom, HeadTo
    <3>3. /\ TailFrom(buf, b.off).off = b.off /\ TailFrom(buf, b.off).end = buf.end
          /\ HeadTo(buf, b.off).off = buf.off /\ HeadTo(buf, b.off).end = b.off
      BY ONLY <3>1 DEF Chunk, TailFrom, HeadTo
    <3> QED BY <3>2, <3>3
  <2>4. Bytes(CutBuf(b)) \subseteq Bytes(buf)
    BY <2>2, <2>3 DEF CutBuf, StartOverlaps, EndOverlaps, Bytes
  <2>5. CutTmp(b) # NoChunk => Bytes(CutTmp(b)) \subseteq got[cur]
    <3>1. CASE EndOverlaps(b)
      BY <1>1, <2>2, <2>3, <3>1 DEF CutTmp, EndOverlaps, Bytes
    <3>2. CASE ~EndOverlaps(b)
      BY <1>1, <3>2 DEF CutTmp
    <3> QED BY <3>1, <3>2
  <2> QED BY <1>1, <2>1, <2>4, <2>5 DEF Delivered, Live
<1>5. CASE StoreChunk
  <2>1. /\ UNCHANGED <<st, off, fin_off, drain, got>> /\ tmp' = NoChunk
        /\ data' = [data EXCEPT ![cur] = @ \cup {buf}]
        /\ \/ pc' = "idle"
           \/ pc' = pc /\ cur' = cur /\ buf' = Trim(cur, tmp) /\ tmp # NoChunk
    BY <1>5 DEF StoreChunk
  <2>2. data'[cur] = data[cur] \cup {buf} /\ \A i \in Ids : i # cur => data'[i] = data[i]
    BY <1>1, <1>2, <2>1
  <2>3. Bytes(Trim(cur, tmp)) \subseteq Bytes(tmp)
    <3>1. off[cur] \in Nat /\ tmp.off \in Nat /\ tmp.end \in Nat
      BY <1>1, <1>2 DEF Chunk
    <3>2. tmp \in Chunk /\ off[cur] \in Nat
      BY <1>2, <3>1
    <3>3. TailFrom(tmp, off[cur]).off = off[cur] /\ TailFrom(tmp, off[cur]).end = tmp.end
      BY ONLY <3>2 DEF Chunk, TailFrom
    <3> QED BY <3>1, <3>3 DEF Trim, Bytes
  <2> QED BY <1>1, <2>1, <2>2, <2>3 DEF Delivered, Live
<1> QED BY <1>3, <1>4, <1>5 DEF PushStep

\* stream_recv takes the bytes at the read offset, and collects a stream only
\* when it has read it to the end
LEMMA V_Read ==
    ASSUME IInv, Delivered, ReadStep
    PROVE  /\ Delivered'
           /\ UNCHANGED <<drain, got>>
           /\ \/ UNCHANGED <<off, st>>
              \/ /\ cur \in Ids /\ Live(cur) /\ ~drain[cur] /\ UNCHANGED st
                 /\ \E n \in Nat : n >= off[cur] /\ off' = [off EXCEPT ![cur] = n]
              \/ /\ cur \in Ids /\ Live(cur) /\ ~drain[cur] /\ UNCHANGED off
                 /\ fin_off[cur] = off[cur] /\ st' = [st EXCEPT ![cur] = "collected"]
<1>1. /\ st \in [Ids -> {"none", "live", "collected"}] /\ data \in [Ids -> SUBSET Chunk]
      /\ off \in [Ids -> Nat] /\ cap \in Nat /\ drain \in [Ids -> BOOLEAN]
  BY DEF IInv, TypeOK
<1>2. ASSUME NEW id \in Ids, NEW n \in Caps, StreamRecv(id, n)
      PROVE  Delivered' /\ UNCHANGED <<drain, got, off, st>>
  <2>1. /\ UNCHANGED <<st, data, off, fin_off, drain, got>> /\ Live(id) /\ Ready(id)
        /\ pc' = "pop" /\ cur' = id
    BY <1>2 DEF StreamRecv, streamVars
  <2>2. ~drain[id]
    BY <2>1 DEF Delivered, Ready, ReadyAt
  <2> QED BY <2>1, <2>2 DEF Delivered, Live
<1>3. CASE PopChunk
  <2> DEFINE c == Lowest(data[cur])
             n == IF TooLong THEN cap ELSE c.end - c.off
             rest == IF TooLong THEN {TailFrom(c, c.off + cap)} ELSE {}
  <2>1. /\ pc = "pop" /\ cap > 0 /\ Ready(cur) /\ cur \in Ids /\ Live(cur) /\ ~drain[cur]
        /\ UNCHANGED <<st, fin_off, drain, pc, cur, got>>
        /\ data' = [data EXCEPT ![cur] = (@ \ {c}) \cup rest]
        /\ off' = [off EXCEPT ![cur] = @ + n]
    BY <1>3 DEF PopChunk, IInv, Call, Delivered
  <2>2. c \in data[cur] /\ c.off = off[cur] /\ data[cur] \in SUBSET Chunk /\ off[cur] \in Nat
    BY <1>1, <2>1, LowestReady DEF Ready
  <2>3. c \in Chunk /\ c.off \in Nat /\ c.end \in Nat /\ c.off <= c.end
    BY <2>1, <2>2 DEF Chunk, IInv, Streams, BufferOK, ChunkOK
  <2>4. TooLong <=> c.end - c.off > cap
    BY DEF TooLong
  <2>5. n \in Nat /\ off[cur] + n <= c.end
    BY <1>1, <2>2, <2>3, <2>4
  <2>6. \A d \in rest : Bytes(d) \subseteq Bytes(c)
    <3> SUFFICES ASSUME TooLong PROVE Bytes(TailFrom(c, c.off + cap)) \subseteq Bytes(c)
      OBVIOUS
    <3>1. c.off + cap \in Nat
      BY <1>1, <2>3
    <3>2. TailFrom(c, c.off + cap).off = c.off + cap /\ TailFrom(c, c.off + cap).end = c.end
      BY <2>3, <3>1, SplitFacts
    <3> QED BY <1>1, <2>3, <3>1, <3>2 DEF Bytes
  <2>7. Bytes(c) \subseteq got[cur] /\ \A m \in Nat : m < off[cur] => m \in got[cur]
    BY <2>1, <2>2 DEF Delivered
  <2>8. \A m \in Nat : m < off[cur] + n => m \in got[cur]
    <3> SUFFICES ASSUME NEW m \in Nat, m < off[cur] + n, ~(m < off[cur]) PROVE m \in Bytes(c)
      BY <2>7
    <3> QED BY <2>2, <2>3, <2>5 DEF Bytes
  <2> HIDE DEF c, n, rest
  <2>9. /\ data'[cur] = (data[cur] \ {c}) \cup rest /\ off'[cur] = off[cur] + n
        /\ \A i \in Ids : i # cur => data'[i] = data[i] /\ off'[i] = off[i]
    BY <1>1, <2>1
  <2>10. Delivered'
    <3>1. ASSUME NEW i \in Ids
          PROVE  /\ \A m \in Nat : m < off'[i] => m \in got[i]
                 /\ \A d \in data'[i] : Bytes(d) \subseteq got[i]
                 /\ drain[i] => data'[i] = {}
                 /\ st[i] = "collected" => ~drain[i] /\ fin_off[i] = off'[i]
      <4>1. CASE i = cur
        BY <2>1, <2>6, <2>7, <2>8, <2>9, <4>1 DEF Delivered, Live
      <4>2. CASE i # cur
        BY <2>9, <4>2 DEF Delivered
      <4> QED BY <4>1, <4>2
    <3> QED BY <2>1, <3>1 DEF Delivered, Live
  <2>11. off[cur] + n \in Nat /\ off[cur] + n >= off[cur] /\ off' = [off EXCEPT ![cur] = off[cur] + n]
    BY <2>1, <2>2, <2>5
  <2> QED BY <2>1, <2>10, <2>11
<1>4. CASE PopDone
  <2>1. /\ pc = "pop" /\ cur \in Ids /\ Live(cur) /\ ~drain[cur] /\ pc' = "idle"
        /\ UNCHANGED <<data, off, fin_off, drain, got>>
        /\ IF fin_off[cur] = off[cur] THEN st' = [st EXCEPT ![cur] = "collected"]
                                      ELSE UNCHANGED st
    BY <1>4 DEF PopDone, Collect, IInv, Call, Delivered
  <2>2. \A i \in Ids : st'[i] = "collected" =>
           st[i] = "collected" \/ (i = cur /\ fin_off[cur] = off[cur])
    BY <1>1, <2>1
  <2>3. Delivered'
    BY <2>1, <2>2 DEF Delivered
  <2> QED BY <2>1, <2>3
<1> QED BY <1>2, <1>3, <1>4 DEF ReadStep

\* Credit
LEMMA V_Credit ==
    ASSUME IInv, Delivered, CreditStep
    PROVE  Delivered' /\ UNCHANGED <<st, off, fin_off, drain, got>>
<1>1. UNCHANGED <<st, data, off, fin_off, drain, got>> /\ pc' \notin {"push", "pop"}
  <2>1. ASSUME NEW l \in Lefts, NEW r \in BOOLEAN, SendCredit(l, r)
        PROVE  UNCHANGED <<st, data, off, fin_off, drain, got>> /\ pc' \notin {"push", "pop"}
    BY <2>1 DEF SendCredit, streamVars
  <2>2. ASSUME NEW id \in almost_full, Advertise(id)
        PROVE  UNCHANGED <<st, data, off, fin_off, drain, got>> /\ pc' \notin {"push", "pop"}
    BY <2>2 DEF Advertise
  <2>3. CASE CreditDone
    BY <2>3 DEF CreditDone, streamVars
  <2> QED BY <2>1, <2>2, <2>3 DEF CreditStep
<1> QED BY <1>1, DeliveredKept

-----------------------------------------------------------------------------
(* What the handlers change of what the peer and the application see *)

SameCollected == \A i \in Ids : st'[i] = "collected" <=> st[i] = "collected"

LEMMA OpenKeepsCollected ==
    ASSUME IInv, NEW id \in Ids, Open(id) \/ UNCHANGED st
    PROVE  SameCollected
<1>1. st \in [Ids -> {"none", "live", "collected"}]
  BY DEF IInv, TypeOK
<1> QED BY <1>1 DEF Open, SameCollected

LEMMA E_RecvStream ==
    ASSUME IInv, NEW id \in Ids, NEW f, RecvStream(id, f)
    PROVE  /\ SameCollected /\ st[id] # "collected" /\ UNCHANGED <<off, drain, error, now>>
           /\ got' = [got EXCEPT ![id] = @ \cup Bytes(f)]
           /\ \A i \in Ids : fin_off'[i] = fin_off[i] \/ (i = id /\ f.fin)
<1>1. fin_off \in [Ids -> Nat \cup {NoFin}]
  BY DEF IInv, TypeOK
<1>2. Open(id)
  BY DEF RecvStream
<1>3. SameCollected
  BY <1>2, OpenKeepsCollected
<1>4. \A i \in Ids : fin_off'[i] = fin_off[i] \/ (i = id /\ f.fin)
  <2>1. fin_off' = [fin_off EXCEPT ![id] = IF f.fin THEN f.end ELSE fin_off[id]]
    BY DEF RecvStream
  <2> QED BY <1>1, <2>1
<1> QED BY <1>3, <1>4 DEF RecvStream

LEMMA E_RecvStreamError ==
    ASSUME IInv, NEW id \in Ids, NEW f, RecvStreamError(id, f)
    PROVE  /\ SameCollected /\ UNCHANGED <<off, drain, fin_off, got, now>>
           /\ error' # "none"
<1>1. Open(id) \/ UNCHANGED st
  BY DEF RecvStreamError
<1> QED BY <1>1, OpenKeepsCollected DEF RecvStreamError

LEMMA E_RecvInfo ==
    ASSUME IInv, NEW id \in Ids, RecvInfo(id)
    PROVE  /\ SameCollected /\ UNCHANGED <<off, drain, fin_off, got, now>>
           /\ error = "none"
<1>1. Open(id)
  BY DEF RecvInfo
<1> QED BY <1>1, OpenKeepsCollected DEF RecvInfo

LEMMA E_RecvReset ==
    ASSUME IInv, NEW id \in Ids, RecvReset(id)
    PROVE  /\ SameCollected /\ st[id] # "collected" /\ UNCHANGED <<off, got, now>>
           /\ error = "none"
           /\ \/ UNCHANGED <<drain, fin_off>>
              \/ /\ drain' = [drain EXCEPT ![id] = TRUE]
                 /\ \A i \in Ids : i # id => fin_off'[i] = fin_off[i]
<1>1. Open(id)
  BY DEF RecvReset
<1>2. SameCollected
  BY <1>1, OpenKeepsCollected
<1>3. fin_off \in [Ids -> Nat \cup {NoFin}]
  BY DEF IInv, TypeOK
<1>4. \/ UNCHANGED <<drain, fin_off>>
      \/ /\ drain' = [drain EXCEPT ![id] = TRUE]
         /\ fin_off' = fin_off \/ fin_off' = [fin_off EXCEPT ![id] = BlockLen]
  BY DEF RecvReset
<1> QED BY <1>2, <1>3, <1>4 DEF RecvReset

LEMMA E_Push ==
    ASSUME PushStep
    PROVE  UNCHANGED <<st, off, fin_off, drain, got, error, now>>
<1>1. ASSUME NEW b, PushContained(b) \/ PushCut(b)
      PROVE  UNCHANGED <<st, off, fin_off, drain, got, error, now>>
  BY <1>1 DEF PushContained, PushCut, streamVars
<1>2. StoreChunk => UNCHANGED <<st, off, fin_off, drain, got, error, now>>
  BY DEF StoreChunk
<1> QED BY <1>1, <1>2 DEF PushStep

LEMMA E_ReadCredit ==
    ASSUME ReadStep \/ CreditStep
    PROVE  UNCHANGED <<fin_off, error, now>>
<1>1. ASSUME NEW id, NEW n, StreamRecv(id, n) PROVE UNCHANGED <<fin_off, error, now>>
  BY <1>1 DEF StreamRecv, streamVars
<1>2. PopChunk => UNCHANGED <<fin_off, error, now>>
  BY DEF PopChunk
<1>3. PopDone => UNCHANGED <<fin_off, error, now>>
  BY DEF PopDone
<1>4. ASSUME NEW l, NEW r, SendCredit(l, r) PROVE UNCHANGED <<fin_off, error, now>>
  BY <1>4 DEF SendCredit, streamVars
<1>5. ASSUME NEW id, Advertise(id) PROVE UNCHANGED <<fin_off, error, now>>
  BY <1>5 DEF Advertise
<1>6. CreditDone => UNCHANGED <<fin_off, error, now>>
  BY DEF CreditDone, streamVars
<1> QED BY <1>1, <1>2, <1>3, <1>4, <1>5, <1>6 DEF ReadStep, CreditStep

-----------------------------------------------------------------------------
(* MAX_DATA *)

\* The peer knows no more of the connection's window than the next MAX_DATA
\* would tell
Told == peer_max_data <= max_rx_data_next

\* No step takes back what the peer was told
Raised == Told' /\ peer_max_data <= peer_max_data'

LEMMA ToldInit == Init => Told
BY ConstantsAssumption DEF Init, Told

LEMMA L_Same ==
    ASSUME IInv, Told, UNCHANGED <<peer_max_data, max_rx_data_next>>
    PROVE  Raised
BY DEF Raised, Told, IInv, TypeOK

LEMMA L_Handlers ==
    ASSUME IInv, Told, NEW id, NEW f,
           RecvStream(id, f) \/ RecvStreamError(id, f) \/ RecvInfo(id) \/ RecvReset(id)
    PROVE  Raised
<1>1. CASE RecvStream(id, f)
  BY <1>1, L_Same DEF RecvStream, limitVars
<1>2. CASE RecvStreamError(id, f)
  BY <1>2, L_Same DEF RecvStreamError, flowVars, limitVars
<1>3. CASE RecvInfo(id)
  BY <1>3, L_Same DEF RecvInfo, flowVars, limitVars
<1>4. CASE RecvReset(id)
  BY <1>4, L_Same DEF RecvReset, limitVars
<1> QED BY <1>1, <1>2, <1>3, <1>4

LEMMA L_Push ==
    ASSUME IInv, Told, PushStep
    PROVE  Raised
<1>1. ASSUME NEW b, PushContained(b) \/ PushCut(b) PROVE Raised
  BY <1>1, L_Same DEF PushContained, PushCut, flowVars, limitVars
<1>2. StoreChunk => Raised
  BY L_Same DEF StoreChunk, flowVars, limitVars
<1> QED BY <1>1, <1>2 DEF PushStep

LEMMA L_Read ==
    ASSUME IInv, Told, ReadStep
    PROVE  Raised
<1>1. CASE \E id \in Ids, n \in Caps : StreamRecv(id, n)
  BY <1>1, L_Same DEF StreamRecv, flowVars, limitVars
<1>2. CASE PopChunk
  <2>1. PICK c : c = Lowest(data[cur])
    OBVIOUS
  <2>2. PICK n : n = IF TooLong THEN cap ELSE c.end - c.off
    OBVIOUS
  <2>3. UNCHANGED limitVars /\ max_rx_data_next' = max_rx_data_next + n
    BY <1>2, <2>1, <2>2 DEF PopChunk
  <2>4. /\ cur \in Ids /\ Ready(cur) /\ cap \in Nat /\ BufferOK(cur) /\ data[cur] \subseteq Chunk
        /\ off[cur] \in Nat /\ max_rx_data_next \in Nat /\ peer_max_data \in Nat
    BY <1>2 DEF PopChunk, IInv, Call, TypeOK, Streams
  <2>5. c \in data[cur]
    BY <2>1, <2>4, LowestReady DEF Ready
  <2>6. n \in Nat
    BY <2>2, <2>4, <2>5 DEF BufferOK, ChunkOK, Chunk
  <2> QED BY <2>3, <2>4, <2>6 DEF Raised, Told, limitVars
<1>3. CASE PopDone
  BY <1>3, L_Same DEF PopDone, Collect, flowVars, limitVars
<1> QED BY <1>1, <1>2, <1>3 DEF ReadStep

LEMMA L_Credit ==
    ASSUME IInv, Told, CreditStep
    PROVE  Raised
<1>1. CASE \E l \in Lefts, r \in BOOLEAN : SendCredit(l, r)
  <2>1. /\ peer_max_data' \in {peer_max_data, max_rx_data_next}
        /\ UNCHANGED max_rx_data_next
    BY <1>1 DEF SendCredit
  <2> QED BY <2>1 DEF Raised, Told, IInv, TypeOK
<1>2. CASE \E id \in almost_full : Advertise(id)
  BY <1>2, L_Same DEF Advertise, flowVars
<1>3. CASE CreditDone
  BY <1>3, L_Same DEF CreditDone, flowVars, limitVars
<1> QED BY <1>1, <1>2, <1>3 DEF CreditStep
=============================================================================
