------------------------------- MODULE Frames -------------------------------
(***************************************************************************)
(* Frame::to_bytes, wire_len and from_bytes (frame.rs): three accounts of  *)
(* one format, each with its own list of what a frame holds.  send() packs *)
(* by the second, writes by the first, and the peer reads by the third.    *)
(*                                                                         *)
(* A frame is [ty, a], `a' its fields in the order of the enum.  The       *)
(* ranges of an ACK are a RangeSet.                                        *)
(***************************************************************************)
EXTENDS Octets, RangeSet

V == <<"v">>
VBytes == <<"vbytes">>
U(n) == <<"u", n>>
Bytes(n) == <<"bytes", n>>

\* enum Frame
F(ty, a) == [ty |-> ty, a |-> a]
Zeros(n) == [i \in 1..n |-> 0]

-----------------------------------------------------------------------------
(* to_bytes *)

Descending(rs) == SetToSortSeq(rs, LAMBDA p, q : p[1] > q[1])

\* Fault: the gap is that between the ranges
AckGap_Plain(smallest, block) == smallest - block[2]
AckGap(smallest, block) == smallest - block[2] - 1
AckBytes(a) ==
    LET rs == Descending(a[3])
        Block(i) == PutVarint(AckGap(rs[i - 1][1], rs[i])) \o PutVarint(rs[i][2] - 1 - rs[i][1])
    IN PutVarint(2) \o PutVarint(rs[1][2] - 1) \o PutVarint(a[1]) \o PutVarint(a[2])
         \o PutVarint(Len(rs) - 1) \o PutVarint(rs[1][2] - 1 - rs[1][1])
         \o FlattenSeq([i \in 1..(Len(rs) - 1) |-> Block(i + 1)])

\* Frame type and fields of the frames that are just that
Layout ==
    [Ping |-> <<1>>, ResetStream |-> <<4, V, U(2), V>>, StopSending |-> <<5, V, V>>,
     Crypto |-> <<6, V, VBytes>>, NewToken |-> <<7, VBytes>>, MaxData |-> <<16, V>>,
     MaxStreamData |-> <<17, V, V>>, MaxStreamsBidi |-> <<18, V>>, MaxStreamsUni |-> <<19, V>>,
     DataBlocked |-> <<20, V>>, StreamDataBlocked |-> <<21, V, V>>, StreamsBlockedBidi |-> <<22, V>>,
     StreamsBlockedUni |-> <<23, V>>, NewConnectionId |-> <<24, V, V, <<"counted", 1>>, Bytes(16)>>,
     RetireConnectionId |-> <<25, V>>, PathChallenge |-> <<26, Bytes(8)>>, PathResponse |-> <<27, Bytes(8)>>,
     ConnectionClose |-> <<28, V, V, VBytes>>, ApplicationClose |-> <<29, V, VBytes>>,
     HandshakeDone |-> <<30>>, BlockInfo |-> <<32, V, V, V, V, V>>]

\* The fields of STREAM are the id, the offset, the data and the fin flag; the
\* offset and the length are always there.  A repair packet is nothing but its data.
ToBytes(f) ==
    CASE f.ty = "Padding" -> Zeros(f.a[1])
      [] f.ty = "ACK" -> AckBytes(f.a)
      [] f.ty = "Stream" -> PutVarint(IF f.a[4] THEN 15 ELSE 14) \o PutAll(<<V, V, VBytes>>, f.a)
      [] f.ty = "Fec" -> f.a[1]
      [] OTHER -> PutVarint(Layout[f.ty][1]) \o PutAll(Tail(Layout[f.ty]), f.a)

-----------------------------------------------------------------------------
(* wire_len *)

Varints(xs) == FoldLeft(LAMBDA n, x : n + VarintLen(x), 0, xs)
Counted(data) == VarintLen(Len(data)) + Len(data)

\* The frames from NEW_CONNECTION_ID on
WireLenRest(f) ==
    LET a == f.a IN
    CASE f.ty = "NewConnectionId" -> 1 + Varints(<<a[1], a[2]>>) + 1 + Len(a[3]) + Len(a[4])
      [] f.ty = "RetireConnectionId" -> 1 + VarintLen(a[1])
      [] f.ty \in {"PathChallenge", "PathResponse"} -> 1 + 8
      [] f.ty = "ConnectionClose" -> 1 + Varints(<<a[1], a[2]>>) + Counted(a[3])
      [] f.ty = "ApplicationClose" -> 1 + VarintLen(a[1]) + Counted(a[2])
      [] f.ty = "HandshakeDone" -> 1
      [] f.ty = "Fec" -> Len(a[1])

WireLen(f) ==
    LET a == f.a IN
    CASE f.ty = "Padding" -> a[1]
      [] f.ty = "Ping" -> 1
      [] f.ty = "ACK" ->
            LET rs == Descending(a[3]) IN
            1 + Varints(<<rs[1][2] - 1, a[1], a[2], Len(rs) - 1, rs[1][2] - 1 - rs[1][1]>>)
              + FoldLeft(+, 0, [i \in 1..(Len(rs) - 1) |->
                    Varints(<<rs[i][1] - rs[i + 1][2] - 1, rs[i + 1][2] - 1 - rs[i + 1][1]>>)])
      [] f.ty = "ResetStream" -> 1 + VarintLen(a[1]) + 2 + VarintLen(a[3])
      [] f.ty = "Crypto" -> 1 + VarintLen(a[1]) + Counted(a[2])
      [] f.ty = "NewToken" -> 1 + Counted(a[1])
      [] f.ty = "Stream" -> 1 + Varints(<<a[1], a[2]>>) + Counted(a[3])
      [] f.ty \in {"BlockInfo", "StopSending", "MaxData", "MaxStreamData", "MaxStreamsBidi", "MaxStreamsUni",
                   "DataBlocked", "StreamDataBlocked", "StreamsBlockedBidi", "StreamsBlockedUni"} -> 1 + Varints(a)
      [] OTHER -> WireLenRest(f)

AckEliciting(f) == f.ty \notin {"Padding", "ACK", "ApplicationClose", "ConnectionClose"}

-----------------------------------------------------------------------------
(* from_bytes *)

Short == [error |-> "BufferTooShort", frame |-> F("Padding", <<0>>), off |-> 0]
Refused(error) == [Short EXCEPT !.error = error]
Parsed(frame, off) == [error |-> "", frame |-> frame, off |-> off]

\* The frame type 0, and those that follow it
ParsePadding(b, off) ==
    LET end == CHOOSE i \in off..Len(b) : (i = Len(b) \/ b[i + 1] # 0) /\ \A j \in off..(i - 1) : b[j + 1] = 0
    IN Parsed(F("Padding", <<end - off + 1>>), end)

\* parse_ack_frame: the largest of a block, and its length less one
AckBlock(q, r) ==
    LET gap == r.vals[1] block == r.vals[2] largest == q.smallest - gap - 2
    IN IF ~r.ok THEN [q EXCEPT !.error = "BufferTooShort"]
       ELSE IF q.smallest < 2 + gap \/ largest < block THEN [q EXCEPT !.error = "InvalidFrame"]
       ELSE [q EXCEPT !.r = r, !.smallest = largest - block, !.ranges = Insert(@, <<largest - block, largest + 1>>)]

AckStep(b, q) == IF q.error # "" THEN q ELSE AckBlock(q, GetAll(b, <<V, V>>, [q.r EXCEPT !.vals = <<>>]))

AckParsed(delay, count, q) ==
    IF q.error # "" THEN Refused(q.error) ELSE Parsed(F("ACK", <<delay, count, q.ranges>>), q.r.off)

ParseAckBlocks(b, r) ==
    LET largest == r.vals[1] block == r.vals[5]
        first == [r |-> r, error |-> "", smallest |-> largest - block, ranges |-> {<<largest - block, largest + 1>>}]
    IN IF ~r.ok THEN Short
       ELSE IF largest < block THEN Refused("InvalidFrame")
       ELSE AckParsed(r.vals[2], r.vals[3],
                      FoldLeft(LAMBDA p, i : AckStep(b, p), first, [i \in 1..r.vals[4] |-> i]))

ParseAck(b, off) == ParseAckBlocks(b, GetAll(b, <<V, V, V, V, V>>, Reader(off)))

\* parse_stream_frame: without a length the data is the rest of the packet
StreamParsed(ty, offset, q) ==
    IF ~q.ok THEN Short
    ELSE Parsed(F("Stream", <<q.vals[1], IF offset THEN q.vals[2] ELSE 0, Last(q.vals), ty % 2 = 1>>), q.off)

ParseStream(ty, b, off) ==
    LET offset == (ty \div 4) % 2 = 1
        Data_(r) == IF ~r.ok THEN r
                    ELSE IF (ty \div 2) % 2 = 1 THEN Get(b, VBytes, r) ELSE GetBytes(b, r, Room(b, r.off))
    IN StreamParsed(ty, offset, Data_(GetAll(b, IF offset THEN <<V, V>> ELSE <<V>>, Reader(off))))

Wanted(ty) ==
    CASE ty = 1 -> <<"Ping", <<>>>> [] ty = 4 -> <<"ResetStream", <<V, U(2), V>>>>
      [] ty = 5 -> <<"StopSending", <<V, V>>>> [] ty = 6 -> <<"Crypto", <<V, VBytes>>>>
      [] ty = 7 -> <<"NewToken", <<VBytes>>>> [] ty = 16 -> <<"MaxData", <<V>>>>
      [] ty = 17 -> <<"MaxStreamData", <<V, V>>>> [] ty = 18 -> <<"MaxStreamsBidi", <<V>>>>
      [] ty = 19 -> <<"MaxStreamsUni", <<V>>>> [] ty = 20 -> <<"DataBlocked", <<V>>>>
      [] ty = 21 -> <<"StreamDataBlocked", <<V, V>>>> [] ty = 22 -> <<"StreamsBlockedBidi", <<V>>>>
      [] ty = 23 -> <<"StreamsBlockedUni", <<V>>>>
      [] ty = 24 -> <<"NewConnectionId", <<V, V, <<"counted", 1>>, Bytes(16)>>>>
      [] ty = 25 -> <<"RetireConnectionId", <<V>>>> [] ty = 26 -> <<"PathChallenge", <<Bytes(8)>>>>
      [] ty = 27 -> <<"PathResponse", <<Bytes(8)>>>> [] ty = 28 -> <<"ConnectionClose", <<V, V, VBytes>>>>
      [] ty = 29 -> <<"ApplicationClose", <<V, VBytes>>>> [] ty = 30 -> <<"HandshakeDone", <<>>>>
      [] ty = 32 -> <<"BlockInfo", <<V, V, V, V, V>>>> [] OTHER -> <<"none", <<>>>>

Allowed(pkt, ty) ==
    \/ ty \in {"Padding", "Ping"}
    \/ pkt = "ZeroRTT" /\ ty \notin {"ACK", "Crypto", "HandshakeDone", "NewToken", "PathResponse",
                                     "RetireConnectionId", "ConnectionClose"}
    \/ pkt # "ZeroRTT" /\ ty \in {"ACK", "Crypto", "ConnectionClose"}
    \/ pkt = "Short"

FieldsParsed(name, q) == IF ~q.ok THEN Short ELSE Parsed(F(name, q.vals), q.off)

\* r: the reader behind the type
ParseTyped(b, r) ==
    LET ty == r.vals[1] IN
    CASE ~r.ok -> Short
      [] r.ok /\ ty = 0 -> ParsePadding(b, r.off)
      [] r.ok /\ ty = 2 -> ParseAck(b, r.off)
      [] r.ok /\ ty \in 8..15 -> ParseStream(ty, b, r.off)
      [] OTHER -> IF Wanted(ty)[1] = "none" THEN Refused("InvalidFrame")
                  ELSE FieldsParsed(Wanted(ty)[1], GetAll(b, Wanted(ty)[2], [r EXCEPT !.vals = <<>>]))

AllowedIn(pkt, p) ==
    IF p.error = "" /\ ~Allowed(pkt, p.frame.ty) THEN Refused("InvalidPacket") ELSE p

FromBytes(b, off, pkt) == AllowedIn(pkt, ParseTyped(b, GetVarint(b, Reader(off))))
=============================================================================
