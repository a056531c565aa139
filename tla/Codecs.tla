------------------------------- MODULE Codecs -------------------------------
(***************************************************************************)
(* What is written is read back: frames, headers, transport parameters and *)
(* header blocks, one sample at a time.                                    *)
(***************************************************************************)
EXTENDS Packet, Qpack

CONSTANT Samples   \* [kind, x]

VARIABLE sample

-----------------------------------------------------------------------------
(* TransportParams (lib.rs): a function from the number of a parameter to  *)
(* its value.  0 and 2 are byte strings, 12 a flag, the others varints.    *)

Default ==
    [id \in 0..14 |-> CASE id \in {0, 2} -> <<>> [] id = 3 -> 65527 [] id = 10 -> 3 [] id = 11 -> 25 [] OTHER -> 0]
Numbers == {1, 3, 4, 5, 6, 7, 8, 9, 10, 11, 14}
ParamsLen == 128

Value(tp, id) == IF id \in {0, 2} THEN tp[id] ELSE IF id = 12 THEN <<>> ELSE PutVarint(tp[id])
Written(tp, id, is_server) ==
    \/ id \in {0, 2} /\ is_server /\ tp[id] # <<>>
    \/ id \in Numbers \cup {12} /\ tp[id] # 0

Encode(tp, is_server) ==
    LET Param(id) == IF Written(tp, id, is_server) THEN PutAll(<<U(2), <<"counted", 2>>>>, <<id, Value(tp, id)>>) ELSE <<>>
        body == FlattenSeq([i \in 1..15 |-> Param(i - 1)])
    IN [ok |-> Len(body) <= ParamsLen, bytes |-> Put(<<"counted", 2>>, body)]

\* The server is refused what only servers send
Refuses(id, v, is_server) ==
    \/ id \in {0, 2, 13} /\ is_server
    \/ id = 3 /\ v < 1200
    \/ id = 10 /\ v > 20
    \/ id = 11 /\ v >= 16384

\* q: the parameters so far; r: the reader behind the next one; v: its value
WithParam(q, r, v, is_server) ==
    LET id == r.vals[1] IN
    IF ~v.ok \/ Refuses(id, Last(v.vals), is_server) THEN [q EXCEPT !.ok = FALSE]
    ELSE [ok |-> TRUE, off |-> r.off,
          tp |-> IF id \in DOMAIN Default \ {13} THEN [q.tp EXCEPT ![id] = IF id = 12 THEN 1 ELSE Last(v.vals)] ELSE q.tp]

ReadParam(q, r, is_server) ==
    IF ~r.ok THEN [q EXCEPT !.ok = FALSE]
    ELSE LET id == r.vals[1] val == r.vals[2] IN
         WithParam(q, r, IF id \in Numbers THEN GetVarint(val, Reader(0))
                         ELSE GetBytes(val, Reader(0), IF id = 2 THEN 16 ELSE Len(val)), is_server)

ReadParams(body, is_server) ==
    LET Read(q) == IF ~q.ok \/ q.off = Len(body) THEN q
                   ELSE ReadParam(q, GetAll(body, <<U(2), <<"counted", 2>>>>, Reader(q.off)), is_server)
        Upto[n \in 0..15] == IF n = 0 THEN [ok |-> TRUE, off |-> 0, tp |-> Default] ELSE Read(Upto[n - 1])
    IN [ok |-> Upto[15].ok, tp |-> Upto[15].tp]

Decode(b, is_server) ==
    LET params == GetAll(b, <<<<"counted", 2>>>>, Reader(0)) IN
    IF params.ok THEN ReadParams(Last(params.vals), is_server) ELSE [ok |-> FALSE, tp |-> Default]

-----------------------------------------------------------------------------
(* Properties *)

Cut(b, k) == SubSeq(b, 1, k)

\* wire_len is the length of what to_bytes writes; from_bytes reads the same
\* frame from it, whatever follows; and of a frame cut short it reads none,
\* but for a shorter padding.
FrameAgrees(f) ==
    LET Same(b, p) == p.error = "" /\ p.frame = f /\ p.off = Len(b)
        Agrees(b) == /\ Len(b) = WireLen(f)
                     /\ Same(b, FromBytes(b \o <<1, 2>>, 0, "Short"))
                     /\ f.ty # "Padding" => \A k \in 0..(Len(b) - 1) : FromBytes(Cut(b, k), 0, "Short").error # ""
    IN Agrees(ToBytes(f))

\* A header is read back, up to where its number or length follows, and one
\* cut short is refused.
HeaderAgrees(hdr) ==
    LET b == HeaderBytes(hdr)
        whole == ParseHeader(IF hdr.ty = "Retry" THEN b \o Zeros(TagLen) ELSE b \o <<1, 2>>, 0, Len(hdr.dcid))
        Fields(h) == <<h.ty, h.dcid, h.scid, h.token, h.fec>>
        expected == <<hdr.ty, hdr.dcid, IF hdr.ty = "Short" THEN <<>> ELSE hdr.scid,
                      IF hdr.ty \in {"Initial", "Retry"} THEN hdr.token ELSE <<>>,
                      IF hdr.ty = "Short" THEN hdr.fec ELSE NoFec>>
    IN /\ whole.error = "" /\ Fields(whole.hdr) = expected
       /\ hdr.ty # "Retry" =>
            /\ whole.off = Len(b)
            /\ \A k \in 0..(Len(b) - 1) : ParseHeader(Cut(b, k), 0, Len(hdr.dcid)).error # ""

NegotiationAgrees(x) ==
    LET p == ParseHeader(NegotiateVersion(x.scid, x.dcid, x.first), 0, Len(x.dcid)) IN
    p.error = "" /\ p.hdr.dcid = x.scid /\ p.hdr.scid = x.dcid /\ p.hdr.versions = Versions

\* The peer learns the parameters that were set, where there is room for them
\* and none is zero that is not zero by default.
ParamsAgree(tp) ==
    \A is_server \in BOOLEAN :
        LET sent == Encode(tp, is_server)
            read == Decode(sent.bytes, ~is_server)
            Known(id) == IF id \in {0, 2} THEN (IF is_server THEN tp[id] ELSE <<>>)
                         ELSE IF tp[id] = 0 THEN Default[id] ELSE tp[id]
        IN sent.ok => /\ read.ok /\ read.tp = [id \in 0..14 |-> Known(id)]
                      /\ \A k \in 0..(Len(sent.bytes) - 1) : ~Decode(Cut(sent.bytes, k), ~is_server).ok

\* A number cut to pkt_num_len bytes is found again by a receiver that is not
\* further away than half of what they hold.
NumberAgrees(x) ==
    LET len == PktNumLen(x.pn) win == 2^(8 * len) IN
    (len = 4 \/ (x.largest + 1 - x.pn < win \div 2 /\ x.pn - x.largest - 1 <= win \div 2)) =>
        DecodePktNum(x.largest, FromBigEndian(BigEndian(x.pn, len)), len) = x.pn

\* A list of headers survives QPACK, if it is no larger than the decoder
\* allows, and is refused otherwise; a block cut short is refused, or ends
\* between two headers.
HeadersAgree(hs) ==
    LET size == FoldLeft(LAMBDA n, h : n + Len(h[1]) + Len(h[2]), 0, hs)
        Reads(max, whole, read) ==
            /\ whole /\ max = size => read.ok /\ read.out = hs
            /\ read.ok => max = size /\ IsPrefix(read.out, hs)
        Agrees(b) == \A k \in 0..Len(b), max \in Max({0, size - 1})..size :
                         max = size \/ k = Len(b) => Reads(max, k = Len(b), DecodeBlock(Cut(b, k), max))
    IN Agrees(EncodeBlock(hs))

\* Frames, headers, parameters, numbers and header blocks survive their encoding.
CodecsAgree ==
    CASE sample.kind = "frame" -> FrameAgrees(sample.x)
      [] sample.kind = "header" -> HeaderAgrees(sample.x)
      [] sample.kind = "negotiation" -> NegotiationAgrees(sample.x)
      [] sample.kind = "params" -> ParamsAgree(sample.x)
      [] sample.kind = "number" -> NumberAgrees(sample.x)
      [] sample.kind = "headers" -> HeadersAgree(sample.x)
      [] OTHER -> TRUE
=============================================================================
