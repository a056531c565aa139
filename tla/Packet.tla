------------------------------- MODULE Packet -------------------------------
(***************************************************************************)
(* The packet around the frames (packet.rs): headers, packet numbers cut   *)
(* to a few bytes, the FEC fields every 1-RTT packet carries, protection.  *)
(*                                                                         *)
(* Protection is external: the plain text stays, and the tag, TagLen       *)
(* elements, opens for the epoch and the number it was made with only.     *)
(* Numbers are below 2^31, so that four bytes hold any.                    *)
(***************************************************************************)
EXTENDS Frames

CONSTANTS TagLen, SampleLen   \* tag of the AEAD, sample of the header protection

MaxPktNumLen == 4
MaxCidLen == 20

NoFec == [group_id |-> 0, index |-> 0, m |-> 0, n |-> 0]
Epochs == {0, 1, 2}
FromEpoch(epoch) == <<"Initial", "Handshake", "Short">>[epoch + 1]
ToEpoch(ty) == CASE ty = "Initial" -> 0 [] ty = "Handshake" -> 1 [] ty \in {"ZeroRTT", "Short"} -> 2

LongTypes == <<"Initial", "ZeroRTT", "Handshake", "Retry">>
Versions == {23, 24, 25}   \* the last byte of the versions supported

-----------------------------------------------------------------------------
FecBytes(fec) == PutAll(<<U(4), U(1), U(1), U(1)>>, <<fec.group_id, fec.index, fec.m, fec.n>>)

\* The padding keeps headers and numbers of one length together
ShortHeader(hdr) ==
    LET padding == 4 - hdr.pkt_num_len IN
    <<64 + hdr.pkt_num_len - 1>> \o hdr.dcid \o FecBytes(hdr.fec) \o <<padding>> \o Zeros(padding)

LongHeader(hdr) ==
    LET ty == CHOOSE i \in 1..4 : LongTypes[i] = hdr.ty IN
    <<128 + 64 + (ty - 1) * 16 + Max({0, hdr.pkt_num_len - 1})>>
        \o PutAll(<<U(4), <<"counted", 1>>, <<"counted", 1>>>>, <<hdr.version, hdr.dcid, hdr.scid>>)
        \o (CASE hdr.ty = "Initial" -> Put(VBytes, hdr.token) [] hdr.ty = "Retry" -> hdr.token [] OTHER -> <<>>)

HeaderBytes(hdr) == IF hdr.ty = "Short" THEN ShortHeader(hdr) ELSE LongHeader(hdr)

NoHeader == [ty |-> "none", version |-> 0, dcid |-> <<>>, scid |-> <<>>, token |-> <<>>, versions |-> {}, fec |-> NoFec]
Failed(error) == [error |-> error, hdr |-> NoHeader, off |-> 0]

ShortParsed(r) ==
    IF ~r.ok THEN Failed("BufferTooShort")
    ELSE [error |-> "", off |-> r.off,
          hdr |-> [NoHeader EXCEPT !.ty = "Short", !.dcid = r.vals[2],
                       !.fec = [group_id |-> r.vals[3], index |-> r.vals[4], m |-> r.vals[5], n |-> r.vals[6]]]]
ParseShort(b, off, dcid_len) ==
    ShortParsed(GetAll(b, <<U(1), Bytes(dcid_len), U(4), U(1), U(1), U(1), <<"counted", 1>>>>, Reader(off)))

\* v: the fields of every long header; q: the reader behind those of its type
LongParsed(ty, v, q) ==
    IF ~q.ok THEN Failed("BufferTooShort")
    ELSE [error |-> "", off |-> q.off,
          hdr |-> [NoHeader EXCEPT !.ty = ty, !.version = v[2], !.dcid = v[3], !.scid = v[4],
                       !.token = IF ty \in {"Initial", "Retry"} THEN Last(q.vals) ELSE <<>>,
                       !.versions = IF ty = "VersionNegotiation" THEN Range(SubSeq(q.vals, 5, Len(q.vals)))
                                    ELSE {}]]

\* The rest of a Retry but for its tag is the token, the rest of a Version
\* Negotiation the list of versions
ParseLongType(b, r) ==
    LET v == r.vals
        ty == IF v[2] = 0 THEN "VersionNegotiation" ELSE LongTypes[((v[1] \div 16) % 4) + 1]
        rest == Room(b, r.off)
    IN CASE ~r.ok -> Failed("BufferTooShort")
         [] r.ok /\ v[2] \in Versions /\ Max({Len(v[3]), Len(v[4])}) > MaxCidLen -> Failed("InvalidPacket")
         [] r.ok /\ ty = "Retry" /\ rest < TagLen -> Failed("InvalidPacket")
         [] OTHER ->
            LongParsed(ty, v,
                CASE ty = "Initial" -> Get(b, VBytes, r)
                  [] ty = "Retry" -> GetBytes(b, r, rest - TagLen)
                  [] ty = "VersionNegotiation" ->
                         FoldLeft(LAMBDA p, i : GetUint(b, p, 4), r, [i \in 1..((rest + 3) \div 4) |-> i])
                  [] OTHER -> r)
ParseLong(b, off) == ParseLongType(b, GetAll(b, <<U(1), U(4), <<"counted", 1>>, <<"counted", 1>>>>, Reader(off)))

ParseHeader(b, off, dcid_len) ==
    IF Room(b, off) < 1 THEN Failed("BufferTooShort")
    ELSE IF b[off + 1] < 128 THEN ParseShort(b, off, dcid_len) ELSE ParseLong(b, off)

\* negotiate_version: connection ids are swapped, the first byte is random
NegotiateVersion(scid, dcid, first) ==
    <<128 + (first % 128)>>
        \o PutAll(<<U(4), <<"counted", 1>>, <<"counted", 1>>, U(4), U(4), U(4)>>, <<0, scid, dcid, 25, 24, 23>>)

Retry(scid, new_scid, token) ==
    HeaderBytes([ty |-> "Retry", version |-> 25, dcid |-> scid, scid |-> new_scid, token |-> token,
                 pkt_num_len |-> 0, fec |-> NoFec]) \o Zeros(TagLen)

-----------------------------------------------------------------------------
PktNumLen(pn) == IF pn < 255 THEN 1 ELSE IF pn < 65535 THEN 2 ELSE 4

DecodePktNum(largest, truncated, len) ==
    LET win == 256^len
        expected == largest + 1
        candidate == (expected - (expected % win)) + truncated
    IN IF len = 4 THEN truncated
       ELSE IF candidate + (win \div 2) <= expected THEN candidate + win
       ELSE IF candidate > expected + (win \div 2) /\ candidate >= win THEN candidate - win
       ELSE candidate

-----------------------------------------------------------------------------
(* encrypt_pkt, and what undoes it: decrypt_hdr finds the length of the    *)
(* number, decrypt_pkt what the number opens                               *)

Tag(epoch, pn) == [i \in 1..TagLen |-> 1000000 * (epoch + 1) + pn]

EncryptPkt(hdr, pn, payload) ==
    LET len == IF hdr.ty = "Short" THEN <<>> ELSE PutVarint(PktNumLen(pn) + Len(payload) + TagLen) IN
    HeaderBytes(hdr) \o len \o BigEndian(pn, PktNumLen(pn)) \o payload \o Tag(ToEpoch(hdr.ty), pn)

\* b: the datagram; off: of the number; len: of number, payload and tag;
\* first: the first byte of the header
DecryptPkt(b, off, len, first, largest, epoch) ==
    LET pn_len == (first % 4) + 1
        pn == DecodePktNum(largest, FromBigEndian(SubSeq(b, off + 1, off + pn_len)), pn_len)
        sealed == SubSeq(b, off + pn_len + 1, off + len)
        size == Len(sealed) - TagLen
    IN IF Room(b, off) < MaxPktNumLen + SampleLen THEN [error |-> "BufferTooShort", pn |-> 0, payload |-> <<>>]
       ELSE IF size < 0 \/ SubSeq(sealed, size + 1, Len(sealed)) # Tag(epoch, pn)
       THEN [error |-> "CryptoFail", pn |-> pn, payload |-> <<>>]
       ELSE [error |-> "", pn |-> pn, payload |-> SubSeq(sealed, 1, size)]
=============================================================================
