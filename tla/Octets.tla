------------------------------- MODULE Octets -------------------------------
(***************************************************************************)
(* The byte buffer all encodings are written to and read from (octets.rs). *)
(*                                                                         *)
(* Bytes are a sequence over 0..255.  A reader is [off, vals, ok]: where   *)
(* it is, what it has read, and whether every read found its bytes         *)
(* (BufferTooShort).  Numbers are below 2^31 here, so the upper four of    *)
(* eight bytes are zero.                                                   *)
(***************************************************************************)
EXTENDS Integers, Sequences, SequencesExt, FiniteSetsExt

\* put_u8 .. put_u64: network byte order, cut to n bytes
BigEndian(v, n) == [i \in 1..n |-> IF n - i > 3 THEN 0 ELSE (v \div 256^(n - i)) % 256]
FromBigEndian(s) == FoldLeft(LAMBDA v, byte : v * 256 + byte, 0, s)

VarintLen(v) == IF v <= 63 THEN 1 ELSE IF v <= 16383 THEN 2 ELSE IF v <= 1073741823 THEN 4 ELSE 8
VarintParseLen(first) == 2^(first \div 64)

PutVarintWithLen(v, n) ==
    LET mark == CASE n = 1 -> 0 [] n = 2 -> 64 [] n = 4 -> 128 [] n = 8 -> 192
        bytes == BigEndian(v, n)
    IN <<Head(bytes) + mark>> \o Tail(bytes)
PutVarint(v) == PutVarintWithLen(v, VarintLen(v))

-----------------------------------------------------------------------------
Reader(off) == [off |-> off, vals |-> <<>>, ok |-> TRUE]
Room(b, off) == Len(b) - off

GetBytes(b, r, n) ==
    IF ~r.ok \/ Room(b, r.off) < n THEN [r EXCEPT !.ok = FALSE]
    ELSE [r EXCEPT !.off = @ + n, !.vals = Append(@, SubSeq(b, r.off + 1, r.off + n))]

\* The last value read, converted
Converted(r, Op(_)) == IF r.ok THEN [r EXCEPT !.vals = Append(Front(@), Op(Last(@)))] ELSE r

GetUint(b, r, n) == Converted(GetBytes(b, r, n), FromBigEndian)

GetVarint(b, r) ==
    LET Value(s) == FromBigEndian([s EXCEPT ![1] = @ % 64])
    IN IF ~r.ok \/ Room(b, r.off) < 1 THEN [r EXCEPT !.ok = FALSE]
       ELSE Converted(GetBytes(b, r, VarintParseLen(b[r.off + 1])), Value)

\* get_bytes_with_u8_length, _u16_length, _varint_length: `r' has read the length
GetCounted(b, r) ==
    IF ~r.ok THEN r ELSE GetBytes(b, [r EXCEPT !.vals = Front(@)], Last(r.vals))

-----------------------------------------------------------------------------
(* A field is "v" (a varint), "vbytes" (bytes after a varint length), or a *)
(* fixed number of bytes: <<"u", n>> a number, <<"bytes", n>> bytes, and   *)
(* <<"counted", n>> bytes after a length of n bytes.                       *)

Put(field, x) ==
    CASE field = <<"v">> -> PutVarint(x)
      [] field = <<"vbytes">> -> PutVarint(Len(x)) \o x
      [] field[1] = "u" -> BigEndian(x, field[2])
      [] field[1] = "bytes" -> x
      [] field[1] = "counted" -> BigEndian(Len(x), field[2]) \o x

Get(b, field, r) ==
    CASE field = <<"v">> -> GetVarint(b, r)
      [] field = <<"vbytes">> -> GetCounted(b, GetVarint(b, r))
      [] field[1] = "u" -> GetUint(b, r, field[2])
      [] field[1] = "bytes" -> GetBytes(b, r, field[2])
      [] field[1] = "counted" -> GetCounted(b, GetUint(b, r, field[2]))

PutAll(fields, xs) == FlattenSeq([i \in DOMAIN fields |-> Put(fields[i], xs[i])])
GetAll(b, fields, r) == FoldLeft(LAMBDA q, field : Get(b, field, q), r, fields)
=============================================================================
