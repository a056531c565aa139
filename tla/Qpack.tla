------------------------------- MODULE Qpack --------------------------------
(***************************************************************************)
(* HTTP/3 header blocks (h3/qpack): integers of a few bits and more bytes, *)
(* strings in a Huffman code, headers by index in a static table, by name  *)
(* only, or as they are.  No dynamic table.                                *)
(*                                                                         *)
(* A string is a sequence of bytes below 128, so that it is UTF-8.         *)
(***************************************************************************)
EXTENDS Octets

CONSTANT StaticTable   \* the rows of the static table that are used, <<name, value>> at their index

Indexed == 128
LiteralWithNameRef == 64
Literal == 32
IndexedWithPostBase == 16

-----------------------------------------------------------------------------
(* huffman: the code is canonical, so ENCODE_TABLE is how many codes there *)
(* are of each length and the order of the symbols                         *)

CodesOf ==
    << <<5, 10>>, <<6, 26>>, <<7, 32>>, <<8, 6>>, <<10, 5>>, <<11, 3>>, <<12, 2>>, <<13, 6>>, <<14, 2>>, <<15, 3>>,
       <<19, 3>>, <<20, 8>>, <<21, 13>>, <<22, 26>>, <<23, 29>>, <<24, 12>>, <<25, 4>>, <<26, 15>>, <<27, 19>>,
       <<28, 29>>, <<30, 4>> >>
Symbols ==
    <<
      48, 49, 50, 97, 99, 101, 105, 111, 115, 116, 32, 37, 45, 46, 47, 51, 52, 53, 54, 55, 56, 57, 61,
      65, 95, 98, 100, 102, 103, 104, 108, 109, 110, 112, 114, 117, 58, 66, 67, 68, 69, 70, 71, 72, 73,
      74, 75, 76, 77, 78, 79, 80, 81, 82, 83, 84, 85, 86, 87, 89, 106, 107, 113, 118, 119, 120, 121,
      122, 38, 42, 44, 59, 88, 90, 33, 34, 40, 41, 63, 39, 43, 124, 35, 62, 0, 36, 64, 91, 93, 126, 94,
      125, 60, 96, 123, 92, 195, 208, 128, 130, 131, 162, 184, 194, 224, 226, 153, 161, 167, 172, 176,
      177, 179, 209, 216, 217, 227, 229, 230, 129, 132, 133, 134, 136, 146, 154, 156, 160, 163, 164,
      169, 170, 173, 178, 181, 185, 186, 187, 189, 190, 196, 198, 228, 232, 233, 1, 135, 137, 138, 139,
      140, 141, 143, 147, 149, 150, 151, 152, 155, 157, 158, 165, 166, 168, 174, 175, 180, 182, 183,
      188, 191, 197, 231, 239, 9, 142, 144, 145, 148, 159, 171, 206, 215, 225, 236, 237, 199, 207, 234,
      235, 192, 193, 200, 201, 202, 205, 210, 213, 218, 219, 238, 240, 242, 243, 255, 203, 204, 211,
      212, 214, 221, 222, 223, 241, 244, 245, 246, 247, 248, 250, 251, 252, 253, 254, 2, 3, 4, 5, 6, 7,
      8, 11, 12, 14, 15, 16, 17, 18, 19, 20, 21, 23, 24, 25, 26, 27, 28, 29, 30, 31, 127, 220, 249, 10,
      13, 22
    >>

\* The codes of one length are consecutive numbers; the first follows the last of the length before
FirstOf[i \in DOMAIN CodesOf] ==
    IF i = 1 THEN [n |-> 1, code |-> 0]
    ELSE LET prev == FirstOf[i - 1] IN
         [n |-> prev.n + CodesOf[i - 1][2], code |-> (prev.code + CodesOf[i - 1][2]) * 2^(CodesOf[i][1] - CodesOf[i - 1][1])]

Bits(v, n) == [j \in 1..n |-> (v \div 2^(n - j)) % 2]
Code ==
    FlattenSeq([i \in DOMAIN CodesOf |-> LET first == FirstOf[i].code IN
                  [k \in 1..CodesOf[i][2] |-> Bits(first + k - 1, CodesOf[i][1])]])
CodeOf == [s \in 0..255 |-> Code[CHOOSE k \in 1..256 : Symbols[k] = s]]
EncodeTable == SubSeq(Code, 1, 256)
EndOfString == Code[257]

EncodedBits(s) == FlattenSeq([i \in DOMAIN s |-> CodeOf[s[i]]])
EncodeOutputLength(s) == (Len(EncodedBits(s)) + 7) \div 8

\* The last byte is filled with the head of the end-of-string code
HuffmanEncode(s) ==
    LET bits == EncodedBits(s)
        full == bits \o [i \in 1..(8 * EncodeOutputLength(s) - Len(bits)) |-> 1]
        Octet(k) == FoldLeft(LAMBDA v, bit : 2 * v + bit, 0, SubSeq(full, 8 * k - 7, 8 * k))
    IN [k \in 1..EncodeOutputLength(s) |-> Octet(k)]

\* A state of DECODE_TABLE is what has been read of a code
Nodes == UNION {{SubSeq(w, 1, k) : k \in 0..(Len(w) - 1)} : w \in Range(EncodeTable) \cup {EndOfString}}

\* decode4: one symbol may end in these four bits
Decode4(d, nibble) ==
    LET bits == d.state \o Bits(nibble, 4)
        ends == {k \in DOMAIN bits : \E w \in Range(EncodeTable) : w = SubSeq(bits, 1, k)}
        next == IF ends = {} THEN bits ELSE SubSeq(bits, Min(ends) + 1, Len(bits))
        symbol == Symbols[CHOOSE i \in 1..256 : Code[i] = SubSeq(bits, 1, Min(ends))]
    IN IF ~d.ok \/ next \notin Nodes THEN [d EXCEPT !.ok = FALSE]
       ELSE [ok |-> TRUE, state |-> next, out |-> IF ends = {} THEN d.out ELSE Append(d.out, symbol)]

MaybeEos(state) == Len(state) <= 7 /\ \A i \in DOMAIN state : state[i] = 1

Final(d) == d.ok /\ MaybeEos(d.state)

HuffmanDecode(bytes) ==
    LET nibbles == FlattenSeq([i \in DOMAIN bytes |-> <<bytes[i] \div 16, bytes[i] % 16>>])
        After[n \in 0..Len(nibbles)] ==
            IF n = 0 THEN [ok |-> TRUE, state |-> <<>>, out |-> <<>>] ELSE Decode4(After[n - 1], nibbles[n])
        end == After[Len(nibbles)]
    IN [ok |-> Final(end), out |-> end.out]

-----------------------------------------------------------------------------
(* encode_int, decode_int *)

\* Fault: the largest value of the prefix is written in it
EncodeInt_Full(v, first, prefix) ==
    LET mask == 2^prefix - 1
        Rest[n \in Nat] == IF n < 128 THEN <<n>> ELSE <<128 + (n % 128)>> \o Rest[n \div 128]
    IN IF v <= mask THEN <<first + v>> ELSE <<first + mask>> \o Rest[v - mask]

EncodeInt(v, first, prefix) ==
    LET mask == 2^prefix - 1
        Rest[n \in Nat] == IF n < 128 THEN <<n>> ELSE <<128 + (n % 128)>> \o Rest[n \div 128]
    IN IF v < mask THEN <<first + v>> ELSE <<first + mask>> \o Rest[v - mask]

\* The bytes that follow a full prefix, read from the end of the number backwards
IntRest(b, start) ==
    LET More[off \in start..Len(b)] ==
            IF off = Len(b) THEN [ok |-> FALSE, v |-> 0, off |-> off]
            ELSE IF b[off + 1] < 128 THEN [ok |-> TRUE, v |-> b[off + 1], off |-> off + 1]
            ELSE LET rest == More[off + 1] IN [rest EXCEPT !.v = (b[off + 1] % 128) + 128 * @]
    IN More[start]

\* q: the reader behind the first byte
IntAfter(b, q, prefix) ==
    LET val == Last(q.vals) % 2^prefix
        Read(off, v) == [q EXCEPT !.off = off, !.vals = Append(Front(@), v)]
        Whole(rest) == IF rest.ok THEN Read(rest.off, val + rest.v) ELSE [q EXCEPT !.ok = FALSE]
    IN IF ~q.ok THEN q
       ELSE IF val < 2^prefix - 1 THEN Read(q.off, val)
       ELSE Whole(IntRest(b, q.off))

\* Appends the value to what `r' has read
DecodeInt(b, r, prefix) == IntAfter(b, GetUint(b, r, 1), prefix)

-----------------------------------------------------------------------------
(* The static table, from both sides.  The encoder never takes a row with  *)
(* an empty value whole.                                                   *)

LookupStatic(h) ==
    LET exact == {i \in DOMAIN StaticTable : StaticTable[i] = h /\ h[2] # <<>>}
        named == {i \in DOMAIN StaticTable : StaticTable[i][1] = h[1]}
    IN CASE exact # {} -> [found |-> TRUE, idx |-> Min(exact), value |-> TRUE]
         [] exact = {} /\ named # {} -> [found |-> TRUE, idx |-> Min(named), value |-> FALSE]
         [] OTHER -> [found |-> FALSE, idx |-> 0, value |-> FALSE]

\* The row of an index, or none
StaticRow(idx) == {StaticTable[i] : i \in {idx} \cap DOMAIN StaticTable}

EncodeStr(s, first, prefix) == EncodeInt(EncodeOutputLength(s), first, prefix) \o HuffmanEncode(s)

EncodeHeader(h) ==
    LET row == LookupStatic(h) value == EncodeStr(h[2], 128, 7) IN
    CASE row.found /\ row.value -> EncodeInt(row.idx, Indexed + 64, 6)
      [] row.found /\ ~row.value -> EncodeInt(row.idx, LiteralWithNameRef + 16, 4) \o value
      [] OTHER -> EncodeStr(h[1], Literal + 8, 3) \o value

\* The counts of the dynamic table, then the headers
EncodeBlock(headers) == <<0, 0>> \o FlattenSeq([i \in DOMAIN headers |-> EncodeHeader(headers[i])])

-----------------------------------------------------------------------------
(* Decoder::decode *)

Representation(first) ==
    CASE first >= Indexed -> "Indexed"
      [] first < Indexed /\ first >= LiteralWithNameRef -> "LiteralWithNameRef"
      [] first < LiteralWithNameRef /\ first >= Literal -> "Literal"
      [] first < Literal -> "PostBase"   \* of the dynamic table, with an index or a name

\* Is bit `bit' of `byte' set?
Has(byte, bit) == (byte \div bit) % 2 = 1

\* decode_str, and the name of a Literal
DecodeStr(b, off, huffman, prefix) ==
    LET Text(r, text) == [ok |-> text.ok, text |-> text.out, off |-> r.off]
        Str(r) == IF ~r.ok THEN [ok |-> FALSE, text |-> <<>>, off |-> off]
                  ELSE IF Has(b[off + 1], huffman) THEN Text(r, HuffmanDecode(Last(r.vals)))
                  ELSE [ok |-> TRUE, text |-> Last(r.vals), off |-> r.off]
    IN Str(GetCounted(b, DecodeInt(b, Reader(off), prefix)))

NoHeaderRead(off) == [ok |-> FALSE, h |-> << <<>>, <<>> >>, off |-> off]
HeaderRead(h, off) == [ok |-> TRUE, h |-> h, off |-> off]

DecodeIndexed(b, off, r) ==
    LET row == StaticRow(Last(r.vals)) IN
    IF r.ok /\ Has(b[off + 1], 64) /\ row # {} THEN HeaderRead(CHOOSE h \in row : TRUE, r.off)
    ELSE NoHeaderRead(off)

\* The name of a row of the static table
DecodeNameRef(b, off, r) ==
    LET row == StaticRow(Last(r.vals)) IN
    IF r.ok /\ Has(b[off + 1], 16) /\ row # {} THEN [ok |-> TRUE, text |-> (CHOOSE h \in row : TRUE)[1], off |-> r.off]
    ELSE [ok |-> FALSE, text |-> <<>>, off |-> off]

\* A name and the value behind it
DecodeLiteral(b, off, name) ==
    LET With(value) == IF value.ok THEN HeaderRead(<<name.text, value.text>>, value.off) ELSE NoHeaderRead(off) IN
    IF name.ok THEN With(DecodeStr(b, name.off, 128, 7)) ELSE NoHeaderRead(off)

DecodeHeader(b, off) ==
    LET kind == Representation(b[off + 1]) IN
    CASE kind = "Indexed" -> DecodeIndexed(b, off, DecodeInt(b, Reader(off), 6))
      [] kind \in {"Literal", "LiteralWithNameRef"} ->
             DecodeLiteral(b, off, IF kind = "Literal" THEN DecodeStr(b, off, 8, 3)
                                   ELSE DecodeNameRef(b, off, DecodeInt(b, Reader(off), 4)))
      [] OTHER -> NoHeaderRead(off)

\* `left' is what max_size leaves for names and values
DecodeBlock(b, max_size) ==
    LET Took(q, d, size) ==
            IF ~d.ok \/ size > q.left THEN [q EXCEPT !.ok = FALSE]
            ELSE [ok |-> TRUE, off |-> d.off, left |-> q.left - size, out |-> Append(q.out, d.h)]
        Taking(q, d) == Took(q, d, Len(d.h[1]) + Len(d.h[2]))
        Step(q) == IF ~q.ok \/ q.off = Len(b) THEN q ELSE Taking(q, DecodeHeader(b, q.off))
        Begin(base) == [ok |-> base.ok, off |-> base.off, left |-> max_size, out |-> <<>>]
        After[n \in 0..Len(b)] ==
            IF n = 0 THEN Begin(DecodeInt(b, DecodeInt(b, Reader(0), 8), 7)) ELSE Step(After[n - 1])
    IN After[Len(b)]
=============================================================================
