------------------------------- MODULE MCWire -------------------------------
(***************************************************************************)
(* The wire for TLC: Datagram with the work of MCDatagram, and besides it  *)
(* Codecs with one sample each, while the sender has nothing to do.        *)
(***************************************************************************)
EXTENDS MCDatagram, Codecs, TLC

Bound == {0, 63, 64, 16383, 16384, 1073741823, 1073741824}   \* where varints grow
Some == {0, 63, 64, 16384}
Text == [i \in 1..3 |-> 96 + i]
Byte64 == [i \in 1..64 |-> i]
SomeBytes == {<<>>, Text, Byte64}

Tuples(n) == CASE n = 1 -> {<<v>> : v \in Bound} [] n = 2 -> {<<v, w>> : v \in Bound, w \in Some} [] n = 5 ->
    {[i \in 1..5 |-> IF i = k THEN v ELSE 7] : k \in 1..5, v \in Bound}
Plain == [ty \in {"StopSending", "MaxData", "MaxStreamData", "MaxStreamsBidi", "MaxStreamsUni", "DataBlocked",
                  "StreamDataBlocked", "StreamsBlockedBidi", "StreamsBlockedUni", "RetireConnectionId", "BlockInfo"}
            |-> UNION {{F(ty, a) : a \in Tuples(Len(Layout[ty]) - 1)}}]

SomeRanges ==
    {rs \in SUBSET {<<0, 1>>, <<0, 3>>, <<4, 6>>, <<5, 70>>, <<72, 73>>, <<200, 20000>>} :
        rs # {} /\ \A p, q \in rs : p = q \/ p[2] < q[1] \/ q[2] < p[1]}

FrameSamples ==
    UNION {Plain[ty] : ty \in DOMAIN Plain}
    \cup {F("Padding", <<n>>) : n \in {1, 4, 70}} \cup {F("Ping", <<>>), F("HandshakeDone", <<>>)}
    \cup {F("ACK", <<t, 1, rs>>) : t \in Some, rs \in SomeRanges}
    \cup {F("ResetStream", <<s, e, n>>) : s \in Some, e \in {0, 1, 65535}, n \in Bound}
    \cup {F("Crypto", <<o, d>>) : o \in Bound, d \in SomeBytes} \cup {F("NewToken", <<d>>) : d \in SomeBytes}
    \cup {F("Stream", <<s, o, d, fin>>) : s \in Some, o \in Bound, d \in SomeBytes, fin \in BOOLEAN}
    \cup {F("NewConnectionId", <<n, 0, d, Cid>>) : n \in Some, d \in SomeBytes}
    \cup {F("PathChallenge", <<Zeros(8)>>), F("PathResponse", <<SubSeq(Byte64, 1, 8)>>)}
    \cup {F("ConnectionClose", <<e, 0, d>>) : e \in Some, d \in SomeBytes}
    \cup {F("ApplicationClose", <<e, d>>) : e \in Some, d \in SomeBytes}

HeaderSamples ==
    {[ty |-> ty, version |-> 25, dcid |-> d, scid |-> s, token |-> t, pkt_num_len |-> n,
      fec |-> [group_id |-> g, index |-> 3, m |-> 2, n |-> 1]] :
        ty \in {"Initial", "ZeroRTT", "Handshake", "Retry", "Short"}, d \in {<<>>, Cid}, s \in {Text, Cid},
        t \in {<<>>, Byte64}, n \in {1, 2, 4}, g \in {0, 300}}

Set == [Default EXCEPT ![1] = 30000, ![4] = 10000000, ![5] = 1000000, ![8] = 100, ![12] = 1]
ParamSamples ==
    {Default, Set, [id \in 0..14 |-> IF id = 0 THEN Cid ELSE IF id = 2 THEN SubSeq(Byte64, 1, 16) ELSE IF id = 12 THEN 1
                        ELSE IF id = 13 THEN 0 ELSE IF id \in {10, 11} THEN 20 ELSE 1200]}
    \cup {[Set EXCEPT ![id] = v] : id \in Numbers \ {3, 10, 11}, v \in Bound}
    \cup {[Set EXCEPT ![10] = v] : v \in 0..20} \cup {[Set EXCEPT ![11] = v, ![2] = SubSeq(Byte64, 1, 16)] : v \in {0, 1, 64, 16383}}
    \cup {[id \in 0..14 |-> IF id = 0 THEN Cid ELSE IF id = 2 THEN Zeros(16) ELSE IF id \in {10, 11, 13} THEN 0 ELSE IF id = 12 THEN 1
                             ELSE 1073741824]}

\* Rows at the ends of the prefixes: "set-cookie" 14, ":method" 15, ":status" 62 and 63 ...
Path == <<58, 112, 97, 116, 104>>   Slash == <<47>>
Method == <<58, 109>>   Get_ == <<71, 69, 84>>   Cookie == <<115, 101, 116>>   Status == <<58, 115>>
SomeTable == (1 :> <<Path, Slash>>) @@ (14 :> <<Cookie, <<>>>>) @@ (15 :> <<Method, <<67>>>>) @@ (17 :> <<Method, Get_>>)
    @@ (62 :> <<Status, <<50>>>>) @@ (63 :> <<Status, <<49>>>>) @@ (98 :> <<<<120>>, <<115>>>>)
Values == {<<>>, Slash, Get_, <<67>>, <<49>>, <<48, 48, 48, 48>>, <<92, 10, 127>>, [i \in 1..7 |-> 38], [i \in 1..16 |-> 97]}
Names == {Path, Cookie, Method, Status, <<120>>, <<122, 45, 122>>, [i \in 1..9 |-> 90]}
HeaderLists == {<<>>} \cup {<< <<n, v>> >> : n \in Names, v \in Values}
    \cup {<< <<n, Get_>>, <<Status, <<49>>>>, <<Path, v>> >> : n \in Names, v \in {Slash, <<>>, Get_}}

NumberSamples == {[pn |-> p, largest |-> l] : p \in {0, 1, 100, 126, 127, 128, 129, 254, 255, 256, 257, 383, 384, 65534, 65535, 65536, 70000},
                                             l \in {0, 127, 128, 253, 254, 255, 256, 381, 382, 383, 32896, 65535, 65536, 98303, 200000}}

Sample(kind, xs) == {[kind |-> kind, x |-> x] : x \in xs}
NoSample == [kind |-> "none", x |-> 0]
AllSamples ==
    Sample("frame", FrameSamples) \cup Sample("header", HeaderSamples) \cup Sample("params", ParamSamples)
    \cup Sample("number", NumberSamples) \cup Sample("headers", HeaderLists)
    \cup Sample("negotiation", {[scid |-> s, dcid |-> d, first |-> f] : s \in {<<>>, Cid}, d \in {Text, Cid}, f \in {0, 255}})

WireInit == Init /\ (sample = NoSample \/ (given = Nothing /\ sample \in Samples))
WireSpec == WireInit /\ [][Next /\ UNCHANGED sample]_<<vars, sample>>
=============================================================================
