----------------------- MODULE PacketExchange_proofs -----------------------
(***************************************************************************)
(* Proofs about PacketExchange, and about RangeSet and PktNumWindow, for   *)
(* every value of the constants.                                           *)
(***************************************************************************)
EXTENDS PacketExchange, FiniteFacts

-----------------------------------------------------------------------------
\* Ranges with bounds up to N, not empty, with a gap between any two
Ranges(rs, N) ==
    /\ rs \subseteq (0..N) \X (0..N)
    /\ \A r \in rs : r[1] < r[2]
    /\ \A r, q \in rs : r # q => r[2] < q[1] \/ q[2] < r[1]

\* Packet numbers of A and of B, and the packets A may still send again or lose
Nums == 0..(MaxPn - 1)
AckNums == 0..(MaxAcks - 1)
Flight == sent \cup to_b
Acks == b_sent \cup to_a

\* What a packet carries, and the packets of A and of B
Frame == [unit : Units, acks : SUBSET AckNums]
DataPacket == [pn : Nums, unit : Units \cup {NoUnit}, acks : SUBSET AckNums, gid : Nat, index : Nat]
AckPkt == [pn : AckNums, acks : SUBSET Nums]

\* The types of the variables
Types ==
    /\ work \subseteq Units /\ settled \subseteq Units
    /\ a_next \in 0..MaxPn /\ b_next \in 0..MaxAcks
    /\ Flight \subseteq DataPacket
    /\ Acks \subseteq AckPkt
    /\ group_acked \in Seq(SUBSET Nums) /\ Len(group_acked) = Len(made)
    /\ b_acked \subseteq Nums
    /\ processed \in [Units -> Nat] /\ refusals \subseteq Nat
    /\ handled \in [Nums -> Nat] /\ recorded \subseteq Nums
    /\ told \subseteq Nums /\ until \in Int /\ b_elicited \in BOOLEAN
    /\ b_window.lower \in Nat /\ b_window.bits \subseteq Nat
    /\ Ranges(a_need_ack, MaxAcks) /\ Ranges(b_need_ack, MaxPn)

\* PktNumWindow knows every recorded number, and a packet handled is recorded
WindowOK ==
    /\ \A n \in b_window.bits : n <= WindowUpper(b_window, WindowSize)
    /\ \A n \in recorded : n < b_window.lower \/ n \in b_window.bits
    /\ \A n \in Nums : handled[n] = 0 \/ (handled[n] = 1 /\ n \in recorded)

\* Every set of numbers to acknowledge, on its way or taken in, was recorded
AcksOK ==
    /\ Flat(b_need_ack) \subseteq recorded
    /\ b_elicited => Flat(b_need_ack) # {}
    /\ \A a \in Acks : a.acks # {} /\ a.acks \subseteq recorded
    /\ told \subseteq recorded
    /\ \A g \in DOMAIN group_acked : group_acked[g] \subseteq recorded

\* A number B recorded is in its range set, or A knows it was told
Kept == \A n \in recorded : n > until => n \in Flat(b_need_ack)

\* Index i of group g was used: a data packet, or a repair packet of a full group
Inside(g, i) ==
    \/ i < Len(made[g].data)
    \/ Len(made[g].data) = made[g].m /\ made[g].m <= i /\ i < made[g].m + made[g].n

\* The open group is the last made, the others are full, and repair packets
\* wait once each
Group == [m : Nat \ {0}, n : Nat \ {0}, data : Seq(Frame)]
GroupsOK ==
    /\ made \in Seq(Group)
    /\ group \in [gid : Nat, m : Nat, n : Nat, next : Nat]
    /\ group # NoGroup =>
         /\ group.gid = Len(made) /\ Len(made) > 0
         /\ group.m = made[group.gid].m /\ group.n = made[group.gid].n
         /\ group.next = Len(made[group.gid].data) /\ group.next < group.m
    /\ \A g \in 1..Len(made) : g # group.gid => Len(made[g].data) = made[g].m
    /\ encoded \in Seq(Nat \X Nat)
    /\ encoded # <<>> => group = NoGroup
    /\ \A k \in 1..Len(encoded) :
         /\ encoded[k][1] \in 1..Len(made)
         /\ made[encoded[k][1]].m <= encoded[k][2]
         /\ encoded[k][2] < made[encoded[k][1]].m + made[encoded[k][1]].n
    /\ \A j, k \in 1..Len(encoded) : encoded[j] = encoded[k] => j = k

\* A packet in flight is at the place of its group it says, with the frames the
\* group remembers there
PacketsOK ==
    /\ \A p \in Flight :
         /\ p.pn < a_next
         /\ p.gid # 0 =>
              /\ p.gid \in 1..Len(made) /\ Inside(p.gid, p.index)
              /\ p.index < made[p.gid].m => made[p.gid].data[p.index + 1] = Frames(p)
              /\ p.index >= made[p.gid].m => p.unit = NoUnit
         /\ p.gid = 0 => p.unit \in Units
    /\ \A p, q \in Flight : p.pn = q.pn => p = q
    /\ \A n \in recorded : n < a_next

\* B's shards were sent, a group with m of them has its data shards, and data
\* shards were processed unless the group's frames were refused
ShardsOK ==
    /\ DOMAIN shards \subseteq 1..Len(made)
    /\ \A g \in DOMAIN shards :
         /\ shards[g] \subseteq Nat /\ \A i \in shards[g] : Inside(g, i)
         /\ Cardinality(shards[g]) >= made[g].m => 0..(made[g].m - 1) \subseteq shards[g]
         /\ g \notin refusals => \A i \in shards[g] : i < made[g].m => processed[made[g].data[i + 1].unit] > 0

\* The frames of a recorded packet were processed
ProcessedOK == \A p \in Flight : p.pn \in recorded /\ p.unit \in Units => processed[p.unit] > 0

Inv == /\ Types /\ WindowOK /\ AcksOK /\ Kept
       /\ GroupsOK /\ PacketsOK /\ ShardsOK /\ ProcessedOK

\* h gives every number used its own place in a group: so m acknowledged numbers
\* of a group are m different shards, which the code nowhere records
PlacesOK(h) ==
    /\ h \in [Nums -> Nat \X Nat]
    /\ \A p \in Flight : h[p.pn] = <<p.gid, p.index>>
    /\ \A i \in 0..(a_next - 1) :
         /\ h[i][1] # 0 => h[i][1] \in 1..Len(made) /\ Inside(h[i][1], h[i][2])
         /\ \A k \in 1..Len(encoded) : h[i] # encoded[k]
    /\ \A i, j \in 0..(a_next - 1) : h[i] = h[j] /\ h[i][1] # 0 => i = j
    /\ \A n \in recorded : h[n][1] # 0 => h[n][1] \in DOMAIN shards /\ h[n][2] \in shards[h[n][1]]
    /\ \A g \in DOMAIN group_acked : \A n \in group_acked[g] : h[n][1] = g

-----------------------------------------------------------------------------
(* Range sets *)

\* The numbers of a range set, one by one
LEMMA FlatIs ==
    ASSUME NEW rs, NEW n
    PROVE  n \in Flat(rs) <=> \E r \in rs : n \in r[1]..(r[2] - 1)
BY DEF Flat

\* range_overlaps, for one number
LEMMA OverlapsIs ==
    ASSUME NEW N \in Nat, NEW r \in (0..N) \X (0..N), r[1] < r[2], NEW n \in Int
    PROVE  RangeOverlaps(r, <<n, n + 1>>) <=> r[1] <= n + 1 /\ n <= r[2]
BY DEF RangeOverlaps

\* The ranges insert() merges with a number are those that hold it or a neighbour
LEMMA TouchingIs ==
    ASSUME NEW N \in Nat, NEW rs, Ranges(rs, N), NEW n \in 0..(N - 1)
    PROVE  Touching(rs, <<n, n + 1>>) = {r \in rs : r[1] <= n + 1 /\ n <= r[2]}
<1> DEFINE item == <<n, n + 1>>
           prev == IF Before(rs, item[1]) = {} THEN {}
                   ELSE {r \in {PrevTo(rs, item[1])} : RangeOverlaps(r, item)}
           start == Min({item[1]} \cup {r[1] : r \in prev})
           next == {r \in After(rs \ prev, start) : RangeOverlaps(r, item)}
<1>1. \A r \in rs : r \in (0..N) \X (0..N) /\ r[1] \in 0..N /\ r[2] \in 0..N /\ r[1] < r[2]
  BY DEF Ranges
<1>2. \A r \in rs : RangeOverlaps(r, item) <=> r[1] <= n + 1 /\ n <= r[2]
  BY <1>1, OverlapsIs
<1>3. item[1] = n
  OBVIOUS
<1>4. Before(rs, n) # {} => /\ PrevTo(rs, n) \in Before(rs, n)
                            /\ \A q \in Before(rs, n) : q[1] <= PrevTo(rs, n)[1]
  <2> SUFFICES ASSUME Before(rs, n) # {}
               PROVE  \E r \in Before(rs, n) : \A q \in Before(rs, n) : q[1] <= r[1]
    BY DEF PrevTo
  <2> DEFINE S == {r[1] : r \in Before(rs, n)}
  <2>1. S \in SUBSET (0..N) /\ S # {}
    BY <1>1 DEF Before
  <2>2. IsFiniteSet(S) /\ S \subseteq Int
    <3>1. IsFiniteSet(0..N)
      BY FS_Interval
    <3>2. IsFiniteSet(S)
      BY ONLY <2>1, <3>1, FS_Subset
    <3> QED BY <2>1, <3>2
  <2> HIDE DEF S
  <2>3. Max(S) \in S /\ \A y \in S : Max(S) >= y
    BY <2>1, <2>2, MaxOfFinite
  <2> QED BY <2>2, <2>3 DEF S
<1>5. prev \subseteq rs /\ \A r \in prev : r[1] <= n /\ RangeOverlaps(r, item)
  BY <1>3, <1>4 DEF Before
<1>6. start <= n /\ start \in Int
  <2> DEFINE S == {n} \cup {r[1] : r \in prev}
  <2>1. S \subseteq Nat /\ n \in S
    BY <1>1, <1>5
  <2> HIDE DEF S
  <2>2. Min(S) \in S /\ Min(S) <= n
    BY <2>1, MinOfNaturals
  <2> QED BY <1>3, <2>1, <2>2 DEF S
<1>7. ASSUME NEW r \in rs, r[1] <= n, n <= r[2] PROVE r \in prev
  <2>1. r \in Before(rs, n)
    BY <1>7 DEF Before
  <2>2. /\ PrevTo(rs, n) \in rs /\ r[1] <= PrevTo(rs, n)[1] /\ PrevTo(rs, n)[1] <= n
    BY <1>4, <2>1 DEF Before
  <2>3. r = PrevTo(rs, n)
    BY <1>1, <1>7, <2>2 DEF Ranges
  <2> QED BY <1>1, <1>2, <1>3, <1>7, <2>1, <2>3
<1>8. ASSUME NEW r \in rs, r[1] = n + 1 PROVE r \in next
  <2>1. r \notin prev
    BY <1>5, <1>8
  <2>2. r[1] >= start
    BY <1>6, <1>8
  <2>3. RangeOverlaps(r, item)
    BY <1>1, <1>2, <1>8
  <2> QED BY <2>1, <2>2, <2>3 DEF After
<1>9. next \subseteq rs /\ \A r \in next : RangeOverlaps(r, item)
  BY DEF After
<1>10. Touching(rs, item) = prev \cup next
  BY DEF Touching
<1> HIDE DEF item, prev, start, next
<1>11. \A r \in rs : r[1] <= n + 1 /\ n <= r[2] => r \in prev \cup next
  <2> SUFFICES ASSUME NEW r \in rs, r[1] <= n + 1, n <= r[2] PROVE r \in prev \cup next
    OBVIOUS
  <2>1. r[1] <= n \/ r[1] = n + 1
    BY <1>1
  <2> QED BY <1>7, <1>8, <2>1
<1>12. \A r \in prev \cup next : r \in rs /\ r[1] <= n + 1 /\ n <= r[2]
  BY <1>2, <1>5, <1>9
<1> QED BY <1>10, <1>11, <1>12 DEF item

\* push_item adds one number and keeps the ranges apart
LEMMA PushItemIs ==
    ASSUME NEW N \in Nat, NEW rs, Ranges(rs, N), NEW n \in 0..(N - 1)
    PROVE  /\ Ranges(PushItem(rs, n), N)
           /\ Flat(PushItem(rs, n)) = Flat(rs) \cup {n}
<1> DEFINE t == {r \in rs : r[1] <= n + 1 /\ n <= r[2]}
           S == {n} \cup {r[1] : r \in t}
           T == {n + 1} \cup {r[2] : r \in t}
<1>1. \A r \in rs : r \in (0..N) \X (0..N) /\ r[1] \in 0..N /\ r[2] \in 0..N /\ r[1] < r[2]
  BY DEF Ranges
<1>2. PushItem(rs, n) = (rs \ t) \cup {<<Min(S), Max(T)>>}
  <2>1. Touching(rs, <<n, n + 1>>) = t
    BY TouchingIs
  <2>2. <<n, n + 1>>[1] = n /\ <<n, n + 1>>[2] = n + 1
    OBVIOUS
  <2>3. PushItem(rs, n) =
            (rs \ t) \cup {<<Min({<<n, n + 1>>[1]} \cup {r[1] : r \in t}),
                            Max({<<n, n + 1>>[2]} \cup {r[2] : r \in t})>>}
    BY <2>1, Zenon DEF PushItem, Insert
  <2> QED BY ONLY <2>2, <2>3
<1>3. S \subseteq 0..N /\ T \subseteq 0..N /\ n \in S /\ n + 1 \in T
  BY <1>1
<1>4. \A x \in S : x = n \/ \E r \in t : x = r[1]
  OBVIOUS
<1>5. \A x \in T : x = n + 1 \/ \E r \in t : x = r[2]
  OBVIOUS
<1>6. \A r \in t : r[1] \in S /\ r[2] \in T
  OBVIOUS
<1>7. \A r \in t : r \in rs /\ r[1] <= n + 1 /\ n <= r[2]
  OBVIOUS
<1>8. \A r \in rs \ t : r[1] > n + 1 \/ r[2] < n
  BY <1>1
<1> HIDE DEF t, S, T
<1> DEFINE a == Min(S)
           b == Max(T)
<1>9. a \in S /\ b \in T /\ (\A x \in S : a <= x) /\ (\A x \in T : x <= b)
  <2>1. S \subseteq Nat /\ T \subseteq Int /\ S # {} /\ T # {}
    BY <1>3
  <2>2. IsFiniteSet(T)
    <3>1. T \in SUBSET (0..N) /\ IsFiniteSet(0..N)
      BY <1>3, FS_Interval
    <3> QED BY <3>1, FS_Subset
  <2>3. a \in S /\ \A x \in S : a <= x
    BY <2>1, MinOfNaturals
  <2>4. b \in T /\ \A x \in T : b >= x
    BY <2>1, <2>2, MaxOfFinite
  <2> HIDE DEF a, b
  <2>5. \A x \in T : x <= b
    BY <2>1, <2>4
  <2> QED BY <2>3, <2>4, <2>5
<1> HIDE DEF a, b
<1>10. a \in 0..N /\ b \in 0..N /\ a <= n /\ n + 1 <= b
  BY <1>3, <1>9
<1>11. ASSUME NEW q \in rs \ t PROVE b < q[1] \/ q[2] < a
  <2>1. CASE q[1] > n + 1
    <3>1. \A r \in t : r[2] < q[1]
      <4> SUFFICES ASSUME NEW r \in t PROVE r[2] < q[1]
        OBVIOUS
      <4>1. r \in rs /\ r # q /\ r[1] <= n + 1
        BY <1>7
      <4>2. r[2] < q[1] \/ q[2] < r[1]
        BY <4>1 DEF Ranges
      <4> QED BY <1>1, <2>1, <4>1, <4>2
    <3> QED BY <1>5, <1>9, <2>1, <3>1
  <2>2. CASE q[2] < n
    <3>1. \A r \in t : q[2] < r[1]
      <4> SUFFICES ASSUME NEW r \in t PROVE q[2] < r[1]
        OBVIOUS
      <4>1. r \in rs /\ r # q /\ n <= r[2]
        BY <1>7
      <4>2. r[2] < q[1] \/ q[2] < r[1]
        BY <4>1 DEF Ranges
      <4> QED BY <1>1, <2>2, <4>1, <4>2
    <3> QED BY <1>4, <1>9, <2>2, <3>1
  <2> QED BY <1>8, <2>1, <2>2
<1>12. t \subseteq rs
  BY <1>7
<1>13. Ranges((rs \ t) \cup {<<a, b>>}, N)
  <2> DEFINE R == (rs \ t) \cup {<<a, b>>}
  <2>1. R \subseteq (0..N) \X (0..N)
    BY <1>1, <1>10
  <2>2. \A r \in R : r[1] < r[2]
    BY <1>1, <1>10
  <2>3. \A r, q \in R : r # q => r[2] < q[1] \/ q[2] < r[1]
    <3> SUFFICES ASSUME NEW r \in R, NEW q \in R, r # q PROVE r[2] < q[1] \/ q[2] < r[1]
      OBVIOUS
    <3>1. CASE r \in rs /\ q \in rs
      BY <3>1 DEF Ranges
    <3>2. CASE r \notin rs \ t \/ q \notin rs \ t
      BY <1>11, <3>2
    <3> QED BY <3>1, <3>2
  <2> QED BY <2>1, <2>2, <2>3 DEF Ranges
<1>14. ASSUME NEW x PROVE x \in Flat((rs \ t) \cup {<<a, b>>}) <=> x \in Flat(rs) \cup {n}
  <2>1. x \in Flat((rs \ t) \cup {<<a, b>>}) <=>
            x \in a..(b - 1) \/ \E r \in rs \ t : x \in r[1]..(r[2] - 1)
    <3> DEFINE R == (rs \ t) \cup {<<a, b>>}
    <3>1. x \in Flat(R) <=> \E r \in R : x \in r[1]..(r[2] - 1)
      BY FlatIs
    <3>2. (\E r \in R : x \in r[1]..(r[2] - 1)) <=>
              x \in a..(b - 1) \/ \E r \in rs \ t : x \in r[1]..(r[2] - 1)
      <4>1. \A r \in R : r \in rs \ t \/ (r[1] = a /\ r[2] = b)
        OBVIOUS
      <4>2. <<a, b>> \in R /\ <<a, b>>[1] = a /\ <<a, b>>[2] = b
        OBVIOUS
      <4>3. \A r \in rs \ t : r \in R
        OBVIOUS
      <4> HIDE DEF R
      <4> QED BY ONLY <4>1, <4>2, <4>3
    <3> QED BY ONLY <3>1, <3>2
  <2>2. x \in Flat(rs) <=> \E r \in rs : x \in r[1]..(r[2] - 1)
    BY FlatIs
  <2>3. ASSUME NEW r \in t, x \in r[1]..(r[2] - 1) PROVE x \in a..(b - 1)
    <3>1. a <= r[1] /\ r[2] <= b /\ r[1] \in 0..N /\ r[2] \in 0..N
      BY <1>1, <1>6, <1>7, <1>9
    <3> QED BY <1>10, <2>3, <3>1
  <2>4. n \in a..(b - 1)
    BY <1>10
  <2>5. ASSUME x \in a..(b - 1), x # n PROVE \E r \in rs : x \in r[1]..(r[2] - 1)
    <3>1. x \in Int /\ a <= x /\ x < b
      BY <1>10, <2>5
    <3>2. CASE x < n
      <4>1. PICK r \in t : a = r[1]
        BY <1>4, <1>9, <1>10, <3>1, <3>2
      <4>2. r \in rs /\ n <= r[2] /\ r[1] \in 0..N /\ r[2] \in 0..N
        BY <1>1, <1>7
      <4> QED BY <3>1, <3>2, <4>1, <4>2
    <3>3. CASE x > n
      <4>1. PICK r \in t : b = r[2]
        BY <1>5, <1>9, <1>10, <3>1, <3>3
      <4>2. r \in rs /\ r[1] <= n + 1 /\ r[1] \in 0..N /\ r[2] \in 0..N
        BY <1>1, <1>7
      <4> QED BY <3>1, <3>3, <4>1, <4>2
    <3> QED BY <2>5, <3>1, <3>2, <3>3
  <2>6. x \in n..n => x = n
    OBVIOUS
  <2> QED BY <1>12, <2>1, <2>2, <2>3, <2>4, <2>5
<1>15. Flat((rs \ t) \cup {<<a, b>>}) = Flat(rs) \cup {n}
  BY <1>14
<1> QED BY <1>2, <1>13, <1>15 DEF a, b

\* remove_until takes out the numbers up to a largest one, and those only
LEMMA RemoveUntilIs ==
    ASSUME NEW N \in Nat, NEW rs, Ranges(rs, N), NEW l \in Nat
    PROVE  /\ Ranges(RemoveUntil(rs, l), N)
           /\ Flat(RemoveUntil(rs, l)) = {n \in Flat(rs) : n > l}
<1> DEFINE K == {r \in rs : r[1] > l}
           C == {q \in rs : q[1] <= l /\ q[2] > l + 1}
           R == RemoveUntil(rs, l)
<1>1. \A r \in rs : r \in (0..N) \X (0..N) /\ r[1] \in 0..N /\ r[2] \in 0..N /\ r[1] < r[2]
  BY DEF Ranges
<1>2. R = K \cup {<<l + 1, r[2]>> : r \in C}
  BY DEF RemoveUntil
<1>3. \A r \in C : r \in rs /\ r[1] <= l /\ r[2] > l + 1 /\ l + 1 \in 0..N
  BY <1>1
<1>4. \A r \in K : r \in rs /\ r[1] > l
  OBVIOUS
<1>5. \A r \in R : (r \in K /\ r \in rs) \/ \E q \in C : r = <<l + 1, q[2]>> /\ r[1] = l + 1 /\ r[2] = q[2]
  BY <1>2
<1>6. \A r \in rs : r[1] > l => r \in R
  BY <1>2
<1>7. \A q \in rs : q[1] <= l /\ q[2] > l + 1 => <<l + 1, q[2]>> \in R
  BY <1>2
<1>8. \A r, q \in C : r = q
  BY <1>1, <1>3 DEF Ranges
<1>9. \A r \in K, q \in C : q[2] < r[1]
  <2> SUFFICES ASSUME NEW r \in K, NEW q \in C PROVE q[2] < r[1]
    OBVIOUS
  <2>1. r[2] < q[1] \/ q[2] < r[1]
    BY <1>1, <1>3, <1>4 DEF Ranges
  <2> QED BY <1>1, <1>3, <1>4, <2>1
<1> HIDE DEF K, C, R
<1>10. Ranges(R, N)
  <2>1. R \subseteq (0..N) \X (0..N)
    BY <1>1, <1>3, <1>5
  <2>2. \A r \in R : r[1] < r[2]
    BY <1>1, <1>3, <1>5
  <2>3. \A r, q \in R : r # q => r[2] < q[1] \/ q[2] < r[1]
    <3> SUFFICES ASSUME NEW r \in R, NEW q \in R, r # q PROVE r[2] < q[1] \/ q[2] < r[1]
      OBVIOUS
    <3>1. CASE r \in K /\ q \in K
      BY <1>4, <3>1 DEF Ranges
    <3>2. CASE r \in K /\ q \notin K
      BY <1>5, <1>9, <3>2
    <3>3. CASE r \notin K /\ q \in K
      BY <1>5, <1>9, <3>3
    <3>4. CASE r \notin K /\ q \notin K
      BY <1>5, <1>8, <3>4
    <3> QED BY <3>1, <3>2, <3>3, <3>4
  <2> QED BY <2>1, <2>2, <2>3 DEF Ranges
<1>11. ASSUME NEW n PROVE n \in Flat(R) <=> n \in Flat(rs) /\ n > l
  <2>1. n \in Flat(R) <=> \E r \in R : n \in r[1]..(r[2] - 1)
    BY FlatIs
  <2>2. n \in Flat(rs) <=> \E r \in rs : n \in r[1]..(r[2] - 1)
    BY FlatIs
  <2>3. ASSUME NEW r \in R, n \in r[1]..(r[2] - 1)
        PROVE  n > l /\ \E q \in rs : n \in q[1]..(q[2] - 1)
    <3>1. CASE r \in K
      BY <1>1, <1>4, <2>3, <3>1
    <3>2. CASE r \notin K
      <4>1. PICK q \in C : r[1] = l + 1 /\ r[2] = q[2]
        BY <1>5, <3>2
      <4>2. q \in rs /\ q[1] <= l /\ q[1] \in 0..N /\ q[2] \in 0..N
        BY <1>1, <1>3
      <4>3. n \in (l + 1)..(q[2] - 1)
        BY <2>3, <4>1
      <4> QED BY <4>2, <4>3
    <3> QED BY <3>1, <3>2
  <2>4. ASSUME NEW q \in rs, n \in q[1]..(q[2] - 1), n > l
        PROVE  \E r \in R : n \in r[1]..(r[2] - 1)
    <3>1. q[1] \in 0..N /\ q[2] \in 0..N
      BY <1>1
    <3>2. CASE q[1] > l
      BY <1>6, <2>4, <3>2
    <3>3. CASE q[1] <= l
      <4>1. n \in Int /\ n <= q[2] - 1
        BY <2>4, <3>1
      <4>2. q[2] > l + 1 /\ n \in (l + 1)..(q[2] - 1)
        BY <2>4, <3>1, <4>1
      <4>3. <<l + 1, q[2]>> \in R
        BY <1>7, <3>3, <4>2
      <4> QED BY <4>2, <4>3
    <3> QED BY <3>1, <3>2, <3>3
  <2> QED BY <2>1, <2>2, <2>3, <2>4
<1>12. Flat(R) = {n \in Flat(rs) : n > l}
  BY <1>11
<1> QED BY <1>10, <1>12 DEF R

-----------------------------------------------------------------------------
(* The window of packet numbers *)

\* insert() of a number the window does not contain: it and all the others are
\* contained from then on
LEMMA WindowInsertIs ==
    ASSUME NEW w, w.lower \in Nat, w.bits \subseteq Nat, NEW size \in Nat \ {0}, NEW n \in Nat,
           \A i \in w.bits : i <= WindowUpper(w, size),
           ~WindowContains(w, size, n),
           NEW v, v = WindowInsert(w, size, n)
    PROVE  /\ v.lower \in Nat /\ v.bits \subseteq Nat
           /\ \A i \in v.bits : i <= WindowUpper(v, size)
           /\ n < v.lower \/ n \in v.bits
           /\ \A i \in Nat : i < w.lower \/ i \in w.bits => i < v.lower \/ i \in v.bits
<1>1. n >= w.lower /\ n \notin w.bits
  BY DEF WindowContains, WindowUpper
<1>2. v = [lower |-> Upper(w.lower, n - size + 1),
           bits |-> {i \in w.bits \cup {n} : i >= Upper(w.lower, n - size + 1)}]
  BY <1>1 DEF WindowInsert
<1> DEFINE l == Upper(w.lower, n - size + 1)
<1>3. l \in Nat /\ w.lower <= l /\ n < l + size
  BY DEF Upper
<1>4. v.lower = l /\ v.bits = {i \in w.bits \cup {n} : i >= l}
  BY <1>2
<1> HIDE DEF l
<1>5. \A i \in w.bits : i < l + size
  BY <1>3 DEF WindowUpper
<1> QED BY <1>1, <1>3, <1>4, <1>5 DEF WindowUpper

-----------------------------------------------------------------------------
(* FEC groups *)

\* The data shards of a group are as many as its m, or fewer while it is open
LEMMA GroupBounds ==
    ASSUME GroupsOK, NEW g \in 1..Len(made)
    PROVE  /\ made[g].m \in Nat \ {0} /\ made[g].n \in Nat \ {0} /\ made[g].data \in Seq(Frame)
           /\ Len(made[g].data) \in Nat /\ Len(made[g].data) <= made[g].m
           /\ g # group.gid => Len(made[g].data) = made[g].m
<1>1. made[g] \in Group
  <2>1. made \in Seq(Group)
    BY DEF GroupsOK
  <2> QED BY ONLY <2>1, g \in 1..Len(made)
<1>2. made[g].m \in Nat \ {0} /\ made[g].n \in Nat \ {0} /\ made[g].data \in Seq(Frame)
      /\ Len(made[g].data) \in Nat
  BY <1>1 DEF Group
<1>3. g # group.gid => Len(made[g].data) = made[g].m
  BY DEF GroupsOK
<1>4. CASE group = NoGroup
  BY <1>2, <1>3, <1>4 DEF NoGroup
<1>5. CASE group # NoGroup
  <2>1. group.m = made[group.gid].m /\ group.next = Len(made[group.gid].data) /\ group.next < group.m
    BY <1>5 DEF GroupsOK
  <2>2. g = group.gid => Len(made[g].data) <= made[g].m
    BY <1>2, <2>1
  <2> QED BY <1>2, <1>3, <2>2
<1> QED BY <1>2, <1>3, <1>4, <1>5

\* The same for all groups, before and after a step
Bounded == \A g \in 1..Len(made) :
    /\ made[g].m \in Nat /\ made[g].n \in Nat
    /\ Len(made[g].data) \in Nat /\ Len(made[g].data) <= made[g].m

LEMMA ShardBounds == GroupsOK => Bounded
BY GroupBounds DEF Bounded

LEMMA ShardBoundsNext == GroupsOK' => Bounded'
BY ShardBounds, PTL

\* Groups keep their shape, and their data shards
Grown ==
    \A g \in 1..Len(made) :
        /\ g \in 1..Len(made')
        /\ made'[g].m = made[g].m /\ made'[g].n = made[g].n
        /\ \A k \in 1..Len(made[g].data) :
              k \in 1..Len(made'[g].data) /\ made'[g].data[k] = made[g].data[k]

\* A place in a group stays one
LEMMA InsideKept ==
    ASSUME GroupsOK, GroupsOK', Grown, NEW g \in 1..Len(made), NEW i \in Nat, Inside(g, i)
    PROVE  g \in 1..Len(made') /\ made'[g].m = made[g].m /\ Inside(g, i)'
<1>1. g \in 1..Len(made') /\ made'[g].m = made[g].m /\ made'[g].n = made[g].n
  BY DEF Grown
<1>2. /\ Len(made[g].data) \in Nat /\ Len(made[g].data) <= made[g].m /\ made[g].m \in Nat
      /\ made[g].n \in Nat
  BY GroupBounds
<1>3. Len(made'[g].data) \in Nat /\ Len(made'[g].data) <= made'[g].m
  BY <1>1, ShardBoundsNext DEF Bounded
<1>4. Len(made[g].data) <= Len(made'[g].data)
  <2>1. CASE Len(made[g].data) = 0
    BY <1>3, <2>1
  <2>2. CASE Len(made[g].data) # 0
    <3>1. Len(made[g].data) \in 1..Len(made[g].data)
      BY <1>2, <2>2
    <3>2. Len(made[g].data) \in 1..Len(made'[g].data)
      BY <3>1 DEF Grown
    <3> QED BY <3>2
  <2> QED BY <2>1, <2>2
<1> QED BY <1>1, <1>2, <1>3, <1>4 DEF Inside

\* What send() does to the groups when it makes the packet p with the frames f:
\* none is filled, the open one is, or a new one
NoGroupFed(p) ==
    /\ group = NoGroup /\ p.gid = 0
    /\ made' = made /\ group_acked' = group_acked /\ group' = NoGroup /\ encoded' = <<>>
OpenGroupFed(p, g) ==
    /\ group # NoGroup /\ g = [group EXCEPT !.next = @ + 1]
    /\ p.gid = g.gid /\ p.index = g.next - 1
    /\ made' = [made EXCEPT ![g.gid].data = Append(@, Frames(p))]
    /\ group_acked' = group_acked
    /\ group' = IF Full(g) THEN NoGroup ELSE g
    /\ encoded' = IF Full(g) THEN Encoded(g) ELSE <<>>
NewGroupFed(p, g, s) ==
    /\ group = NoGroup /\ g = [gid |-> Len(made) + 1, m |-> s[1], n |-> s[2], next |-> 1]
    /\ p.gid = g.gid /\ p.index = g.next - 1
    /\ made' = Append(made, [m |-> g.m, n |-> g.n, data |-> <<Frames(p)>>])
    /\ group_acked' = Append(group_acked, {})
    /\ group' = IF Full(g) THEN NoGroup ELSE g
    /\ encoded' = IF Full(g) THEN Encoded(g) ELSE <<>>

LEMMA DataCases ==
    ASSUME SendData
    PROVE  \E u \in work, acks \in {{}, Flat(a_need_ack)} : \E p :
             /\ Transmit(p) /\ a_next < MaxPn /\ work' = work \ {u}
             /\ p = [pn |-> a_next, unit |-> u, acks |-> acks, gid |-> p.gid, index |-> p.index]
             /\ \/ NoGroupFed(p) /\ p.index = 0
                \/ \E g : OpenGroupFed(p, g)
                \/ \E g, s : s \in Shapes /\ NewGroupFed(p, g, s)
<1>1. PICK u \in work, s \in Redundancies(group # NoGroup) :
         LET open == group # NoGroup
             acks == IF a_next % AckRatio = 0 THEN Flat(a_need_ack) ELSE {}
             frames == [unit |-> u, acks |-> acks]
             gid == Len(made) + 1
             g == IF open THEN [group EXCEPT !.next = @ + 1]
                  ELSE [gid |-> gid, m |-> s[1], n |-> s[2], next |-> 1]
             grouped == open \/ s # <<0, 0>>
         IN
         /\ work' = work \ {u}
         /\ Transmit([pn |-> a_next, unit |-> u, acks |-> acks,
                      gid |-> IF grouped THEN g.gid ELSE 0,
                      index |-> IF grouped THEN g.next - 1 ELSE 0])
         /\ made' = IF ~grouped THEN made
                    ELSE IF open THEN [made EXCEPT ![g.gid].data = Append(@, frames)]
                    ELSE Append(made, [m |-> g.m, n |-> g.n, data |-> <<frames>>])
         /\ group_acked' = IF grouped /\ ~open THEN Append(group_acked, {}) ELSE group_acked
         /\ group' = IF ~grouped \/ Full(g) THEN NoGroup ELSE g
         /\ encoded' = IF grouped /\ Full(g) THEN Encoded(g) ELSE <<>>
  BY Zenon DEF SendData
<1> DEFINE open == group # NoGroup
           acks == IF a_next % AckRatio = 0 THEN Flat(a_need_ack) ELSE {}
           g == IF open THEN [group EXCEPT !.next = @ + 1]
                ELSE [gid |-> Len(made) + 1, m |-> s[1], n |-> s[2], next |-> 1]
           grouped == open \/ s # <<0, 0>>
           p == [pn |-> a_next, unit |-> u, acks |-> acks,
                 gid |-> IF grouped THEN g.gid ELSE 0,
                 index |-> IF grouped THEN g.next - 1 ELSE 0]
<1>2. Frames(p) = [unit |-> u, acks |-> acks]
  BY DEF Frames
<1>3. p = [pn |-> a_next, unit |-> u, acks |-> acks, gid |-> p.gid, index |-> p.index]
  OBVIOUS
<1>4. acks \in {{}, Flat(a_need_ack)} /\ a_next < MaxPn
  BY DEF SendData
<1>5. p.gid = (IF grouped THEN g.gid ELSE 0) /\ p.index = (IF grouped THEN g.next - 1 ELSE 0)
  OBVIOUS
<1> DEFINE frames == [unit |-> u, acks |-> acks]
<1>6. /\ work' = work \ {u}
      /\ Transmit(p)
      /\ made' = IF ~grouped THEN made
                 ELSE IF open THEN [made EXCEPT ![g.gid].data = Append(@, frames)]
                 ELSE Append(made, [m |-> g.m, n |-> g.n, data |-> <<frames>>])
      /\ group_acked' = IF grouped /\ ~open THEN Append(group_acked, {}) ELSE group_acked
      /\ group' = IF ~grouped \/ Full(g) THEN NoGroup ELSE g
      /\ encoded' = IF grouped /\ Full(g) THEN Encoded(g) ELSE <<>>
  BY <1>1, Zenon
<1>7. open => g = [group EXCEPT !.next = @ + 1]
  OBVIOUS
<1>8. ~open => g = [gid |-> Len(made) + 1, m |-> s[1], n |-> s[2], next |-> 1]
  OBVIOUS
<1>9. frames = Frames(p)
  BY <1>2
<1>10. ~open /\ s # <<0, 0>> => s \in Shapes
  BY DEF Redundancies
<1>11. open <=> group # NoGroup
  OBVIOUS
<1>12. grouped <=> open \/ s # <<0, 0>>
  OBVIOUS
<1>13. u \in work
  OBVIOUS
<1> HIDE DEF open, acks, g, grouped, p, frames
<1>14. CASE ~grouped
  <2>1. NoGroupFed(p) /\ p.index = 0
    BY ONLY <1>5, <1>6, <1>11, <1>12, <1>14 DEF NoGroupFed
  <2> QED BY ONLY <1>3, <1>4, <1>6, <1>13, <2>1
<1>15. CASE open
  <2>1. OpenGroupFed(p, g)
    BY ONLY <1>5, <1>6, <1>7, <1>9, <1>11, <1>12, <1>15 DEF OpenGroupFed
  <2> QED BY ONLY <1>3, <1>4, <1>6, <1>13, <2>1
<1>16. CASE ~open /\ s # <<0, 0>>
  <2>1. NewGroupFed(p, g, s)
    BY ONLY <1>5, <1>6, <1>8, <1>9, <1>11, <1>12, <1>16 DEF NewGroupFed
  <2> QED BY ONLY <1>3, <1>4, <1>6, <1>10, <1>13, <1>16, <2>1
<1> QED BY ONLY <1>12, <1>14, <1>15, <1>16

\* The repair packets of a group: distinct places after its data shards
LEMMA EncodedIs ==
    ASSUME NEW g, g.gid \in Nat, g.m \in Nat, g.n \in Nat
    PROVE  /\ Encoded(g) \in Seq(Nat \X Nat) /\ Len(Encoded(g)) = g.n
           /\ \A k \in 1..g.n : /\ Encoded(g)[k][1] = g.gid /\ g.m <= Encoded(g)[k][2]
                                /\ Encoded(g)[k][2] < g.m + g.n
           /\ \A j, k \in 1..g.n : Encoded(g)[j] = Encoded(g)[k] => j = k
<1>1. Encoded(g) = [i \in 1..g.n |-> <<g.gid, g.m + i - 1>>]
  BY DEF Encoded
<1>2. \A i \in 1..g.n : <<g.gid, g.m + i - 1>> \in Nat \X Nat
  OBVIOUS
<1>3. Encoded(g) \in Seq(Nat \X Nat) /\ Len(Encoded(g)) = g.n
  BY <1>1, <1>2
<1>4. \A k \in 1..g.n : Encoded(g)[k] = <<g.gid, g.m + k - 1>>
  BY <1>1
<1>5. \A k \in 1..g.n : Encoded(g)[k][1] = g.gid /\ Encoded(g)[k][2] = g.m + k - 1
  BY <1>4
<1>6. \A k \in 1..g.n : k \in Nat /\ k >= 1 /\ k <= g.n
  OBVIOUS
<1>7. \A k \in 1..g.n : /\ Encoded(g)[k][1] = g.gid /\ g.m <= Encoded(g)[k][2]
                         /\ Encoded(g)[k][2] < g.m + g.n
  BY <1>5, <1>6
<1>8. \A j, k \in 1..g.n : Encoded(g)[j] = Encoded(g)[k] => j = k
  BY <1>5, <1>6
<1> QED BY ONLY <1>3, <1>7, <1>8

\* What the packet p then says about its group
FedEffect(p) ==
    /\ Grown
    /\ group_acked' \in Seq(SUBSET Nums) /\ Len(group_acked') = Len(made')
    /\ \A g \in 1..Len(made') :
          (g \in 1..Len(made) /\ group_acked'[g] = group_acked[g]) \/ group_acked'[g] = {}
    /\ p.gid # 0 =>
         /\ p.gid \in 1..Len(made') /\ p.index \in Nat
         /\ p.index < Len(made'[p.gid].data) /\ p.index < made'[p.gid].m
         /\ made'[p.gid].data[p.index + 1] = Frames(p)
         /\ p.gid \in 1..Len(made) =>
              /\ p.index = Len(made[p.gid].data)
              /\ Len(made[p.gid].data) < made[p.gid].m
    /\ \A k \in 1..Len(encoded') :
          p.gid # 0 /\ encoded'[k][1] = p.gid /\ made'[p.gid].m <= encoded'[k][2]

LEMMA FedOpen ==
    ASSUME GroupsOK, Types, NEW p, Frames(p) \in Frame, encoded = <<>>, NEW g, OpenGroupFed(p, g)
    PROVE  FedEffect(p) /\ GroupsOK'
<1> DEFINE x == group.gid
<1>1. /\ group # NoGroup /\ group \in [gid : Nat, m : Nat, n : Nat, next : Nat]
      /\ x = Len(made) /\ Len(made) > 0 /\ group.m = made[x].m /\ group.n = made[x].n
      /\ group.next = Len(made[x].data) /\ group.next < group.m
      /\ made \in Seq(Group)
  BY DEF GroupsOK, OpenGroupFed
<1>2. /\ g.gid = x /\ g.m = group.m /\ g.n = group.n /\ g.next = group.next + 1
      /\ g \in [gid : Nat, m : Nat, n : Nat, next : Nat]
  BY <1>1 DEF OpenGroupFed
<1>3. x \in 1..Len(made) /\ Len(made) \in Nat
  BY <1>1
<1>4. made[x] \in Group
  BY ONLY <1>1, <1>3
<1> DEFINE D == Append(made[x].data, Frames(p))
<1>5. made' = [made EXCEPT ![x] = [made[x] EXCEPT !.data = D]]
  <2>1. made' = [made EXCEPT ![g.gid].data = Append(@, Frames(p))]
    BY DEF OpenGroupFed
  <2> QED BY ONLY <1>2, <2>1
<1>6. /\ D \in Seq(Frame) /\ Len(D) = Len(made[x].data) + 1 /\ D[Len(made[x].data) + 1] = Frames(p)
      /\ \A k \in 1..Len(made[x].data) : D[k] = made[x].data[k]
      /\ Len(made[x].data) \in Nat
  BY <1>4 DEF Group
<1>7. p.gid = x /\ p.index = group.next /\ group_acked' = group_acked
  BY <1>1, <1>2 DEF OpenGroupFed
<1>8. /\ group' = IF Full(g) THEN NoGroup ELSE g
      /\ encoded' = IF Full(g) THEN Encoded(g) ELSE <<>>
      /\ Full(g) <=> g.next >= g.m
  BY DEF OpenGroupFed, Full
<1>9. \A y \in 1..Len(made) : y # x => Len(made[y].data) = made[y].m
  BY DEF GroupsOK
<1> HIDE DEF D, x
<1>10. /\ made' \in Seq(Group) /\ Len(made') = Len(made)
       /\ made'[x].m = made[x].m /\ made'[x].n = made[x].n /\ made'[x].data = D
       /\ \A y \in 1..Len(made) : y # x => made'[y] = made[y]
  <2>1. [made[x] EXCEPT !.data = D] \in Group
        /\ [made[x] EXCEPT !.data = D].m = made[x].m /\ [made[x] EXCEPT !.data = D].n = made[x].n
        /\ [made[x] EXCEPT !.data = D].data = D
    BY <1>4, <1>6 DEF Group
  <2> QED BY ONLY <1>1, <1>3, <1>5, <2>1
<1>11. /\ \A k \in 1..Len(encoded') : encoded'[k][1] = x /\ g.m <= encoded'[k][2]
                                       /\ encoded'[k][2] < g.m + g.n
       /\ encoded' \in Seq(Nat \X Nat)
       /\ \A j, k \in 1..Len(encoded') : encoded'[j] = encoded'[k] => j = k
       /\ encoded' # <<>> => Full(g)
  <2>1. CASE Full(g)
    <3>1. encoded' = Encoded(g) /\ g.gid \in Nat /\ g.m \in Nat /\ g.n \in Nat
      BY <1>2, <1>8, <2>1
    <3> QED BY ONLY <1>2, <2>1, <3>1, EncodedIs
  <2>2. CASE ~Full(g)
    <3>1. encoded' = <<>>
      BY <1>8, <2>2
    <3> QED BY ONLY <3>1
  <2> QED BY <2>1, <2>2
<1>12. Grown
  <2> SUFFICES ASSUME NEW y \in 1..Len(made)
               PROVE  /\ y \in 1..Len(made')
                      /\ made'[y].m = made[y].m /\ made'[y].n = made[y].n
                      /\ \A k \in 1..Len(made[y].data) :
                            k \in 1..Len(made'[y].data) /\ made'[y].data[k] = made[y].data[k]
    BY DEF Grown
  <2>1. CASE y = x
    BY <1>6, <1>10, <2>1
  <2>2. CASE y # x
    BY <1>10, <2>2
  <2> QED BY <2>1, <2>2
<1>13. FedEffect(p)
  <2>1. group_acked \in Seq(SUBSET Nums) /\ Len(group_acked) = Len(made)
    BY DEF Types
  <2>2. /\ p.gid \in 1..Len(made') /\ p.index \in Nat
        /\ p.index < Len(made'[p.gid].data) /\ p.index < made'[p.gid].m
        /\ made'[p.gid].data[p.index + 1] = Frames(p)
        /\ p.index = Len(made[p.gid].data) /\ Len(made[p.gid].data) < made[p.gid].m
    BY <1>1, <1>3, <1>6, <1>7, <1>10
  <2>3. p.gid # 0
    BY <1>3, <1>7
  <2>4. made'[p.gid].m = g.m
    BY <1>1, <1>2, <1>7, <1>10
  <2> QED BY <1>7, <1>10, <1>11, <1>12, <2>1, <2>2, <2>3, <2>4 DEF FedEffect
<1>14. GroupsOK'
  <2>1. /\ group' \in [gid : Nat, m : Nat, n : Nat, next : Nat]
        /\ group' = NoGroup \/ group' = g
        /\ group' = g /\ group' # NoGroup => g.next < g.m
    <3>1. NoGroup \in [gid : Nat, m : Nat, n : Nat, next : Nat] /\ NoGroup.m = 0 /\ NoGroup.next = 0
      BY DEF NoGroup
    <3>2. CASE Full(g)
      BY <1>8, <3>1, <3>2
    <3>3. CASE ~Full(g)
      <4>1. group' = g /\ g.next < g.m
        BY <1>2, <1>8, <3>3
      <4> QED BY <1>2, <4>1
    <3> QED BY <3>2, <3>3
  <2>2. group' # NoGroup =>
         /\ group'.gid = Len(made') /\ Len(made') > 0
         /\ group'.m = made'[group'.gid].m /\ group'.n = made'[group'.gid].n
         /\ group'.next = Len(made'[group'.gid].data) /\ group'.next < group'.m
    BY <1>1, <1>2, <1>3, <1>6, <1>10, <2>1
  <2>3. \A y \in 1..Len(made') : y # group'.gid => Len(made'[y].data) = made'[y].m
    <3> SUFFICES ASSUME NEW y \in 1..Len(made), y # group'.gid PROVE Len(made'[y].data) = made'[y].m
      BY <1>10
    <3>1. CASE y # x
      BY <1>9, <1>10, <3>1
    <3>2. CASE y = x
      <4>1. Full(g)
        BY <1>2, <1>8, <3>2
      <4> QED BY <1>1, <1>2, <1>6, <1>8, <1>10, <3>2, <4>1
    <3> QED BY <3>1, <3>2
  <2>4. encoded' # <<>> => group' = NoGroup
    BY <1>8, <1>11
  <2>5. \A k \in 1..Len(encoded') :
         /\ encoded'[k][1] \in 1..Len(made')
         /\ made'[encoded'[k][1]].m <= encoded'[k][2]
         /\ encoded'[k][2] < made'[encoded'[k][1]].m + made'[encoded'[k][1]].n
    BY <1>1, <1>2, <1>3, <1>10, <1>11
  <2> QED BY ONLY <1>10, <1>11, <2>1, <2>2, <2>3, <2>4, <2>5 DEF GroupsOK
<1> QED BY <1>13, <1>14

LEMMA FedNew ==
    ASSUME GroupsOK, Types, NEW p, Frames(p) \in Frame, encoded = <<>>,
           NEW g, NEW s, s \in Shapes, NewGroupFed(p, g, s)
    PROVE  FedEffect(p) /\ GroupsOK'
<1> DEFINE x == Len(made) + 1
           G == [m |-> g.m, n |-> g.n, data |-> <<Frames(p)>>]
<1>1. made \in Seq(Group) /\ Len(made) \in Nat /\ group = NoGroup
  BY DEF GroupsOK, NewGroupFed
<1>2. s[1] \in Nat \ {0} /\ s[2] \in Nat \ {0}
  BY ExchangeConstants
<1>3. /\ g.gid = x /\ g.m = s[1] /\ g.n = s[2] /\ g.next = 1
      /\ g \in [gid : Nat, m : Nat, n : Nat, next : Nat]
      /\ g.m \in Nat \ {0} /\ g.n \in Nat \ {0}
  BY <1>1, <1>2 DEF NewGroupFed
<1>4. /\ G \in Group /\ G.m = g.m /\ G.n = g.n /\ G.data = <<Frames(p)>>
      /\ Len(G.data) = 1 /\ G.data[1] = Frames(p)
  <2>1. <<Frames(p)>> \in Seq(Frame) /\ Len(<<Frames(p)>>) = 1 /\ <<Frames(p)>>[1] = Frames(p)
    OBVIOUS
  <2> HIDE DEF x
  <2> QED BY <1>3, <2>1 DEF Group
<1>5. made' = Append(made, G) /\ p.gid = x /\ p.index = 0 /\ group_acked' = Append(group_acked, {})
  BY <1>1, <1>3 DEF NewGroupFed
<1>6. /\ group' = IF Full(g) THEN NoGroup ELSE g
      /\ encoded' = IF Full(g) THEN Encoded(g) ELSE <<>>
      /\ Full(g) <=> g.next >= g.m
  BY DEF NewGroupFed, Full
<1>7. \A y \in 1..Len(made) : Len(made[y].data) = made[y].m
  BY <1>1 DEF GroupsOK, NoGroup
<1> HIDE DEF G
<1>8. /\ made' \in Seq(Group) /\ Len(made') = x /\ made'[x] = G
      /\ \A y \in 1..Len(made) : y \in 1..Len(made') /\ made'[y] = made[y]
  BY ONLY <1>1, <1>4, <1>5
<1>9. \A y \in 1..Len(made') : y \in 1..Len(made) \/ y = x
  BY <1>1, <1>8
<1>10. /\ \A k \in 1..Len(encoded') : encoded'[k][1] = x /\ g.m <= encoded'[k][2]
                                       /\ encoded'[k][2] < g.m + g.n
       /\ encoded' \in Seq(Nat \X Nat)
       /\ \A j, k \in 1..Len(encoded') : encoded'[j] = encoded'[k] => j = k
       /\ encoded' # <<>> => Full(g)
  <2>1. CASE Full(g)
    <3>1. encoded' = Encoded(g) /\ g.gid \in Nat /\ g.m \in Nat /\ g.n \in Nat
      BY <1>3, <1>6, <2>1
    <3> QED BY ONLY <1>3, <2>1, <3>1, EncodedIs
  <2>2. CASE ~Full(g)
    <3>1. encoded' = <<>>
      BY <1>6, <2>2
    <3> QED BY ONLY <3>1
  <2> QED BY <2>1, <2>2
<1>11. x \in Nat /\ x \notin 1..Len(made) /\ x # 0 /\ x \in 1..x
  BY <1>1
<1> HIDE DEF x
<1>12. /\ made'[x].m = g.m /\ made'[x].n = g.n /\ Len(made'[x].data) = 1
       /\ made'[x].data[1] = Frames(p) /\ x \in 1..Len(made')
  BY ONLY <1>4, <1>8, <1>11
<1>13. Grown
  <2> SUFFICES ASSUME NEW y \in 1..Len(made)
               PROVE  /\ y \in 1..Len(made')
                      /\ made'[y].m = made[y].m /\ made'[y].n = made[y].n
                      /\ \A k \in 1..Len(made[y].data) :
                            k \in 1..Len(made'[y].data) /\ made'[y].data[k] = made[y].data[k]
    BY DEF Grown
  <2> QED BY <1>8
<1>14. FedEffect(p)
  <2>1. group_acked \in Seq(SUBSET Nums) /\ Len(group_acked) = Len(made)
    BY DEF Types
  <2>2. /\ group_acked' \in Seq(SUBSET Nums) /\ Len(group_acked') = Len(group_acked) + 1
        /\ \A y \in 1..Len(group_acked) : group_acked'[y] = group_acked[y]
        /\ group_acked'[Len(group_acked) + 1] = {}
    BY ONLY <1>5, <2>1
  <2>3. /\ group_acked' \in Seq(SUBSET Nums) /\ Len(group_acked') = Len(made')
        /\ \A y \in 1..Len(made') :
              (y \in 1..Len(made) /\ group_acked'[y] = group_acked[y]) \/ group_acked'[y] = {}
    BY ONLY <1>8, <1>9, <2>1, <2>2 DEF x
  <2>4. /\ p.gid \in 1..Len(made') /\ p.index \in Nat /\ p.gid # 0
        /\ p.index < Len(made'[p.gid].data) /\ p.index < made'[p.gid].m
        /\ made'[p.gid].data[p.index + 1] = Frames(p)
        /\ p.gid \notin 1..Len(made) /\ made'[p.gid].m = g.m
    <3>1. p.index + 1 = 1
      BY <1>5
    <3> QED BY ONLY <1>3, <1>5, <1>11, <1>12, <3>1
  <2>5. \A k \in 1..Len(encoded') :
          p.gid # 0 /\ encoded'[k][1] = p.gid /\ made'[p.gid].m <= encoded'[k][2]
    BY <1>5, <1>10, <2>4
  <2> QED BY ONLY <1>13, <2>3, <2>4, <2>5 DEF FedEffect
<1>15. GroupsOK'
  <2>1. /\ group' \in [gid : Nat, m : Nat, n : Nat, next : Nat]
        /\ group' = NoGroup \/ group' = g
        /\ group' = g /\ group' # NoGroup => g.next < g.m
    <3>1. NoGroup \in [gid : Nat, m : Nat, n : Nat, next : Nat] /\ NoGroup.m = 0 /\ NoGroup.next = 0
      BY DEF NoGroup
    <3>2. CASE Full(g)
      BY <1>6, <3>1, <3>2
    <3>3. CASE ~Full(g)
      <4>1. group' = g /\ g.next < g.m
        BY <1>3, <1>6, <3>3
      <4> QED BY <1>3, <4>1
    <3> QED BY <3>2, <3>3
  <2>2. group' # NoGroup =>
         /\ group'.gid = Len(made') /\ Len(made') > 0
         /\ group'.m = made'[group'.gid].m /\ group'.n = made'[group'.gid].n
         /\ group'.next = Len(made'[group'.gid].data) /\ group'.next < group'.m
    <3> SUFFICES ASSUME group' # NoGroup
                 PROVE  /\ group'.gid = Len(made') /\ Len(made') > 0
                        /\ group'.m = made'[group'.gid].m /\ group'.n = made'[group'.gid].n
                        /\ group'.next = Len(made'[group'.gid].data) /\ group'.next < group'.m
      OBVIOUS
    <3>1. group' = g /\ g.next < g.m
      BY <2>1
    <3>2. g.gid = x /\ g.next = 1 /\ Len(made') = x /\ x > 0
      BY <1>3, <1>8, <1>11
    <3> QED BY ONLY <1>12, <3>1, <3>2
  <2>3. \A y \in 1..Len(made') : y # group'.gid => Len(made'[y].data) = made'[y].m
    <3> SUFFICES ASSUME NEW y \in 1..Len(made'), y # group'.gid PROVE Len(made'[y].data) = made'[y].m
      OBVIOUS
    <3>1. CASE y \in 1..Len(made)
      BY <1>7, <1>8, <3>1
    <3>2. CASE y = x
      <4>1. Full(g)
        BY <1>3, <1>6, <3>2
      <4>2. g.m = 1
        BY ONLY <1>3, <1>6, <4>1
      <4> QED BY ONLY <1>12, <3>2, <4>2
    <3> QED BY <1>9, <3>1, <3>2
  <2>4. encoded' # <<>> => group' = NoGroup
    BY <1>6, <1>10
  <2>5. \A k \in 1..Len(encoded') :
         /\ encoded'[k][1] \in 1..Len(made')
         /\ made'[encoded'[k][1]].m <= encoded'[k][2]
         /\ encoded'[k][2] < made'[encoded'[k][1]].m + made'[encoded'[k][1]].n
    BY <1>4, <1>8, <1>10, <1>11
  <2> QED BY ONLY <1>8, <1>10, <2>1, <2>2, <2>3, <2>4, <2>5 DEF GroupsOK
<1> QED BY <1>14, <1>15

LEMMA FedNone ==
    ASSUME GroupsOK, Types, NEW p, NoGroupFed(p)
    PROVE  FedEffect(p) /\ GroupsOK'
<1>1. /\ made' = made /\ group' = group /\ encoded' = <<>> /\ p.gid = 0 /\ group = NoGroup
      /\ group_acked' = group_acked
  BY DEF NoGroupFed
<1>2. Grown
  BY <1>1 DEF Grown
<1>3. group_acked \in Seq(SUBSET Nums) /\ Len(group_acked) = Len(made)
  BY DEF Types
<1>4. FedEffect(p)
  BY <1>1, <1>2, <1>3 DEF FedEffect
<1>5. <<>> \in Seq(Nat \X Nat) /\ Len(<<>>) = 0
  OBVIOUS
<1>6. GroupsOK'
  BY <1>1, <1>5 DEF GroupsOK
<1> QED BY <1>4, <1>6

-----------------------------------------------------------------------------
(* A sends *)

\* A fresh packet of a group, or of none
LEMMA NewPacket ==
    ASSUME Inv, GroupsOK', Grown, NEW p \in DataPacket,
           sent' = sent \cup {p}, to_b' = to_b \cup {p}, p.pn = a_next, a_next' = a_next + 1,
           p.gid # 0 =>
              /\ p.gid \in 1..Len(made') /\ Inside(p.gid, p.index)'
              /\ p.index < made'[p.gid].m => made'[p.gid].data[p.index + 1] = Frames(p)
              /\ p.index >= made'[p.gid].m => p.unit = NoUnit,
           p.gid = 0 => p.unit \in Units,
           UNCHANGED <<recorded, processed, shards, refusals>>
    PROVE  PacketsOK' /\ ShardsOK' /\ ProcessedOK'
<1>1. Flight' = Flight \cup {p} /\ a_next \in Nat
  BY DEF Flight, Inv, Types
<1>2. Bounded /\ GroupsOK
  BY ShardBounds DEF Inv
<1>3. ASSUME NEW g \in 1..Len(made), NEW i \in Nat, Inside(g, i)
      PROVE  /\ g \in 1..Len(made') /\ made'[g].m = made[g].m /\ Inside(g, i)'
             /\ i < made[g].m => i + 1 \in 1..Len(made[g].data)
                                 /\ made'[g].data[i + 1] = made[g].data[i + 1]
  <2>1. g \in 1..Len(made') /\ made'[g].m = made[g].m /\ Inside(g, i)'
    BY <1>2, <1>3, InsideKept
  <2>2. i < made[g].m => i + 1 \in 1..Len(made[g].data)
    BY <1>2, <1>3 DEF Inside, Bounded
  <2> QED BY <2>1, <2>2 DEF Grown
<1>4. PacketsOK'
  <2>1. ASSUME NEW q \in Flight
        PROVE  /\ q.pn < a_next'
               /\ q.gid # 0 =>
                    /\ q.gid \in 1..Len(made') /\ Inside(q.gid, q.index)'
                    /\ q.index < made'[q.gid].m => made'[q.gid].data[q.index + 1] = Frames(q)
                    /\ q.index >= made'[q.gid].m => q.unit = NoUnit
               /\ q.gid = 0 => q.unit \in Units
    <3>1. /\ q.pn < a_next /\ q.pn \in Int /\ q.index \in Nat
          /\ q.gid # 0 =>
               /\ q.gid \in 1..Len(made) /\ Inside(q.gid, q.index)
               /\ q.index < made[q.gid].m => made[q.gid].data[q.index + 1] = Frames(q)
               /\ q.index >= made[q.gid].m => q.unit = NoUnit
          /\ q.gid = 0 => q.unit \in Units
      BY DEF Inv, PacketsOK, Types, DataPacket, Nums
    <3>2. q.pn < a_next'
      BY <1>1, <3>1
    <3>3. CASE q.gid # 0
      <4>1. /\ q.gid \in 1..Len(made') /\ made'[q.gid].m = made[q.gid].m /\ Inside(q.gid, q.index)'
            /\ q.index < made[q.gid].m => made'[q.gid].data[q.index + 1] = made[q.gid].data[q.index + 1]
        BY <1>3, <3>1, <3>3
      <4> QED BY ONLY <3>1, <3>2, <3>3, <4>1
    <3>4. CASE q.gid = 0
      BY ONLY <3>1, <3>2, <3>4
    <3> QED BY <3>3, <3>4
  <2>2. p.pn < a_next'
    BY <1>1
  <2>3. \A q, r \in Flight' : q.pn = r.pn => q = r
    <3>1. \A q, r \in Flight : q.pn = r.pn => q = r
      BY DEF Inv, PacketsOK
    <3>2. \A q \in Flight : q.pn # p.pn
      BY <1>1 DEF Inv, PacketsOK
    <3> QED BY <1>1, <3>1, <3>2
  <2>4. \A n \in recorded' : n < a_next'
    BY <1>1 DEF Inv, PacketsOK, Types, Nums
  <2>5. \A q \in Flight' :
               /\ q.pn < a_next'
               /\ q.gid # 0 =>
                    /\ q.gid \in 1..Len(made') /\ Inside(q.gid, q.index)'
                    /\ q.index < made'[q.gid].m => made'[q.gid].data[q.index + 1] = Frames(q)
                    /\ q.index >= made'[q.gid].m => q.unit = NoUnit
               /\ q.gid = 0 => q.unit \in Units
    BY <1>1, <2>1, <2>2
  <2> QED BY <2>3, <2>4, <2>5 DEF PacketsOK
<1>5. ShardsOK'
  <2>1. \A g \in 1..Len(made) : g \in 1..Len(made') /\ made'[g].m = made[g].m
    BY DEF Grown
  <2>2. DOMAIN shards \subseteq 1..Len(made')
    BY <2>1 DEF Inv, ShardsOK
  <2>3. ASSUME NEW g \in DOMAIN shards
        PROVE  /\ shards[g] \subseteq Nat /\ \A i \in shards[g] : Inside(g, i)'
               /\ Cardinality(shards[g]) >= made'[g].m => 0..(made'[g].m - 1) \subseteq shards[g]
               /\ g \notin refusals => \A i \in shards[g] :
                    i < made'[g].m => processed[made'[g].data[i + 1].unit] > 0
    <3>1. /\ shards[g] \subseteq Nat /\ \A i \in shards[g] : Inside(g, i)
          /\ Cardinality(shards[g]) >= made[g].m => 0..(made[g].m - 1) \subseteq shards[g]
          /\ g \notin refusals => \A i \in shards[g] :
               i < made[g].m => processed[made[g].data[i + 1].unit] > 0
          /\ g \in 1..Len(made)
      BY DEF Inv, ShardsOK
    <3>2. \A i \in shards[g] : /\ Inside(g, i)' /\ made'[g].m = made[g].m
                               /\ i < made[g].m => made'[g].data[i + 1] = made[g].data[i + 1]
      BY <1>3, <3>1
    <3>3. made'[g].m = made[g].m
      BY <2>1, <3>1
    <3> QED BY ONLY <3>1, <3>2, <3>3
  <2> QED BY <2>2, <2>3 DEF ShardsOK
<1>6. ProcessedOK'
  <2>1. p.pn \notin recorded
    BY <1>1 DEF Inv, PacketsOK
  <2> QED BY <1>1, <2>1 DEF Inv, ProcessedOK
<1> QED BY <1>4, <1>5, <1>6

\* What A does to its own packets leaves B's side alone
LEMMA SideB ==
    ASSUME Inv, UNCHANGED <<bVars, to_a, histVars>>,
           \A g \in DOMAIN group_acked' : group_acked'[g] \subseteq recorded
    PROVE  WindowOK' /\ AcksOK' /\ Kept' /\ Acks' = Acks
<1>1. UNCHANGED <<b_need_ack, b_window, b_elicited, b_sent, to_a, recorded, handled, told, until>>
  BY DEF bVars, histVars
<1>2. Acks' = Acks /\ Flat(b_need_ack)' = Flat(b_need_ack)
  BY <1>1 DEF Acks
<1>3. WindowOK'
  BY <1>1 DEF Inv, WindowOK
<1>4. Kept'
  BY <1>1, <1>2 DEF Inv, Kept
<1>5. AcksOK'
  BY <1>1, <1>2 DEF Inv, AcksOK
<1> QED BY <1>2, <1>3, <1>4, <1>5

\* A repair packet
LEMMA SendRepairStep ==
    ASSUME Inv, SendRepair
    PROVE  Inv'
<1> PICK p : p = [pn |-> a_next, unit |-> NoUnit, acks |-> {}, gid |-> Head(encoded)[1],
                  index |-> Head(encoded)[2]]
  OBVIOUS
<1>1. /\ Transmit(p) /\ a_next < MaxPn /\ encoded # <<>> /\ encoded' = Tail(encoded)
      /\ UNCHANGED <<work, group, made, group_acked, settled, a_need_ack, a_window, bVars,
                     to_a, copies, losses, histVars>>
  BY DEF SendRepair
<1>2. encoded \in Seq(Nat \X Nat) /\ 1 \in 1..Len(encoded) /\ Head(encoded) = encoded[1]
  BY <1>1 DEF Inv, GroupsOK
<1>3. /\ encoded[1][1] \in 1..Len(made) /\ encoded[1][2] \in Nat
      /\ made[encoded[1][1]].m <= encoded[1][2]
      /\ encoded[1][2] < made[encoded[1][1]].m + made[encoded[1][1]].n
      /\ group = NoGroup
  BY <1>1, <1>2 DEF Inv, GroupsOK
<1>4. /\ encoded' \in Seq(Nat \X Nat) /\ Len(encoded') = Len(encoded) - 1 /\ Len(encoded) \in Nat
      /\ \A k \in 1..Len(encoded') : encoded'[k] = encoded[k + 1] /\ k + 1 \in 1..Len(encoded)
  BY <1>1, <1>2
<1>5. GroupsOK'
  <2>1. \A k \in 1..Len(encoded') :
         /\ encoded'[k][1] \in 1..Len(made)
         /\ made[encoded'[k][1]].m <= encoded'[k][2]
         /\ encoded'[k][2] < made[encoded'[k][1]].m + made[encoded'[k][1]].n
    BY <1>4 DEF Inv, GroupsOK
  <2>2. \A j, k \in 1..Len(encoded') : encoded'[j] = encoded'[k] => j = k
    <3>1. \A j, k \in 1..Len(encoded) : encoded[j] = encoded[k] => j = k
      BY DEF Inv, GroupsOK
    <3> SUFFICES ASSUME NEW j \in 1..Len(encoded'), NEW k \in 1..Len(encoded'),
                        encoded'[j] = encoded'[k]
                 PROVE  j = k
      OBVIOUS
    <3>2. encoded[j + 1] = encoded[k + 1] /\ j + 1 \in 1..Len(encoded) /\ k + 1 \in 1..Len(encoded)
      BY <1>4
    <3>3. j + 1 = k + 1
      BY <3>1, <3>2
    <3> QED BY <3>3
  <2> QED BY <1>1, <1>3, <1>4, <2>1, <2>2 DEF Inv, GroupsOK
<1>6. Grown
  BY <1>1 DEF Grown
<1>7. a_next \in Nat /\ a_next \in Nums /\ a_next + 1 \in 0..MaxPn
  <2>1. a_next \in 0..MaxPn /\ a_next < MaxPn /\ MaxPn \in Nat
    BY <1>1, ExchangeConstants DEF Inv, Types
  <2> QED BY ONLY <2>1 DEF Nums
<1>8. p \in DataPacket /\ p.pn = a_next /\ p.gid = encoded[1][1] /\ p.index = encoded[1][2]
      /\ p.unit = NoUnit
  BY <1>2, <1>3, <1>7 DEF DataPacket
<1>9. sent' = sent \cup {p} /\ to_b' = to_b \cup {p} /\ a_next' = a_next + 1
  BY <1>1 DEF Transmit
<1>10. UNCHANGED <<recorded, processed, shards, refusals>>
  BY <1>1 DEF bVars, histVars
<1>11. /\ p.gid # 0 /\ p.gid \in 1..Len(made') /\ Inside(p.gid, p.index)'
       /\ ~(p.index < made'[p.gid].m)
  <2>1. p.gid # group.gid => Len(made[p.gid].data) = made[p.gid].m
    BY <1>3, <1>8 DEF Inv, GroupsOK
  <2>2. p.gid # group.gid
    BY <1>3, <1>8 DEF NoGroup
  <2>3. made[p.gid].m \in Nat
    BY <1>3, <1>8, ShardBounds DEF Inv, Bounded
  <2>4. Inside(p.gid, p.index)'
    BY <1>1, <1>3, <1>8, <2>1, <2>2 DEF Inside
  <2> QED BY <1>1, <1>3, <1>8, <2>3, <2>4
<1>12. PacketsOK' /\ ShardsOK' /\ ProcessedOK'
  BY ONLY Inv, <1>5, <1>6, <1>8, <1>9, <1>10, <1>11, NewPacket
<1>13. WindowOK' /\ AcksOK' /\ Kept' /\ Acks' = Acks
  BY <1>1, SideB DEF Inv, AcksOK
<1>14. Types'
  <2>1. Flight' \subseteq DataPacket
    BY <1>8, <1>9 DEF Flight, Inv, Types
  <2> QED BY <1>1, <1>7, <1>9, <1>13, <2>1 DEF Inv, Types, bVars, histVars
<1> QED BY <1>5, <1>12, <1>13, <1>14 DEF Inv

\* A packet with data
LEMMA SendDataStep ==
    ASSUME Inv, SendData
    PROVE  Inv' /\ \E p \in DataPacket :
             /\ sent' = sent \cup {p} /\ to_b' = to_b \cup {p} /\ p.pn = a_next
             /\ a_next' = a_next + 1 /\ FedEffect(p)
<1>1. PICK u \in work, acks \in {{}, Flat(a_need_ack)} : \E p :
             /\ Transmit(p) /\ a_next < MaxPn /\ work' = work \ {u}
             /\ p = [pn |-> a_next, unit |-> u, acks |-> acks, gid |-> p.gid, index |-> p.index]
             /\ \/ NoGroupFed(p) /\ p.index = 0
                \/ \E g : OpenGroupFed(p, g)
                \/ \E g, s : s \in Shapes /\ NewGroupFed(p, g, s)
  BY DataCases
<1>2. PICK p : /\ Transmit(p) /\ a_next < MaxPn /\ work' = work \ {u}
               /\ p = [pn |-> a_next, unit |-> u, acks |-> acks, gid |-> p.gid, index |-> p.index]
               /\ \/ NoGroupFed(p) /\ p.index = 0
                  \/ \E g : OpenGroupFed(p, g)
                  \/ \E g, s : s \in Shapes /\ NewGroupFed(p, g, s)
  BY <1>1
<1>3. /\ UNCHANGED <<settled, a_need_ack, a_window, bVars, to_a, copies, losses, histVars>>
      /\ encoded = <<>>
  BY DEF SendData
<1>4. u \in Units /\ acks \subseteq AckNums /\ p.pn = a_next /\ p.unit = u /\ p.acks = acks
  <2>1. \A n \in Flat(a_need_ack) : n \in AckNums
    <3> SUFFICES ASSUME NEW n \in Flat(a_need_ack) PROVE n \in AckNums
      OBVIOUS
    <3>1. PICK r \in a_need_ack : n \in r[1]..(r[2] - 1)
      BY FlatIs
    <3>2. r \in (0..MaxAcks) \X (0..MaxAcks)
      BY DEF Inv, Types, Ranges
    <3> QED BY <3>1, <3>2, ExchangeConstants DEF AckNums
  <2>2. u \in Units
    BY DEF Inv, Types
  <2>3. p.pn = a_next /\ p.unit = u /\ p.acks = acks
    BY ONLY <1>2
  <2> QED BY <2>1, <2>2, <2>3
<1>5. Frames(p) = [unit |-> u, acks |-> acks] /\ Frames(p) \in Frame
  BY <1>4 DEF Frames, Frame
<1>6. FedEffect(p) /\ GroupsOK'
  BY <1>2, <1>3, <1>5, FedNone, FedOpen, FedNew DEF Inv
<1>7. a_next \in Nat /\ a_next \in Nums /\ a_next + 1 \in 0..MaxPn
  <2>1. a_next \in 0..MaxPn /\ a_next < MaxPn /\ MaxPn \in Nat
    BY <1>2, ExchangeConstants DEF Inv, Types
  <2> QED BY ONLY <2>1 DEF Nums
<1>8. p.gid = 0 => p.index \in Nat
  <2>1. p.gid # 0 \/ p.index = 0
    <3>1. ASSUME NEW g, OpenGroupFed(p, g) PROVE p.gid # 0
      BY <3>1 DEF OpenGroupFed, Inv, GroupsOK
    <3>2. ASSUME NEW g, NEW s, NewGroupFed(p, g, s) PROVE p.gid # 0
      BY <3>2 DEF NewGroupFed, Inv, GroupsOK
    <3> QED BY <1>2, <3>1, <3>2
  <2> QED BY <2>1
<1>9. p \in DataPacket
  <2>1. p.gid \in Nat /\ p.index \in Nat
    BY <1>6, <1>8 DEF FedEffect
  <2>2. p = [pn |-> a_next, unit |-> u, acks |-> acks, gid |-> p.gid, index |-> p.index]
    BY ONLY <1>2
  <2> QED BY ONLY <1>4, <1>7, <2>1, <2>2 DEF DataPacket
<1>10. sent' = sent \cup {p} /\ to_b' = to_b \cup {p} /\ a_next' = a_next + 1
  BY <1>2 DEF Transmit
<1>11. UNCHANGED <<recorded, processed, shards, refusals>>
  BY <1>3 DEF bVars, histVars
<1>12. /\ p.gid # 0 =>
              /\ p.gid \in 1..Len(made') /\ Inside(p.gid, p.index)'
              /\ p.index < made'[p.gid].m /\ made'[p.gid].data[p.index + 1] = Frames(p)
              /\ ~(p.index >= made'[p.gid].m)
       /\ p.gid = 0 => p.unit \in Units
  <2>1. p.gid # 0 => made'[p.gid].m \in Nat /\ p.index \in Nat
    BY <1>6, ShardBoundsNext DEF FedEffect, Bounded
  <2>2. p.gid # 0 => Inside(p.gid, p.index)'
    BY <1>6 DEF FedEffect, Inside
  <2> QED BY <1>4, <1>6, <2>1, <2>2 DEF FedEffect
<1>13. PacketsOK' /\ ShardsOK' /\ ProcessedOK'
  <2>1. Grown
    BY <1>6 DEF FedEffect
  <2> QED BY ONLY Inv, <1>4, <1>6, <1>9, <1>10, <1>11, <1>12, <2>1, NewPacket
<1>14. WindowOK' /\ AcksOK' /\ Kept' /\ Acks' = Acks
  <2>1. ASSUME NEW g \in DOMAIN group_acked' PROVE group_acked'[g] \subseteq recorded
    <3>1. /\ DOMAIN group_acked' = 1..Len(made')
          /\ DOMAIN group_acked = 1..Len(made)
      BY <1>6 DEF FedEffect, Inv, Types
    <3> QED BY <1>6, <3>1 DEF FedEffect, Inv, AcksOK
  <2> QED BY <1>3, <2>1, SideB
<1>15. Types'
  <2>1. Flight' \subseteq DataPacket
    BY <1>9, <1>10 DEF Flight, Inv, Types
  <2>2. group_acked' \in Seq(SUBSET Nums) /\ Len(group_acked') = Len(made')
    BY <1>6 DEF FedEffect
  <2> QED BY <1>2, <1>3, <1>7, <1>10, <1>14, <2>1, <2>2 DEF Inv, Types, bVars, histVars
<1> QED BY <1>6, <1>9, <1>10, <1>4, <1>13, <1>14, <1>15 DEF Inv

\* A packet given up
LEMMA GiveUpStep ==
    ASSUME Inv, GiveUp
    PROVE  Inv'
<1>1. /\ sent' \subseteq sent /\ work' \subseteq Units
      /\ UNCHANGED <<a_next, group, encoded, made, group_acked, settled, a_need_ack,
                     a_window, bVars, to_b, to_a, copies, histVars>>
  BY DEF GiveUp, Inv, Types, DataPacket, Flight
<1>2. Flight' \subseteq Flight
  BY <1>1 DEF Flight
<1>3. WindowOK' /\ AcksOK' /\ Kept' /\ Acks' = Acks
  BY <1>1, SideB DEF Inv, AcksOK
<1>4. Types'
  BY <1>1, <1>2, <1>3 DEF Inv, Types, bVars, histVars
<1>5. GroupsOK'
  BY <1>1 DEF Inv, GroupsOK
<1>6. UNCHANGED <<recorded, processed, shards, refusals, made>>
  BY <1>1 DEF bVars, histVars
<1>7. PacketsOK'
  BY <1>1, <1>2, <1>6 DEF Inv, PacketsOK, Inside
<1>8. ShardsOK'
  BY <1>6 DEF Inv, ShardsOK, Inside
<1>9. ProcessedOK'
  BY <1>2, <1>6 DEF Inv, ProcessedOK
<1> QED BY <1>3, <1>4, <1>5, <1>7, <1>8, <1>9 DEF Inv

\* B's application reads a block
LEMMA CollectBlockStep ==
    ASSUME Inv, NEW u \in Units, CollectBlock(u)
    PROVE  Inv'
<1>1. UNCHANGED <<aVars, b_need_ack, b_window, b_elicited, b_next, b_sent, b_acked,
                  shards, processed, refusals, netVars, histVars>>
  BY DEF CollectBlock
<1>2. UNCHANGED <<work, a_next, group, encoded, made, sent, group_acked, settled, a_need_ack,
                  to_b, to_a, recorded, handled, told, until>>
  BY <1>1 DEF aVars, netVars, histVars
<1>3. Flight' = Flight /\ Acks' = Acks /\ Flat(b_need_ack)' = Flat(b_need_ack)
  BY <1>1, <1>2 DEF Flight, Acks
<1>4. Types' /\ WindowOK'
  BY <1>1, <1>2, <1>3 DEF Inv, Types, WindowOK
<1>5. AcksOK' /\ Kept'
  BY <1>1, <1>2, <1>3 DEF Inv, AcksOK, Kept
<1>6. GroupsOK' /\ PacketsOK'
  BY <1>2, <1>3 DEF Inv, GroupsOK, PacketsOK, Inside
<1>7. ShardsOK' /\ ProcessedOK'
  BY <1>1, <1>2, <1>3 DEF Inv, ShardsOK, ProcessedOK, Inside
<1> QED BY <1>4, <1>5, <1>6, <1>7 DEF Inv

\* B's ACK frame
LEMMA SendAckStep ==
    ASSUME Inv, SendAck
    PROVE  Inv'
<1> PICK a : a = [pn |-> b_next, acks |-> Flat(b_need_ack)]
  OBVIOUS
<1>1. /\ b_elicited /\ b_next < MaxAcks
      /\ b_elicited' = FALSE /\ b_next' = b_next + 1
      /\ b_sent' = b_sent \cup {a} /\ to_a' = to_a \cup {a}
      /\ UNCHANGED <<aVars, b_need_ack, b_window, b_acked, shards, processed, collected,
                     refusals, to_b, copies, losses, histVars>>
  BY DEF SendAck
<1>2. UNCHANGED <<work, a_next, group, encoded, made, sent, group_acked, settled, a_need_ack,
                  recorded, handled, told, until>>
  BY <1>1 DEF aVars, histVars
<1>3. Flight' = Flight /\ Acks' = Acks \cup {a} /\ Flat(b_need_ack)' = Flat(b_need_ack)
  BY <1>1, <1>2 DEF Flight, Acks
<1>4. a.acks # {} /\ a.acks \subseteq recorded /\ recorded \subseteq Nums
  BY <1>1 DEF Inv, AcksOK, Types
<1>5. b_next \in AckNums /\ b_next + 1 \in 0..MaxAcks
  BY <1>1, ExchangeConstants DEF Inv, Types, AckNums
<1>6. a \in AckPkt
  <2>1. Flat(b_need_ack) \in SUBSET Nums
    BY <1>4
  <2> QED BY <1>5, <2>1 DEF AckPkt
<1>7. Acks' \subseteq AckPkt
  BY <1>3, <1>6 DEF Inv, Types
<1>8. Types'
  BY <1>1, <1>2, <1>3, <1>5, <1>7 DEF Inv, Types
<1>9. WindowOK' /\ Kept'
  BY <1>1, <1>2, <1>3 DEF Inv, WindowOK, Kept
<1>10. AcksOK'
  BY <1>1, <1>2, <1>3, <1>4 DEF Inv, AcksOK
<1>11. GroupsOK' /\ PacketsOK'
  BY <1>2, <1>3 DEF Inv, GroupsOK, PacketsOK, Inside
<1>12. ShardsOK' /\ ProcessedOK'
  BY <1>1, <1>2, <1>3 DEF Inv, ShardsOK, ProcessedOK, Inside
<1> QED BY <1>8, <1>9, <1>10, <1>11, <1>12 DEF Inv

-----------------------------------------------------------------------------
(* B receives a packet *)

\* What is left of a range set when the peer acknowledged ACK frames, and a number
\* is pushed
StillNeeded(rs, n, largest) == {x \in Flat(rs) : \A l \in largest : x > l} \cup {n}

LEMMA NeedAckIs ==
    ASSUME NEW N \in Nat, NEW rs, Ranges(rs, N), NEW n \in 0..(N - 1),
           NEW largest, largest \subseteq 0..(N - 1)
    PROVE  /\ Ranges(NeedAckAfter(rs, n, largest), N)
           /\ Flat(NeedAckAfter(rs, n, largest)) = StillNeeded(rs, n, largest)
<1>1. \A x \in Flat(rs) : x \in Int
  <2> SUFFICES ASSUME NEW x \in Flat(rs) PROVE x \in Int
    OBVIOUS
  <2>1. PICK r \in rs : x \in r[1]..(r[2] - 1)
    BY FlatIs
  <2>2. r \in (0..N) \X (0..N)
    BY DEF Ranges
  <2> QED BY <2>1, <2>2
<1>2. CASE largest = {}
  <2>1. NeedAckAfter(rs, n, largest) = PushItem(rs, n)
    BY <1>2 DEF NeedAckAfter
  <2>2. Ranges(PushItem(rs, n), N) /\ Flat(PushItem(rs, n)) = Flat(rs) \cup {n}
    BY PushItemIs
  <2> QED BY <1>2, <2>1, <2>2 DEF StillNeeded
<1>3. CASE largest # {}
  <2> PICK l : l = Max(largest)
    OBVIOUS
  <2>1. l \in largest /\ \A y \in largest : l >= y
    <3>1. IsFiniteSet(0..(N - 1)) /\ largest \in SUBSET (0..(N - 1))
      BY FS_Interval
    <3>2. IsFiniteSet(largest)
      BY ONLY <3>1, FS_Subset
    <3>3. largest \subseteq Int
      OBVIOUS
    <3>4. Max(largest) \in largest /\ \A y \in largest : Max(largest) >= y
      BY <1>3, <3>2, <3>3, MaxOfFinite
    <3> QED BY <3>4
  <2>2. l \in Nat
    BY <2>1
  <2> PICK q : q = RemoveUntil(rs, l)
    OBVIOUS
  <2>3. Ranges(q, N) /\ Flat(q) = {x \in Flat(rs) : x > l}
    BY <2>2, RemoveUntilIs
  <2>4. Ranges(PushItem(q, n), N) /\ Flat(PushItem(q, n)) = Flat(q) \cup {n}
    BY <2>3, PushItemIs
  <2>5. NeedAckAfter(rs, n, largest) = PushItem(q, n)
    BY <1>3 DEF NeedAckAfter
  <2>6. \A x \in Flat(rs) : x > l <=> \A y \in largest : x > y
    BY <1>1, <2>1, <2>2
  <2>7. {x \in Flat(rs) : x > l} \cup {n} = StillNeeded(rs, n, largest)
    BY ONLY <2>6 DEF StillNeeded
  <2> QED BY ONLY <2>3, <2>4, <2>5, <2>7
<1> QED BY <1>2, <1>3

\* Each element of a finite set of numbers is the one of its rank
Rank(S, j) == Cardinality({l \in S : l < j})

LEMMA Ranks ==
    ASSUME NEW S, IsFiniteSet(S), S \subseteq Int, NEW k \in S
    PROVE  \E i \in 1..Cardinality(S) :
              /\ Rank(S, k) = i - 1
              /\ k = CHOOSE j \in S : Rank(S, j) = i - 1
<1> DEFINE Less(j) == {l \in S : l < j}
<1>1. ASSUME NEW j \in S
      PROVE  IsFiniteSet(Less(j)) /\ Cardinality(Less(j)) \in Nat
             /\ Cardinality(Less(j)) < Cardinality(S)
  <2>1. Less(j) \in SUBSET S /\ Less(j) # S
    OBVIOUS
  <2>2. IsFiniteSet(Less(j)) /\ Cardinality(Less(j)) <= Cardinality(S)
        /\ (Cardinality(Less(j)) = Cardinality(S) => Less(j) = S)
    BY ONLY <2>1, IsFiniteSet(S), FS_Subset
  <2>3. Cardinality(Less(j)) \in Nat /\ Cardinality(S) \in Nat
    BY <2>2, FS_CardinalityType
  <2> HIDE DEF Less
  <2> QED BY <2>1, <2>2, <2>3
<1>2. ASSUME NEW i \in S, NEW j \in S, i < j
      PROVE  Cardinality(Less(i)) < Cardinality(Less(j))
  <2>1. Less(i) \in SUBSET Less(j) /\ Less(i) # Less(j)
    <3>1. i \in Less(j) /\ i \notin Less(i)
      BY <1>2
    <3>2. \A l \in S : l < i => l < j
      BY <1>2
    <3> QED BY <3>1, <3>2
  <2>2. IsFiniteSet(Less(j)) /\ Cardinality(Less(i)) \in Nat /\ Cardinality(Less(j)) \in Nat
    BY <1>1
  <2> HIDE DEF Less
  <2>3. Cardinality(Less(i)) <= Cardinality(Less(j))
        /\ (Cardinality(Less(i)) = Cardinality(Less(j)) => Less(i) = Less(j))
    BY ONLY <2>1, <2>2, FS_Subset
  <2> QED BY <2>1, <2>2, <2>3
<1>3. \A i, j \in S : Cardinality(Less(i)) = Cardinality(Less(j)) => i = j
  <2> SUFFICES ASSUME NEW i \in S, NEW j \in S, Cardinality(Less(i)) = Cardinality(Less(j)), i # j
               PROVE  FALSE
    OBVIOUS
  <2>1. Cardinality(Less(i)) \in Nat /\ Cardinality(Less(j)) \in Nat
    BY <1>1
  <2>2. i < j \/ j < i
    OBVIOUS
  <2> HIDE DEF Less
  <2> QED BY <1>2, <2>1, <2>2
<1> PICK i : i = Cardinality(Less(k)) + 1
  OBVIOUS
<1>4. i \in 1..Cardinality(S) /\ Cardinality(Less(k)) = i - 1
  <2>1. Cardinality(Less(k)) \in Nat /\ Cardinality(Less(k)) < Cardinality(S)
    BY <1>1
  <2>2. Cardinality(S) \in Nat
    BY FS_CardinalityType
  <2> HIDE DEF Less
  <2> QED BY <2>1, <2>2
<1>5. \A j \in S : Cardinality(Less(j)) = i - 1 => j = k
  <2> HIDE DEF Less
  <2> QED BY <1>3, <1>4
<1>6. \A j : Rank(S, j) = Cardinality(Less(j))
  BY DEF Rank
<1> HIDE DEF Less
<1>7. Rank(S, k) = i - 1 /\ \A j \in S : Rank(S, j) = i - 1 => j = k
  BY <1>4, <1>5, <1>6
<1>8. k = CHOOSE j \in S : Rank(S, j) = i - 1
  BY <1>7
<1> QED BY <1>4, <1>7, <1>8

\* Two sequences one after the other
LEMMA ConcatIs ==
    ASSUME NEW V, NEW s \in Seq(V), NEW t \in Seq(V)
    PROVE  /\ s \o t \in Seq(V)
           /\ \A i \in 1..Len(s) : i \in 1..Len(s \o t) /\ (s \o t)[i] = s[i]
           /\ \A i \in 1..Len(t) : \E j \in 1..Len(s \o t) : (s \o t)[j] = t[i]
<1>1. s \o t \in Seq(V) /\ Len(s \o t) = Len(s) + Len(t) /\ Len(s) \in Nat /\ Len(t) \in Nat
  OBVIOUS
<1>2. \A i \in 1..Len(s) : (s \o t)[i] = s[i]
  OBVIOUS
<1>3. \A i \in 1..Len(t) : Len(s) + i \in 1..Len(s \o t) /\ (s \o t)[Len(s) + i] = t[i]
  BY <1>1
<1>4. \A i \in 1..Len(s) : i \in 1..Len(s \o t)
  BY <1>1
<1> PICK u : u = s \o t
  OBVIOUS
<1>5. \A i \in 1..Len(t) : \E j \in 1..Len(u) : u[j] = t[i]
  BY <1>3
<1> QED BY <1>1, <1>2, <1>4, <1>5

\* The places of a group that a receiver has: if there are m of them, its data
\* shards were all fed
LEMMA EnoughIsFull ==
    ASSUME Inv, NEW g \in 1..Len(made), NEW S, S \subseteq Nat, \A i \in S : Inside(g, i), Enough(g, S)
    PROVE  Len(made[g].data) = made[g].m
<1>1. /\ made[g].m \in Nat /\ Len(made[g].data) \in Nat /\ Len(made[g].data) <= made[g].m
  BY ShardBounds DEF Inv, Bounded
<1>2. SUFFICES ASSUME Len(made[g].data) < made[g].m PROVE FALSE
  BY <1>1
<1>3. S \in SUBSET (0..(Len(made[g].data) - 1))
  BY <1>1, <1>2 DEF Inside
<1>4. IsFiniteSet(0..(Len(made[g].data) - 1))
      /\ Cardinality(0..(Len(made[g].data) - 1)) = Len(made[g].data)
  <2> PICK d : d = Len(made[g].data)
    OBVIOUS
  <2>1. d \in Nat /\ 0 \in Int /\ d - 1 \in Int
    BY <1>1
  <2>2. IsFiniteSet(0..(d - 1)) /\ Cardinality(0..(d - 1)) = IF 0 > d - 1 THEN 0 ELSE (d - 1) - 0 + 1
    BY ONLY <2>1, FS_Interval
  <2> QED BY <2>1, <2>2
<1>5. IsFiniteSet(S) /\ Cardinality(S) <= Len(made[g].data)
  BY ONLY <1>3, <1>4, FS_Subset
<1>6. Cardinality(S) \in Nat /\ Cardinality(S) >= made[g].m
  BY <1>5, FS_CardinalityType DEF Enough
<1> QED BY <1>1, <1>2, <1>5, <1>6

\* The shards B has of the group of a packet it receives, with the packet's own
LEMMA PresentIs ==
    ASSUME Inv, NEW p \in Flight, p.gid # 0, NEW S, S = Present(p.gid) \cup {p.index}
    PROVE  /\ p.gid \in 1..Len(made) /\ S \subseteq Nat /\ \A i \in S : Inside(p.gid, i)
           /\ IsFiniteSet(S)
<1>1. p.gid \in 1..Len(made) /\ Inside(p.gid, p.index) /\ p.index \in Nat
  BY DEF Inv, PacketsOK, Types, DataPacket
<1>2. Present(p.gid) \subseteq Nat /\ \A i \in Present(p.gid) : Inside(p.gid, i)
  BY DEF Present, Inv, ShardsOK
<1>3. S \subseteq Nat /\ \A i \in S : Inside(p.gid, i)
  BY <1>1, <1>2
<1> PICK b : b = made[p.gid].m + made[p.gid].n
  OBVIOUS
<1>4. b \in Nat /\ S \in SUBSET (0..b)
  <2>1. /\ made[p.gid].m \in Nat /\ made[p.gid].n \in Nat /\ Len(made[p.gid].data) \in Nat
        /\ Len(made[p.gid].data) <= made[p.gid].m
    BY <1>1, ShardBounds DEF Inv, Bounded
  <2>2. ASSUME NEW i \in S PROVE i \in Nat /\ i <= b
    <3>1. i \in Nat /\ Inside(p.gid, i)
      BY <1>3
    <3>2. i < Len(made[p.gid].data) \/ i < made[p.gid].m + made[p.gid].n
      BY <3>1 DEF Inside
    <3> PICK m, n, d : m = made[p.gid].m /\ n = made[p.gid].n /\ d = Len(made[p.gid].data)
      OBVIOUS
    <3>3. b = m + n
      OBVIOUS
    <3>4. m \in Nat /\ n \in Nat /\ d \in Nat /\ d <= m /\ i \in Nat /\ (i < d \/ i < m + n)
      BY <2>1, <3>1, <3>2
    <3>5. i <= m + n
      BY ONLY <3>4
    <3> QED BY <3>1, <3>3, <3>5
  <2> QED BY <2>1, <2>2
<1>5. IsFiniteSet(0..b)
  <2>1. 0 \in Int /\ b \in Int
    BY <1>4
  <2> QED BY ONLY <2>1, FS_Interval
<1>6. IsFiniteSet(S)
  BY ONLY <1>4, <1>5, FS_Subset
<1> QED BY <1>1, <1>3, <1>6

\* reconstruct restores each missing data shard, or none
LEMMA RestoredIs ==
    ASSUME Inv, NEW g \in 1..Len(made), NEW S
    PROVE  /\ Restored(g, S) \in Seq({Restored(g, S)[i] : i \in DOMAIN Restored(g, S)})
           /\ Missing(g, S) # {} /\ Enough(g, S) =>
                \A k \in Missing(g, S) : \E i \in 1..Len(Restored(g, S)) :
                   Restored(g, S)[i] = made[g].data[k + 1]
           /\ Restored(g, S) = <<>> <=> ~(Missing(g, S) # {} /\ Enough(g, S))
<1> DEFINE M == Missing(g, S)
           R == [i \in 1..Cardinality(M) |->
                   LET k == CHOOSE j \in M : Cardinality({l \in M : l < j}) = i - 1
                   IN made[g].data[k + 1]]
<1>1. Restored(g, S) = IF M # {} /\ Enough(g, S) THEN R ELSE <<>>
  BY Zenon DEF Restored
<1>9. M = Missing(g, S)
  OBVIOUS
<1> HIDE DEF M
<1>2. M \subseteq Int /\ IsFiniteSet(M) /\ Cardinality(M) \in Nat
  <2>1. M \in SUBSET (0..(made[g].m - 1)) /\ made[g].m \in Nat
    BY <1>9, ShardBounds DEF Missing, Inv, Bounded
  <2>2. IsFiniteSet(0..(made[g].m - 1))
    <3>1. 0 \in Int /\ made[g].m - 1 \in Int
      BY <2>1
    <3> QED BY ONLY <3>1, FS_Interval
  <2>3. IsFiniteSet(M)
    BY ONLY <2>1, <2>2, FS_Subset
  <2>4. M \subseteq Int
    BY ONLY <2>1
  <2> QED BY <2>3, <2>4, FS_CardinalityType
<1>3. M # {} => Cardinality(M) # 0
  BY <1>2, FS_EmptySet
<1>4. \A k \in M : \E i \in 1..Cardinality(M) : R[i] = made[g].data[k + 1]
  <2> SUFFICES ASSUME NEW k \in M PROVE \E i \in 1..Cardinality(M) : R[i] = made[g].data[k + 1]
    OBVIOUS
  <2>1. PICK i \in 1..Cardinality(M) :
            k = CHOOSE j \in M : Rank(M, j) = i - 1
    BY <1>2, Ranks
  <2>2. R[i] = LET n == CHOOSE j \in M : Cardinality({l \in M : l < j}) = i - 1
               IN made[g].data[n + 1]
    OBVIOUS
  <2> HIDE DEF R
  <2>3. R[i] = made[g].data[(CHOOSE j \in M : Cardinality({l \in M : l < j}) = i - 1) + 1]
    BY ONLY <2>2
  <2>4. R[i] = made[g].data[k + 1]
    BY ONLY <2>1, <2>3 DEF Rank
  <2> QED BY <2>4
<1>5. DOMAIN R = 1..Cardinality(M)
  OBVIOUS
<1>6. R \in Seq({R[i] : i \in DOMAIN R}) /\ Len(R) = Cardinality(M)
  <2> DEFINE V == {R[i] : i \in DOMAIN R}
  <2>1. \A i \in 1..Cardinality(M) : R[i] \in V
    BY <1>5
  <2>2. R = [i \in 1..Cardinality(M) |-> R[i]]
    OBVIOUS
  <2> HIDE DEF V, R
  <2>3. [i \in 1..Cardinality(M) |-> R[i]] \in Seq(V) /\ Len([i \in 1..Cardinality(M) |-> R[i]]) = Cardinality(M)
    BY ONLY <1>2, <2>1
  <2>4. R \in Seq(V) /\ Len(R) = Cardinality(M)
    BY ONLY <2>2, <2>3
  <2> QED BY <2>4 DEF V
<1>7. <<>> \in Seq({<<>>[i] : i \in DOMAIN <<>>})
  OBVIOUS
<1> HIDE DEF R
<1>8. M # {} => R # <<>>
  BY <1>2, <1>3, <1>5
<1>10. CASE M # {} /\ Enough(g, S)
  <2>1. Restored(g, S) = R
    BY ONLY <1>1, <1>10
  <2> QED BY ONLY <1>4, <1>6, <1>8, <1>9, <1>10, <2>1
<1>11. CASE ~(M # {} /\ Enough(g, S))
  <2>1. Restored(g, S) = <<>>
    BY ONLY <1>1, <1>11
  <2> QED BY ONLY <1>7, <1>9, <1>11, <2>1
<1> QED BY ONLY <1>10, <1>11

\* What B processes of a packet: its own frames, unless it is a repair packet, and
\* those of the data shards that are missing, if they can be restored
LEMMA ToProcessIs ==
    ASSUME Inv, NEW p \in Flight, NEW fs, fs = ToProcess(p),
           NEW S, S = Present(p.gid) \cup {p.index}
    PROVE  /\ IsFiniteSet(DOMAIN fs)
           /\ ~IsRepair(p) => \E i \in DOMAIN fs : fs[i] = Frames(p)
           /\ p.gid # 0 /\ Missing(p.gid, S) # {} /\ Enough(p.gid, S) =>
                \A k \in Missing(p.gid, S) : \E i \in DOMAIN fs : fs[i] = made[p.gid].data[k + 1]
<1> PICK s : s = IF p.gid = 0 THEN <<>> ELSE Restored(p.gid, S)
  OBVIOUS
<1> PICK t : t = IF IsRepair(p) THEN <<>> ELSE <<Frames(p)>>
  OBVIOUS
<1>1. fs = s \o t
  BY Zenon DEF ToProcess
<1> PICK V : V = {s[i] : i \in DOMAIN s} \cup {Frames(p)}
  OBVIOUS
<1>2. s \in Seq(V)
  <2>1. CASE p.gid = 0
    BY <2>1
  <2>2. CASE p.gid # 0
    <3>1. p.gid \in 1..Len(made)
      BY <2>2, PresentIs
    <3>2. s = Restored(p.gid, S)
      BY <2>2
    <3>3. s \in Seq({s[i] : i \in DOMAIN s})
      BY ONLY Inv, <3>1, <3>2, RestoredIs
    <3>4. {s[i] : i \in DOMAIN s} \subseteq V
      OBVIOUS
    <3> QED BY ONLY <3>3, <3>4
  <2> QED BY <2>1, <2>2
<1>3. t \in Seq(V)
  <2>1. Frames(p) \in V
    OBVIOUS
  <2>2. CASE IsRepair(p)
    BY <2>2
  <2>3. CASE ~IsRepair(p)
    <3>1. t = <<Frames(p)>>
      BY <2>3
    <3> QED BY ONLY <2>1, <3>1
  <2> QED BY <2>2, <2>3
<1>4. /\ fs \in Seq(V)
      /\ \A i \in 1..Len(s) : i \in 1..Len(fs) /\ fs[i] = s[i]
      /\ \A i \in 1..Len(t) : \E j \in 1..Len(fs) : fs[j] = t[i]
  <2>1. /\ s \o t \in Seq(V)
        /\ \A i \in 1..Len(s) : i \in 1..Len(s \o t) /\ (s \o t)[i] = s[i]
        /\ \A i \in 1..Len(t) : \E j \in 1..Len(s \o t) : (s \o t)[j] = t[i]
    BY ONLY <1>2, <1>3, ConcatIs
  <2> QED BY ONLY <1>1, <2>1, Zenon
<1>5. DOMAIN fs = 1..Len(fs) /\ Len(fs) \in Nat
  BY ONLY <1>4
<1>6. IsFiniteSet(DOMAIN fs)
  <2>1. 1 \in Int /\ Len(fs) \in Int
    BY <1>5
  <2> QED BY ONLY <1>5, <2>1, FS_Interval
<1>7. ~IsRepair(p) => \E i \in DOMAIN fs : fs[i] = Frames(p)
  <2> SUFFICES ASSUME ~IsRepair(p) PROVE \E i \in DOMAIN fs : fs[i] = Frames(p)
    OBVIOUS
  <2>1. Len(t) = 1 /\ t[1] = Frames(p)
    OBVIOUS
  <2> QED BY ONLY <1>4, <1>5, <2>1
<1>8. p.gid # 0 /\ Missing(p.gid, S) # {} /\ Enough(p.gid, S) =>
        \A k \in Missing(p.gid, S) : \E i \in DOMAIN fs : fs[i] = made[p.gid].data[k + 1]
  <2> SUFFICES ASSUME p.gid # 0, Missing(p.gid, S) # {}, Enough(p.gid, S),
                      NEW k \in Missing(p.gid, S)
               PROVE  \E i \in DOMAIN fs : fs[i] = made[p.gid].data[k + 1]
    OBVIOUS
  <2>1. p.gid \in 1..Len(made)
    BY PresentIs
  <2>2. s = Restored(p.gid, S)
    OBVIOUS
  <2>3. Missing(p.gid, S) # {} /\ Enough(p.gid, S) =>
          \A n \in Missing(p.gid, S) : \E i \in 1..Len(Restored(p.gid, S)) :
            Restored(p.gid, S)[i] = made[p.gid].data[n + 1]
    BY ONLY Inv, <2>1, RestoredIs, Zenon
  <2>4. k \in Missing(p.gid, S) /\ Missing(p.gid, S) # {} /\ Enough(p.gid, S)
    OBVIOUS
  <2>5. \E i \in 1..Len(s) : s[i] = made[p.gid].data[k + 1]
    BY ONLY <2>2, <2>3, <2>4, Zenon
  <2> QED BY <1>4, <1>5, <2>5
<1> QED BY <1>6, <1>7, <1>8

\* When none of the frames is refused, the unit of each counts
LEMMA Counted ==
    ASSUME NEW fs, IsFiniteSet(DOMAIN fs), NEW u
    PROVE  /\ Count(fs, u) \in Nat
           /\ Accepted(fs) = DOMAIN fs /\ (\E i \in DOMAIN fs : fs[i].unit = u) => Count(fs, u) > 0
<1> PICK C : C = {i \in Accepted(fs) : fs[i].unit = u}
  OBVIOUS
<1>1. Count(fs, u) = Cardinality(C) /\ C \in SUBSET DOMAIN fs
  BY DEF Count, Accepted
<1>2. IsFiniteSet(C)
  BY <1>1, FS_Subset
<1>3. Cardinality(C) \in Nat /\ (Cardinality(C) = 0 <=> C = {})
  BY <1>2, FS_CardinalityType, FS_EmptySet
<1>4. Accepted(fs) = DOMAIN fs /\ (\E i \in DOMAIN fs : fs[i].unit = u) => C # {}
  OBVIOUS
<1> QED BY <1>1, <1>3, <1>4

\* The units processed when a packet arrives that was not recorded
LEMMA UnitsProcessed ==
    ASSUME Inv, NEW p \in Flight, NEW fs, fs = ToProcess(p),
           processed' = [u \in Units |-> processed[u] + Count(fs, u)]
    PROVE  /\ processed' \in [Units -> Nat]
           /\ \A u \in Units : processed[u] > 0 => processed'[u] > 0
           /\ Accepted(fs) = DOMAIN fs => \A u \in Units :
                (\E i \in DOMAIN fs : fs[i].unit = u) => processed'[u] > 0
<1>1. IsFiniteSet(DOMAIN fs)
  BY ToProcessIs
<1>2. \A u \in Units : Count(fs, u) \in Nat
  BY ONLY <1>1, Counted
<1>9. Accepted(fs) = DOMAIN fs => \A u \in Units :
         (\E i \in DOMAIN fs : fs[i].unit = u) => Count(fs, u) > 0
  BY ONLY <1>1, Counted
<1>3. processed \in [Units -> Nat]
  BY DEF Inv, Types
<1>4. \A u \in Units : /\ processed'[u] = processed[u] + Count(fs, u)
                        /\ processed[u] \in Nat /\ Count(fs, u) \in Nat
  <2>1. processed' = [u \in Units |-> processed[u] + Count(fs, u)]
    OBVIOUS
  <2>2. \A u \in Units : Count(fs, u) \in Nat
    BY <1>2
  <2> QED BY ONLY <1>3, <2>1, <2>2
<1>5. processed' \in [Units -> Nat]
  <2>1. processed' = [u \in Units |-> processed[u] + Count(fs, u)]
    OBVIOUS
  <2>2. \A u \in Units : processed[u] + Count(fs, u) \in Nat
    BY <1>4
  <2> QED BY ONLY <2>1, <2>2
<1>6. \A u \in Units : processed[u] > 0 \/ Count(fs, u) > 0 => processed'[u] > 0
  <2> SUFFICES ASSUME NEW u \in Units, processed[u] > 0 \/ Count(fs, u) > 0 PROVE processed'[u] > 0
    OBVIOUS
  <2> PICK x, y : x = processed[u] /\ y = Count(fs, u)
    OBVIOUS
  <2>1. x \in Nat /\ y \in Nat /\ (x > 0 \/ y > 0) /\ processed'[u] = x + y
    BY <1>4
  <2> QED BY ONLY <2>1
<1>7. \A u \in Units : processed[u] > 0 => processed'[u] > 0
  BY ONLY <1>6, Zenon
<1>8. Accepted(fs) = DOMAIN fs => \A u \in Units :
                (\E i \in DOMAIN fs : fs[i].unit = u) => processed'[u] > 0
  BY ONLY <1>9, <1>6, Zenon
<1> QED BY ONLY <1>5, <1>7, <1>8

\* The shards of the group of a packet, after it arrived
LEMMA ShardsAfterIs ==
    ASSUME Inv, NEW p \in Flight, p.gid # 0, NEW fs, fs = ToProcess(p),
           processed' = [u \in Units |-> processed[u] + Count(fs, u)]
    PROVE  /\ DOMAIN ShardsAfter(p) = DOMAIN shards \cup {p.gid}
           /\ \A g \in DOMAIN shards : g # p.gid => ShardsAfter(p)[g] = shards[g]
           /\ p.gid \in DOMAIN shards => shards[p.gid] \subseteq ShardsAfter(p)[p.gid]
           /\ p.index \in ShardsAfter(p)[p.gid]
           /\ ShardsAfter(p)[p.gid] \subseteq Nat
           /\ \A i \in ShardsAfter(p)[p.gid] : Inside(p.gid, i)
           /\ Cardinality(ShardsAfter(p)[p.gid]) >= made[p.gid].m =>
                0..(made[p.gid].m - 1) \subseteq ShardsAfter(p)[p.gid]
           /\ Accepted(fs) = DOMAIN fs /\ p.gid \notin refusals =>
                \A i \in ShardsAfter(p)[p.gid] :
                   i < made[p.gid].m => processed'[made[p.gid].data[i + 1].unit] > 0
<1> PICK g : g = p.gid
  OBVIOUS
<1> PICK S : S = Present(g) \cup {p.index}
  OBVIOUS
<1> PICK M : M = Missing(g, S)
  OBVIOUS
<1> PICK all : all = IF Restored(g, S) = <<>> THEN S ELSE S \cup M
  OBVIOUS
<1>1. ShardsAfter(p) = [x \in DOMAIN shards \cup {g} |-> IF x = g THEN all ELSE shards[x]]
  BY Zenon DEF ShardsAfter
<1>2. /\ g \in 1..Len(made) /\ S \subseteq Nat /\ \A i \in S : Inside(g, i)
  BY PresentIs
<1>3. /\ made[g].m \in Nat \ {0} /\ made[g].data \in Seq(Frame)
      /\ Len(made[g].data) \in Nat /\ Len(made[g].data) <= made[g].m
  BY <1>2, GroupBounds DEF Inv
<1>4. M = {i \in 0..(made[g].m - 1) : i \notin S}
  BY DEF Missing
<1>5. Restored(g, S) = <<>> <=> ~(M # {} /\ Enough(g, S))
  <2>1. M = Missing(g, S)
    OBVIOUS
  <2>2. Restored(g, S) = <<>> <=> ~(Missing(g, S) # {} /\ Enough(g, S))
    BY ONLY Inv, <1>2, RestoredIs, Zenon
  <2> QED BY ONLY <2>1, <2>2, Zenon
<1>6. M # {} /\ Enough(g, S) => Len(made[g].data) = made[g].m
  BY ONLY Inv, <1>2, EnoughIsFull
<1>7. /\ M # {} /\ Enough(g, S) => all = S \cup M
      /\ ~(M # {} /\ Enough(g, S)) => all = S
  BY <1>5
<1>8. all \subseteq Nat
  <2>1. M \subseteq Nat
    <3>1. \A i \in 0..(made[g].m - 1) : i \in Nat
      BY ONLY <1>3
    <3> QED BY ONLY <1>4, <3>1
  <2> QED BY <1>2, <1>7, <2>1
<1>9. ASSUME NEW i \in all PROVE Inside(g, i)
  <2>1. CASE i \in S
    BY <1>2, <2>1
  <2>2. CASE i \notin S
    <3>1. M # {} /\ Enough(g, S) /\ i \in M
      BY <1>7, <2>2
    <3>2. i \in 0..(made[g].m - 1) /\ Len(made[g].data) = made[g].m
      BY <1>4, <1>6, <3>1
    <3> QED BY <1>3, <3>2 DEF Inside
  <2> QED BY <2>1, <2>2
<1>10. Cardinality(all) >= made[g].m => 0..(made[g].m - 1) \subseteq all
  <2>1. CASE M # {} /\ Enough(g, S)
    BY <1>4, <1>7, <2>1
  <2>2. CASE M = {}
    BY <1>4, <1>7, <2>2
  <2>3. CASE ~Enough(g, S)
    BY <1>7, <2>3 DEF Enough
  <2> QED BY <2>1, <2>2, <2>3
<1>11. ASSUME Accepted(fs) = DOMAIN fs, g \notin refusals, NEW i \in all, i < made[g].m
       PROVE  processed'[made[g].data[i + 1].unit] > 0
  <2>1. i \in Nat /\ i < Len(made[g].data)
    BY <1>3, <1>8, <1>9, <1>11 DEF Inside
  <2>2. made[g].data[i + 1] \in Frame
    BY <1>3, <2>1
  <2>3. made[g].data[i + 1].unit \in Units
    BY <2>2 DEF Frame
  <2>4. /\ \A u \in Units : processed[u] > 0 => processed'[u] > 0
        /\ \A u \in Units : (\E j \in DOMAIN fs : fs[j].unit = u) => processed'[u] > 0
    BY <1>11, UnitsProcessed
  <2>5. /\ ~IsRepair(p) => \E j \in DOMAIN fs : fs[j] = Frames(p)
        /\ M # {} /\ Enough(g, S) => \A k \in M : \E j \in DOMAIN fs : fs[j] = made[g].data[k + 1]
    <3>1. fs = ToProcess(p) /\ S = Present(p.gid) \cup {p.index}
      OBVIOUS
    <3>2. /\ ~IsRepair(p) => \E j \in DOMAIN fs : fs[j] = Frames(p)
          /\ p.gid # 0 /\ Missing(p.gid, S) # {} /\ Enough(p.gid, S) =>
                \A k \in Missing(p.gid, S) : \E j \in DOMAIN fs : fs[j] = made[p.gid].data[k + 1]
      <4>1. ~IsRepair(p) => \E j \in DOMAIN fs : fs[j] = Frames(p)
        BY ONLY Inv, p \in Flight, <3>1, ToProcessIs, Zenon
      <4>2. p.gid # 0 /\ Missing(p.gid, S) # {} /\ Enough(p.gid, S) =>
               \A k \in Missing(p.gid, S) : \E j \in DOMAIN fs : fs[j] = made[p.gid].data[k + 1]
        BY ONLY Inv, p \in Flight, <3>1, ToProcessIs
      <4> QED BY ONLY <4>1, <4>2, Zenon
    <3>3. p.gid # 0 /\ g = p.gid /\ M = Missing(p.gid, S)
      OBVIOUS
    <3> QED BY ONLY <3>2, <3>3, Zenon
  <2>6. CASE i \in M /\ M # {} /\ Enough(g, S)
    <3>1. \E j \in DOMAIN fs : fs[j] = made[g].data[i + 1]
      BY ONLY <2>5, <2>6, Zenon
    <3> QED BY ONLY <2>3, <2>4, <3>1, Zenon
  <2>7. CASE i = p.index
    <3>1. made[g].data[i + 1] = Frames(p)
      BY <1>11, <2>7 DEF Inv, PacketsOK
    <3>2. ~IsRepair(p)
      BY <1>3, <1>11, <2>1, <2>7 DEF IsRepair
    <3>3. \E j \in DOMAIN fs : fs[j] = made[g].data[i + 1]
      BY ONLY <2>5, <3>1, <3>2, Zenon
    <3> QED BY ONLY <2>3, <2>4, <3>3, Zenon
  <2>8. CASE i \in Present(g)
    <3>1. g \in DOMAIN shards /\ i \in shards[g]
      BY <2>8 DEF Present
    <3>2. processed[made[g].data[i + 1].unit] > 0
      BY <1>11, <3>1 DEF Inv, ShardsOK
    <3> QED BY <2>3, <2>4, <3>2
  <2>9. i \in S \/ (i \in M /\ M # {} /\ Enough(g, S))
    BY <1>7
  <2> QED BY <2>6, <2>7, <2>8, <2>9
<1>12. p.index \in all /\ (g \in DOMAIN shards => shards[g] \subseteq all)
  BY <1>7 DEF Present
<1>13. /\ DOMAIN ShardsAfter(p) = DOMAIN shards \cup {g} /\ ShardsAfter(p)[g] = all
       /\ \A x \in DOMAIN shards : x # g => ShardsAfter(p)[x] = shards[x]
  BY ONLY <1>1
<1>14. g = p.gid
  OBVIOUS
<1> QED BY ONLY <1>8, <1>9, <1>10, <1>11, <1>12, <1>13, <1>14, Zenon

\* A packet that B has not recorded yet: all of its frames are processed, or one is
\* refused
Arrived(p, fs, largest) ==
    /\ fs = ToProcess(p) /\ largest = b_acked \cup {Max(a.acks) : a \in AckedByPeer(fs)}
    /\ ~WindowContains(b_window, WindowSize, p.pn)
    /\ processed' = [u \in Units |-> processed[u] + Count(fs, u)]
    /\ shards' = IF p.gid = 0 THEN shards ELSE ShardsAfter(p)
    /\ b_sent' = b_sent \ AckedByPeer(fs)
    /\ UNCHANGED <<b_next, collected>>
AllAccepted(p, fs, largest) ==
    /\ Accepted(fs) = DOMAIN fs
    /\ handled' = [handled EXCEPT ![p.pn] = @ + 1]
    /\ b_acked' = {}
    /\ b_need_ack' = NeedAckAfter(b_need_ack, p.pn, largest)
    /\ b_window' = WindowInsert(b_window, WindowSize, p.pn)
    /\ b_elicited' = TRUE
    /\ recorded' = recorded \cup {p.pn}
    /\ until' = Max({until} \cup largest)
    /\ UNCHANGED refusals
OneRefused(p, fs, largest) ==
    /\ Accepted(fs) # DOMAIN fs
    /\ b_acked' = largest
    /\ refusals' = refusals \cup {p.gid}
    /\ UNCHANGED <<b_need_ack, b_window, b_elicited, recorded, handled, until>>

LEMMA ReceiveDataCases ==
    ASSUME NEW p, ReceiveData(p)
    PROVE  /\ to_b' \subseteq to_b /\ UNCHANGED <<aVars, to_a, told>> /\ p \in to_b
           /\ \/ UNCHANGED <<bVars, recorded, handled, until>>
              \/ \E fs, largest : /\ Arrived(p, fs, largest)
                                  /\ AllAccepted(p, fs, largest) \/ OneRefused(p, fs, largest)
<1> DEFINE fs == ToProcess(p)
           largest == b_acked \cup {Max(a.acks) : a \in AckedByPeer(fs)}
<1>1. /\ p \in to_b
      /\ \/ to_b' = to_b \ {p} /\ UNCHANGED copies
         \/ copies < MaxCopies /\ copies' = copies + 1 /\ UNCHANGED to_b
      /\ IF WindowContains(b_window, WindowSize, p.pn)
         THEN UNCHANGED <<bVars, recorded, handled, until>>
         ELSE /\ processed' = [u \in Units |-> processed[u] + Count(fs, u)]
              /\ shards' = IF p.gid = 0 THEN shards ELSE ShardsAfter(p)
              /\ b_sent' = b_sent \ AckedByPeer(fs)
              /\ IF Accepted(fs) = DOMAIN fs
                 THEN /\ handled' = [handled EXCEPT ![p.pn] = @ + 1]
                      /\ b_acked' = {}
                      /\ b_need_ack' = NeedAckAfter(b_need_ack, p.pn, largest)
                      /\ b_window' = WindowInsert(b_window, WindowSize, p.pn)
                      /\ b_elicited' = TRUE
                      /\ recorded' = recorded \cup {p.pn}
                      /\ until' = Max({until} \cup largest)
                      /\ UNCHANGED refusals
                 ELSE /\ b_acked' = largest
                      /\ refusals' = refusals \cup {p.gid}
                      /\ UNCHANGED <<b_need_ack, b_window, b_elicited, recorded, handled, until>>
              /\ UNCHANGED <<b_next, collected>>
      /\ UNCHANGED <<aVars, to_a, losses, told>>
  BY Zenon DEF ReceiveData
<1>2. fs = ToProcess(p) /\ largest = b_acked \cup {Max(a.acks) : a \in AckedByPeer(fs)}
  OBVIOUS
<1> HIDE DEF fs, largest
<1>3. to_b' \subseteq to_b /\ UNCHANGED <<aVars, to_a, told>> /\ p \in to_b
  BY <1>1
<1>4. CASE WindowContains(b_window, WindowSize, p.pn)
  BY ONLY <1>1, <1>3, <1>4
<1>5. CASE ~WindowContains(b_window, WindowSize, p.pn)
  <2>1. Arrived(p, fs, largest)
    BY ONLY <1>1, <1>2, <1>5, Zenon DEF Arrived
  <2>2. AllAccepted(p, fs, largest) \/ OneRefused(p, fs, largest)
    BY ONLY <1>1, <1>5 DEF AllAccepted, OneRefused
  <2> QED BY ONLY <1>3, <2>1, <2>2
<1> QED BY <1>4, <1>5

\* What an arrival says, refused or not
LEMMA ArrivedIs ==
    ASSUME Inv, NEW p \in to_b, NEW fs, NEW largest, Arrived(p, fs, largest)
    PROVE  /\ largest \subseteq Nums /\ p.pn \notin recorded /\ p.pn \in Nums
           /\ p \in Flight /\ b_sent' \subseteq b_sent
<1>1. p \in Flight /\ p.pn \in Nums
  BY DEF Flight, Inv, Types, DataPacket
<1>2. b_sent' \subseteq b_sent
  BY DEF Arrived
<1>3. p.pn \notin recorded
  <2> PICK w : w = b_window
    OBVIOUS
  <2>1. /\ \A n \in w.bits : n <= w.lower + WindowSize - 1
        /\ p.pn \in recorded => p.pn < w.lower \/ p.pn \in w.bits
        /\ w.lower \in Nat /\ WindowSize \in Nat \ {0}
    BY ExchangeConstants DEF Inv, WindowOK, Types, WindowUpper
  <2>2. ~(p.pn <= w.lower + WindowSize - 1 /\ (p.pn < w.lower \/ p.pn \in w.bits))
    BY DEF Arrived, WindowContains, WindowUpper
  <2>3. p.pn \in Int
    BY <1>1 DEF Nums
  <2> QED BY ONLY <2>1, <2>2, <2>3
<1>4. \A a \in b_sent : Max(a.acks) \in Nums
  <2> SUFFICES ASSUME NEW a \in b_sent PROVE Max(a.acks) \in Nums
    OBVIOUS
  <2>1. a.acks \in SUBSET Nums /\ a.acks # {} /\ Nums \subseteq Int
    BY DEF Acks, Inv, Types, AcksOK, AckPkt, Nums
  <2>2. IsFiniteSet(Nums)
    BY ExchangeConstants, FS_Interval DEF Nums
  <2>3. IsFiniteSet(a.acks)
    BY ONLY <2>1, <2>2, FS_Subset
  <2>4. Max(a.acks) \in a.acks
    BY <2>1, <2>3, MaxOfFinite
  <2> QED BY <2>1, <2>4
<1>5. largest \subseteq Nums
  BY <1>4 DEF Arrived, AckedByPeer, Inv, Types
<1> QED BY <1>1, <1>2, <1>3, <1>5

\* An arrival leaves the groups as consistent as they were
LEMMA ArrivedGroups ==
    ASSUME Inv, NEW p \in to_b, NEW fs, NEW largest, Arrived(p, fs, largest),
           AllAccepted(p, fs, largest) \/ OneRefused(p, fs, largest),
           to_b' \subseteq to_b, UNCHANGED <<aVars, to_a, told>>
    PROVE  /\ GroupsOK' /\ PacketsOK' /\ ShardsOK' /\ ProcessedOK'
           /\ processed' \in [Units -> Nat] /\ refusals' \subseteq Nat
<1>1. /\ p \in Flight /\ p.pn \in Nums /\ Flight' \subseteq Flight /\ p.gid \in Nat
      /\ UNCHANGED <<made, group, encoded, a_next, sent>>
  BY ArrivedIs DEF Flight, aVars, Inv, Types, DataPacket
<1>2. fs = ToProcess(p) /\ processed' = [u \in Units |-> processed[u] + Count(fs, u)]
  BY DEF Arrived
<1>3. /\ processed' \in [Units -> Nat]
      /\ \A u \in Units : processed[u] > 0 => processed'[u] > 0
      /\ Accepted(fs) = DOMAIN fs => \A u \in Units :
           (\E i \in DOMAIN fs : fs[i].unit = u) => processed'[u] > 0
  BY ONLY Inv, <1>1, <1>2, UnitsProcessed
<1>4. refusals \subseteq refusals' /\ refusals' \subseteq Nat
      /\ (recorded' = recorded \/ recorded' = recorded \cup {p.pn})
      /\ (Accepted(fs) = DOMAIN fs \/ (p.gid \in refusals' /\ recorded' = recorded))
  BY <1>1 DEF AllAccepted, OneRefused, Inv, Types
<1>5. GroupsOK'
  BY <1>1 DEF Inv, GroupsOK
<1>6. PacketsOK'
  <2>1. p.pn < a_next
    BY <1>1 DEF Inv, PacketsOK
  <2>2. \A n \in recorded' : n < a_next
    BY <1>4, <2>1 DEF Inv, PacketsOK
  <2> QED BY <1>1, <2>2 DEF Inv, PacketsOK, Inside
<1>7. ASSUME NEW g \in 1..Len(made), NEW i \in Nat, Inside(g, i), i < made[g].m
      PROVE  made[g].data[i + 1].unit \in Units
  <2>1. made[g].data \in Seq(Frame) /\ Len(made[g].data) \in Nat /\ i < Len(made[g].data)
    BY <1>7, GroupBounds DEF Inv, Inside
  <2>2. made[g].data[i + 1] \in Frame
    BY <2>1
  <2> QED BY <2>2 DEF Frame
<1>8. ShardsOK'
  <2>1. ASSUME NEW g \in DOMAIN shards
        PROVE  /\ g \in 1..Len(made) /\ shards[g] \subseteq Nat /\ \A i \in shards[g] : Inside(g, i)
               /\ Cardinality(shards[g]) >= made[g].m => 0..(made[g].m - 1) \subseteq shards[g]
               /\ g \notin refusals' => \A i \in shards[g] :
                    i < made[g].m => processed'[made[g].data[i + 1].unit] > 0
    <3>1. /\ g \in 1..Len(made) /\ shards[g] \subseteq Nat /\ \A i \in shards[g] : Inside(g, i)
          /\ Cardinality(shards[g]) >= made[g].m => 0..(made[g].m - 1) \subseteq shards[g]
          /\ g \notin refusals => \A i \in shards[g] :
               i < made[g].m => processed[made[g].data[i + 1].unit] > 0
      BY DEF Inv, ShardsOK
    <3>2. g \notin refusals' => \A i \in shards[g] :
            i < made[g].m => processed'[made[g].data[i + 1].unit] > 0
      <4> SUFFICES ASSUME g \notin refusals', NEW i \in shards[g], i < made[g].m
                   PROVE  processed'[made[g].data[i + 1].unit] > 0
        OBVIOUS
      <4>1. made[g].data[i + 1].unit \in Units
        BY <1>7, <3>1
      <4>2. processed[made[g].data[i + 1].unit] > 0
        BY <1>4, <3>1
      <4> QED BY <1>3, <4>1, <4>2
    <3> QED BY ONLY <3>1, <3>2
  <2>2. CASE p.gid = 0
    <3>1. shards' = shards
      BY <2>2 DEF Arrived
    <3> QED BY <1>1, <2>1, <3>1 DEF ShardsOK, Inside
  <2>3. CASE p.gid # 0
    <3>1. shards' = ShardsAfter(p)
      BY <2>3 DEF Arrived
    <3>2. /\ DOMAIN ShardsAfter(p) = DOMAIN shards \cup {p.gid}
          /\ \A g \in DOMAIN shards : g # p.gid => ShardsAfter(p)[g] = shards[g]
          /\ ShardsAfter(p)[p.gid] \subseteq Nat
          /\ \A i \in ShardsAfter(p)[p.gid] : Inside(p.gid, i)
          /\ Cardinality(ShardsAfter(p)[p.gid]) >= made[p.gid].m =>
               0..(made[p.gid].m - 1) \subseteq ShardsAfter(p)[p.gid]
          /\ Accepted(fs) = DOMAIN fs /\ p.gid \notin refusals =>
               \A i \in ShardsAfter(p)[p.gid] :
                  i < made[p.gid].m => processed'[made[p.gid].data[i + 1].unit] > 0
      BY ONLY Inv, <1>1, <1>2, <2>3, ShardsAfterIs
    <3>3. p.gid \in 1..Len(made)
      BY <1>1, <2>3 DEF Inv, PacketsOK
    <3>4. p.gid \notin refusals' => Accepted(fs) = DOMAIN fs /\ p.gid \notin refusals
      BY <1>4
    <3>5. DOMAIN shards' \subseteq 1..Len(made)
      BY <2>1, <3>1, <3>2, <3>3
    <3>6. ASSUME NEW g \in DOMAIN shards'
          PROVE  /\ shards'[g] \subseteq Nat /\ \A i \in shards'[g] : Inside(g, i)
                 /\ Cardinality(shards'[g]) >= made[g].m => 0..(made[g].m - 1) \subseteq shards'[g]
                 /\ g \notin refusals' => \A i \in shards'[g] :
                      i < made[g].m => processed'[made[g].data[i + 1].unit] > 0
      <4>1. CASE g = p.gid
        BY ONLY <3>1, <3>2, <3>4, <4>1
      <4>2. CASE g # p.gid
        <5>1. g \in DOMAIN shards /\ shards'[g] = shards[g]
          BY <3>1, <3>2, <4>2
        <5> QED BY ONLY <2>1, <5>1
      <4> QED BY <4>1, <4>2
    <3> QED BY <1>1, <3>5, <3>6 DEF ShardsOK, Inside
  <2> QED BY <2>2, <2>3
<1>9. ProcessedOK'
  <2> SUFFICES ASSUME NEW q \in Flight', q.pn \in recorded', q.unit \in Units
               PROVE  processed'[q.unit] > 0
    BY DEF ProcessedOK
  <2>1. CASE q.pn \in recorded
    <3>1. processed[q.unit] > 0
      BY <1>1, <2>1 DEF Inv, ProcessedOK
    <3> QED BY <1>3, <3>1
  <2>2. CASE q.pn \notin recorded
    <3>1. q.pn = p.pn /\ Accepted(fs) = DOMAIN fs
      BY <1>4, <2>2
    <3>2. q = p
      BY <1>1, <3>1 DEF Inv, PacketsOK
    <3>3. ~IsRepair(p)
      <4>1. p.gid # 0 /\ p.index >= made[p.gid].m => p.unit = NoUnit
        BY <1>1 DEF Inv, PacketsOK
      <4> QED BY <3>2, <4>1, ExchangeConstants DEF IsRepair
    <3>4. \E i \in DOMAIN fs : fs[i] = Frames(p)
      <4>1. Inv /\ p \in Flight
        BY <1>1
      <4>2. ~IsRepair(p) => \E i \in DOMAIN fs : fs[i] = Frames(p)
        BY ONLY <4>1, <1>2, ToProcessIs
      <4> QED BY ONLY <3>3, <4>2
    <3>5. \E i \in DOMAIN fs : fs[i].unit = p.unit
      BY <3>4 DEF Frames
    <3> QED BY <1>3, <3>1, <3>2, <3>5
  <2> QED BY <2>1, <2>2
<1> QED BY <1>3, <1>4, <1>5, <1>6, <1>8, <1>9

\* An arrival that is recorded
LEMMA RecordedStep ==
    ASSUME Inv, NEW p \in to_b, NEW fs, NEW largest, Arrived(p, fs, largest),
           AllAccepted(p, fs, largest), UNCHANGED <<aVars, to_a, told>>
    PROVE  /\ WindowOK' /\ AcksOK' /\ Kept'
           /\ handled' \in [Nums -> Nat] /\ recorded' \subseteq Nums /\ until' \in Int
           /\ b_window'.lower \in Nat /\ b_window'.bits \subseteq Nat
           /\ Ranges(b_need_ack', MaxPn)
<1>1. /\ largest \subseteq Nums /\ p.pn \notin recorded /\ p.pn \in Nums
      /\ b_sent' \subseteq b_sent
  BY ArrivedIs
<1>2. Acks' \subseteq Acks /\ group_acked' = group_acked /\ told' = told
  BY <1>1 DEF Acks, aVars
<1>3. recorded' = recorded \cup {p.pn} /\ recorded' \subseteq Nums
  BY <1>1 DEF AllAccepted, Inv, Types
<1>4. /\ handled' \in [Nums -> Nat] /\ handled[p.pn] = 0 /\ handled'[p.pn] = 1
      /\ \A n \in Nums : n # p.pn => handled'[n] = handled[n]
  <2>1. handled \in [Nums -> Nat] /\ handled[p.pn] = 0
    BY <1>1 DEF Inv, Types, WindowOK
  <2>2. handled' = [handled EXCEPT ![p.pn] = @ + 1]
    BY DEF AllAccepted
  <2> QED BY ONLY <1>1, <2>1, <2>2
<1>5. /\ b_window'.lower \in Nat /\ b_window'.bits \subseteq Nat
      /\ \A i \in b_window'.bits : i <= WindowUpper(b_window', WindowSize)
      /\ p.pn < b_window'.lower \/ p.pn \in b_window'.bits
      /\ \A i \in Nat : i < b_window.lower \/ i \in b_window.bits =>
                          i < b_window'.lower \/ i \in b_window'.bits
  <2>1. /\ b_window.lower \in Nat /\ b_window.bits \subseteq Nat
        /\ \A i \in b_window.bits : i <= WindowUpper(b_window, WindowSize)
    BY DEF Inv, Types, WindowOK
  <2>2. /\ ~WindowContains(b_window, WindowSize, p.pn)
        /\ b_window' = WindowInsert(b_window, WindowSize, p.pn)
    BY DEF Arrived, AllAccepted
  <2>3. WindowSize \in Nat \ {0} /\ p.pn \in Nat
    BY <1>1, ExchangeConstants DEF Nums
  <2> QED BY ONLY <2>1, <2>2, <2>3, WindowInsertIs
<1>6. WindowOK'
  <2>1. \A n \in recorded' : n < b_window'.lower \/ n \in b_window'.bits
    <3>1. \A n \in recorded : n \in Nat /\ (n < b_window.lower \/ n \in b_window.bits)
      BY DEF Inv, WindowOK, Types, Nums
    <3> QED BY <1>3, <1>5, <3>1
  <2>2. \A n \in Nums : handled'[n] = 0 \/ (handled'[n] = 1 /\ n \in recorded')
    BY <1>3, <1>4 DEF Inv, WindowOK
  <2> QED BY <1>5, <2>1, <2>2 DEF WindowOK
<1>7. /\ Ranges(b_need_ack', MaxPn)
      /\ Flat(b_need_ack') = StillNeeded(b_need_ack, p.pn, largest)
  <2>1. b_need_ack' = NeedAckAfter(b_need_ack, p.pn, largest)
    BY DEF AllAccepted
  <2>2. MaxPn \in Nat /\ Ranges(b_need_ack, MaxPn) /\ p.pn \in 0..(MaxPn - 1)
        /\ largest \subseteq 0..(MaxPn - 1)
    BY <1>1, ExchangeConstants DEF Inv, Types, Nums
  <2>3. /\ Ranges(NeedAckAfter(b_need_ack, p.pn, largest), MaxPn)
        /\ Flat(NeedAckAfter(b_need_ack, p.pn, largest)) = StillNeeded(b_need_ack, p.pn, largest)
    BY ONLY <2>2, NeedAckIs
  <2> QED BY ONLY <2>1, <2>3
<1>8. until' \in Int /\ until <= until' /\ \A l \in largest : l <= until'
  <2> PICK S : S = {until} \cup largest
    OBVIOUS
  <2>1. S \subseteq Int /\ until \in S /\ until \in Int
    <3>1. until \in Int
      BY DEF Inv, Types
    <3>2. largest \subseteq Int
      BY <1>1, ExchangeConstants DEF Nums
    <3> QED BY <3>1, <3>2
  <2>2. IsFiniteSet(S)
    <3>1. IsFiniteSet(Nums)
      BY ExchangeConstants, FS_Interval DEF Nums
    <3>2. IsFiniteSet(largest)
      BY <1>1, <3>1, FS_Subset
    <3> QED BY <3>2, FS_AddElement
  <2>3. Max(S) \in S /\ \A y \in S : Max(S) >= y
    BY ONLY <2>1, <2>2, MaxOfFinite
  <2>4. until' = Max(S)
    BY DEF AllAccepted
  <2> QED BY <2>1, <2>3, <2>4
<1>9. Kept'
  <2> SUFFICES ASSUME NEW n \in recorded', n > until' PROVE n \in Flat(b_need_ack')
    BY DEF Kept
  <2>1. CASE n = p.pn
    BY <1>7, <2>1 DEF StillNeeded
  <2>2. CASE n # p.pn
    <3>1. n \in recorded /\ n \in Int /\ until \in Int
      BY <1>3, <2>2 DEF Inv, Types, Nums
    <3>2. n > until
      BY <1>8, <3>1
    <3>3. n \in Flat(b_need_ack)
      BY <3>1, <3>2 DEF Inv, Kept
    <3>4. \A l \in largest : n > l
      BY <1>1, <1>8, <3>1 DEF Nums
    <3> QED BY <1>7, <3>3, <3>4 DEF StillNeeded
  <2> QED BY <2>1, <2>2
<1>10. AcksOK'
  <2>1. Flat(b_need_ack') \subseteq recorded' /\ Flat(b_need_ack') # {}
    BY <1>3, <1>7 DEF Inv, AcksOK, StillNeeded
  <2>2. recorded \subseteq recorded'
    BY <1>3
  <2> QED BY <1>2, <2>1, <2>2 DEF Inv, AcksOK
<1> QED BY <1>3, <1>4, <1>5, <1>6, <1>7, <1>8, <1>9, <1>10

\* Any packet that arrives
LEMMA ReceiveDataPreserves ==
    ASSUME Inv, NEW p \in to_b, ReceiveData(p)
    PROVE  Inv'
<1>1. /\ to_b' \subseteq to_b /\ UNCHANGED <<aVars, to_a, told>>
      /\ \/ UNCHANGED <<bVars, recorded, handled, until>>
         \/ \E fs, largest : /\ Arrived(p, fs, largest)
                             /\ AllAccepted(p, fs, largest) \/ OneRefused(p, fs, largest)
  BY ReceiveDataCases
<1>2. UNCHANGED <<work, a_next, group, encoded, made, sent, group_acked, settled, a_need_ack>>
      /\ Flight' \subseteq Flight
  BY <1>1 DEF aVars, Flight
<1>3. CASE UNCHANGED <<bVars, recorded, handled, until>>
  <2>1. UNCHANGED <<b_need_ack, b_window, b_elicited, b_next, b_sent, b_acked, shards,
                    processed, refusals, recorded, handled, until>>
    BY <1>3 DEF bVars
  <2>2. Acks' = Acks /\ Flat(b_need_ack)' = Flat(b_need_ack)
    BY <1>1, <2>1 DEF Acks
  <2>3. Types' /\ WindowOK'
    BY <1>1, <1>2, <2>1, <2>2 DEF Inv, Types, WindowOK
  <2>4. AcksOK' /\ Kept'
    BY <1>1, <1>2, <2>1, <2>2 DEF Inv, AcksOK, Kept
  <2>5. GroupsOK' /\ PacketsOK'
    BY <1>2, <2>1 DEF Inv, GroupsOK, PacketsOK, Inside
  <2>6. ShardsOK' /\ ProcessedOK'
    BY <1>2, <2>1 DEF Inv, ShardsOK, ProcessedOK, Inside
  <2> QED BY <2>3, <2>4, <2>5, <2>6 DEF Inv
<1>4. ASSUME NEW fs, NEW largest, Arrived(p, fs, largest),
             AllAccepted(p, fs, largest) \/ OneRefused(p, fs, largest)
      PROVE  Inv'
  <2>1. /\ GroupsOK' /\ PacketsOK' /\ ShardsOK' /\ ProcessedOK'
        /\ processed' \in [Units -> Nat] /\ refusals' \subseteq Nat
    BY <1>1, <1>4, ArrivedGroups
  <2>2. largest \subseteq Nums /\ b_sent' \subseteq b_sent /\ b_next' = b_next
    BY <1>4, ArrivedIs DEF Arrived
  <2>3. Acks' \subseteq Acks
    BY <1>1, <2>2 DEF Acks
  <2>4. CASE AllAccepted(p, fs, largest)
    <3>1. /\ WindowOK' /\ AcksOK' /\ Kept'
          /\ handled' \in [Nums -> Nat] /\ recorded' \subseteq Nums /\ until' \in Int
          /\ b_window'.lower \in Nat /\ b_window'.bits \subseteq Nat
          /\ Ranges(b_need_ack', MaxPn)
      BY <1>1, <1>4, <2>4, RecordedStep
    <3>2. b_acked' = {} /\ b_elicited' = TRUE
      BY <2>4 DEF AllAccepted
    <3>3. Types'
      BY <1>1, <1>2, <2>1, <2>2, <2>3, <3>1, <3>2 DEF Inv, Types
    <3> QED BY <2>1, <3>1, <3>3 DEF Inv
  <2>5. CASE OneRefused(p, fs, largest)
    <3>1. b_acked' \subseteq Nums
          /\ UNCHANGED <<b_need_ack, b_window, b_elicited, recorded, handled, until>>
      BY <2>2, <2>5 DEF OneRefused
    <3>2. Types'
      BY <1>1, <1>2, <2>1, <2>2, <2>3, <3>1 DEF Inv, Types
    <3>3. WindowOK'
      BY <3>1 DEF Inv, WindowOK
    <3>4. Flat(b_need_ack)' = Flat(b_need_ack)
      BY <3>1
    <3>5. AcksOK' /\ Kept'
      BY <1>1, <1>2, <2>3, <3>1, <3>4 DEF Inv, AcksOK, Kept
    <3> QED BY <2>1, <3>2, <3>3, <3>5 DEF Inv
  <2> QED BY <1>4, <2>4, <2>5
<1> QED BY <1>1, <1>3, <1>4

-----------------------------------------------------------------------------
(* A receives an ACK *)

\* The numbers acknowledged of a group when those of `newly' are, too
AckedIn(g, newly) == group_acked[g] \cup {p.pn : p \in {q \in newly : q.gid = g}}

\* An ACK frame that A has not seen yet: the packets it acknowledges, those of a
\* group with enough acknowledged, and the ACK frames in both
AckArrived(a, newly, recovered, largest) ==
    /\ newly = {p \in sent : p.pn \in a.acks}
    /\ recovered = {p \in sent : p.gid # 0 /\ RecoveredBy(p.gid, AckedIn(p.gid, newly))
                                   /\ \E q \in newly : q.gid = p.gid}
    /\ largest = {Max(p.acks) : p \in {q \in newly \cup recovered : q.acks # {}}}
    /\ sent' = sent \ newly
    /\ group_acked' = [g \in DOMAIN group_acked |-> AckedIn(g, newly)]
    /\ settled' = settled \cup ({p.unit : p \in newly \cup recovered} \cap Units)
    /\ a_need_ack' = NeedAckAfter(a_need_ack, a.pn, largest)
    /\ a_window' = WindowInsert(a_window, WindowSize, a.pn)
    /\ told' = told \cup a.acks
    /\ UNCHANGED <<work, a_next, group, encoded, made>>

LEMMA ReceiveAckCases ==
    ASSUME NEW a, ReceiveAck(a)
    PROVE  /\ a \in to_a /\ to_a' = to_a \ {a}
           /\ UNCHANGED <<bVars, to_b, recorded, handled, until>>
           /\ \/ UNCHANGED <<aVars, told>>
              \/ \E newly, recovered, largest : AckArrived(a, newly, recovered, largest)
<1> DEFINE newly == {p \in sent : p.pn \in a.acks}
           recovered == {p \in sent : p.gid # 0 /\ RecoveredBy(p.gid, AckedIn(p.gid, newly))
                                        /\ \E q \in newly : q.gid = p.gid}
           largest == {Max(p.acks) : p \in {q \in newly \cup recovered : q.acks # {}}}
<1>1. /\ a \in to_a /\ to_a' = to_a \ {a}
      /\ IF WindowContains(a_window, WindowSize, a.pn)
         THEN UNCHANGED <<aVars, told>>
         ELSE /\ sent' = sent \ newly
              /\ group_acked' = [g \in DOMAIN group_acked |-> AckedIn(g, newly)]
              /\ settled' = settled \cup ({p.unit : p \in newly \cup recovered} \cap Units)
              /\ a_need_ack' = NeedAckAfter(a_need_ack, a.pn, largest)
              /\ a_window' = WindowInsert(a_window, WindowSize, a.pn)
              /\ told' = told \cup a.acks
              /\ UNCHANGED <<work, a_next, group, encoded, made>>
      /\ UNCHANGED <<bVars, to_b, copies, losses, recorded, handled, until>>
  BY Zenon DEF ReceiveAck, AckedIn
<1>2. /\ newly = {p \in sent : p.pn \in a.acks}
      /\ recovered = {p \in sent : p.gid # 0 /\ RecoveredBy(p.gid, AckedIn(p.gid, newly))
                                     /\ \E q \in newly : q.gid = p.gid}
      /\ largest = {Max(p.acks) : p \in {q \in newly \cup recovered : q.acks # {}}}
  OBVIOUS
<1> HIDE DEF newly, recovered, largest
<1>3. CASE WindowContains(a_window, WindowSize, a.pn)
  BY ONLY <1>1, <1>3
<1>4. CASE ~WindowContains(a_window, WindowSize, a.pn)
  <2>1. AckArrived(a, newly, recovered, largest)
    BY ONLY <1>1, <1>2, <1>4, Zenon DEF AckArrived
  <2> QED BY ONLY <1>1, <2>1
<1> QED BY <1>3, <1>4

\* What the frame acknowledges was recorded, as was all of the groups it completes
LEMMA AckArrivedIs ==
    ASSUME Inv, NEW a \in to_a, NEW newly, NEW recovered, NEW largest,
           AckArrived(a, newly, recovered, largest)
    PROVE  /\ a \in AckPkt /\ a.acks \subseteq recorded
           /\ newly \subseteq sent /\ recovered \subseteq sent /\ sent \subseteq DataPacket
           /\ \A p \in newly : p.pn \in recorded
           /\ group_acked' \in Seq(SUBSET Nums) /\ Len(group_acked') = Len(made)
           /\ \A g \in 1..Len(made) : group_acked'[g] = AckedIn(g, newly)
                                      /\ group_acked'[g] \subseteq recorded
           /\ largest \subseteq AckNums /\ Ranges(a_need_ack', MaxAcks)
<1>1. a \in AckPkt /\ a.acks \subseteq recorded /\ recorded \subseteq Nums
  BY DEF Acks, Inv, Types, AcksOK
<1>2. newly \subseteq sent /\ recovered \subseteq sent /\ sent \subseteq DataPacket
      /\ \A p \in newly : p.pn \in recorded
  BY <1>1 DEF AckArrived, Flight, Inv, Types
<1>3. group_acked \in Seq(SUBSET Nums) /\ Len(group_acked) = Len(made)
      /\ DOMAIN group_acked = 1..Len(made) /\ Len(made) \in Nat
  BY DEF Inv, Types
<1>4. group_acked' = [g \in 1..Len(made) |-> AckedIn(g, newly)]
  BY <1>3 DEF AckArrived
<1>5. \A g \in 1..Len(made) : AckedIn(g, newly) \subseteq recorded
  <2> SUFFICES ASSUME NEW g \in 1..Len(made), NEW n \in AckedIn(g, newly) PROVE n \in recorded
    OBVIOUS
  <2>1. n \in group_acked[g] \/ \E p \in newly : n = p.pn
    BY DEF AckedIn
  <2>2. group_acked[g] \subseteq recorded
    BY <1>3 DEF Inv, AcksOK
  <2> QED BY <1>2, <2>1, <2>2
<1>6. /\ group_acked' \in Seq(SUBSET Nums) /\ Len(group_acked') = Len(made)
      /\ \A g \in 1..Len(made) : group_acked'[g] = AckedIn(g, newly)
  <2>1. \A g \in 1..Len(made) : AckedIn(g, newly) \in SUBSET Nums
    BY <1>1, <1>5
  <2> QED BY ONLY <1>3, <1>4, <2>1
<1>7. largest \subseteq AckNums
  <2> SUFFICES ASSUME NEW p \in newly \cup recovered, p.acks # {} PROVE Max(p.acks) \in AckNums
    BY DEF AckArrived
  <2>1. p.acks \in SUBSET AckNums /\ AckNums \subseteq Int
    BY <1>2, ExchangeConstants DEF DataPacket, AckNums
  <2>2. IsFiniteSet(AckNums)
    BY ExchangeConstants, FS_Interval DEF AckNums
  <2>3. IsFiniteSet(p.acks)
    BY ONLY <2>1, <2>2, FS_Subset
  <2>4. Max(p.acks) \in p.acks
    BY <2>1, <2>3, MaxOfFinite
  <2> QED BY <2>1, <2>4
<1>8. Ranges(a_need_ack', MaxAcks)
  <2>1. a_need_ack' = NeedAckAfter(a_need_ack, a.pn, largest)
    BY DEF AckArrived
  <2>2. MaxAcks \in Nat /\ Ranges(a_need_ack, MaxAcks) /\ a.pn \in 0..(MaxAcks - 1)
        /\ largest \subseteq 0..(MaxAcks - 1)
    BY <1>1, <1>7, ExchangeConstants DEF Inv, Types, AckNums, AckPkt
  <2>3. Ranges(NeedAckAfter(a_need_ack, a.pn, largest), MaxAcks)
    BY ONLY <2>2, NeedAckIs
  <2> QED BY ONLY <2>1, <2>3
<1> QED BY <1>1, <1>2, <1>5, <1>6, <1>7, <1>8

LEMMA ReceiveAckPreserves ==
    ASSUME Inv, NEW a \in to_a, ReceiveAck(a)
    PROVE  Inv'
<1>1. /\ to_a' = to_a \ {a} /\ UNCHANGED <<bVars, to_b, recorded, handled, until>>
      /\ \/ UNCHANGED <<aVars, told>>
         \/ \E newly, recovered, largest : AckArrived(a, newly, recovered, largest)
  BY ReceiveAckCases
<1>2. UNCHANGED <<b_need_ack, b_window, b_elicited, b_next, b_sent, b_acked, shards,
                  processed, refusals, recorded, handled, until>>
  BY <1>1 DEF bVars
<1>3. Acks' \subseteq Acks /\ Flat(b_need_ack)' = Flat(b_need_ack)
  BY <1>1, <1>2 DEF Acks
<1>4. SUFFICES /\ Flight' \subseteq Flight /\ UNCHANGED <<work, a_next, group, encoded, made>>
               /\ settled' \subseteq Units /\ Ranges(a_need_ack', MaxAcks)
               /\ group_acked' \in Seq(SUBSET Nums) /\ Len(group_acked') = Len(made)
               /\ \A g \in DOMAIN group_acked' : group_acked'[g] \subseteq recorded
               /\ told' \subseteq recorded
  <2>1. recorded \subseteq Nums
    BY DEF Inv, Types
  <2>2. Types'
    BY <1>2, <1>3, <1>4, <2>1 DEF Inv, Types
  <2>3. WindowOK' /\ Kept'
    BY <1>2, <1>3 DEF Inv, WindowOK, Kept
  <2>4. AcksOK'
    BY <1>2, <1>3, <1>4 DEF Inv, AcksOK
  <2>5. GroupsOK' /\ PacketsOK'
    BY <1>2, <1>4 DEF Inv, GroupsOK, PacketsOK, Inside
  <2>6. ShardsOK' /\ ProcessedOK'
    BY <1>2, <1>4 DEF Inv, ShardsOK, ProcessedOK, Inside
  <2> QED BY <2>2, <2>3, <2>4, <2>5, <2>6 DEF Inv
<1>5. CASE UNCHANGED <<aVars, told>>
  BY <1>1, <1>5 DEF aVars, Flight, Inv, Types, AcksOK
<1>6. ASSUME NEW newly, NEW recovered, NEW largest, AckArrived(a, newly, recovered, largest)
      PROVE  /\ Flight' \subseteq Flight /\ UNCHANGED <<work, a_next, group, encoded, made>>
             /\ settled' \subseteq Units /\ Ranges(a_need_ack', MaxAcks)
             /\ group_acked' \in Seq(SUBSET Nums) /\ Len(group_acked') = Len(made)
             /\ \A g \in DOMAIN group_acked' : group_acked'[g] \subseteq recorded
             /\ told' \subseteq recorded
  <2>1. /\ a.acks \subseteq recorded
        /\ group_acked' \in Seq(SUBSET Nums) /\ Len(group_acked') = Len(made)
        /\ \A g \in 1..Len(made) : group_acked'[g] \subseteq recorded
        /\ Ranges(a_need_ack', MaxAcks)
    BY <1>6, AckArrivedIs
  <2>2. /\ sent' \subseteq sent /\ UNCHANGED <<work, a_next, group, encoded, made>>
        /\ settled' \subseteq Units /\ told' \subseteq recorded
    BY <1>6, <2>1 DEF AckArrived, Inv, Types, AcksOK
  <2>3. DOMAIN group_acked' = 1..Len(made)
    BY <2>1
  <2> QED BY <1>1, <2>1, <2>2, <2>3 DEF Flight
<1> QED BY <1>1, <1>5, <1>6

-----------------------------------------------------------------------------
(* The exchange *)

LEMMA InitInv == Init => Inv
<1> SUFFICES ASSUME Init PROVE Inv
  OBVIOUS
<1>1. /\ work = Units /\ a_next = 0 /\ group = NoGroup /\ encoded = <<>> /\ made = <<>>
      /\ sent = {} /\ group_acked = <<>> /\ settled = {} /\ a_need_ack = {}
      /\ b_need_ack = {} /\ b_window = EmptyWindow /\ b_elicited = FALSE
      /\ b_next = 0 /\ b_sent = {} /\ b_acked = {}
      /\ shards = <<>> /\ processed = [u \in Units |-> 0] /\ refusals = {}
      /\ to_b = {} /\ to_a = {}
      /\ recorded = {} /\ handled = [n \in 0..(MaxPn - 1) |-> 0] /\ told = {} /\ until = -1
  BY DEF Init
<1>2. Flight = {} /\ Acks = {} /\ Flat(b_need_ack) = {}
  BY <1>1 DEF Flight, Acks, Flat
<1>3. /\ b_window.lower = 0 /\ b_window.bits = {}
      /\ group_acked \in Seq(SUBSET Nums) /\ made \in Seq(Group) /\ encoded \in Seq(Nat \X Nat)
      /\ Len(made) = 0 /\ Len(group_acked) = 0 /\ Len(encoded) = 0
      /\ DOMAIN group_acked = {} /\ DOMAIN shards = {}
  BY <1>1 DEF EmptyWindow
<1>4. NoGroup \in [gid : Nat, m : Nat, n : Nat, next : Nat]
  BY DEF NoGroup
<1>5. Types
  <2>1. Ranges({}, MaxAcks) /\ Ranges({}, MaxPn)
    BY DEF Ranges
  <2>2. handled \in [Nums -> Nat] /\ processed \in [Units -> Nat] /\ until \in Int
    BY <1>1 DEF Nums
  <2>3. a_next \in 0..MaxPn /\ b_next \in 0..MaxAcks
    BY <1>1, ExchangeConstants
  <2>4. /\ work \subseteq Units /\ settled \subseteq Units /\ b_acked \subseteq Nums
        /\ refusals \subseteq Nat /\ recorded \subseteq Nums /\ told \subseteq Nums
        /\ b_elicited \in BOOLEAN /\ b_window.lower \in Nat /\ b_window.bits \subseteq Nat
    <3>1. b_elicited \in BOOLEAN
      BY ONLY <1>1, Zenon
    <3>2. b_window.lower \in Nat /\ b_window.bits \subseteq Nat
      BY ONLY <1>3
    <3>3. /\ work \subseteq Units /\ settled \subseteq Units /\ b_acked \subseteq Nums
          /\ refusals \subseteq Nat /\ recorded \subseteq Nums /\ told \subseteq Nums
      BY ONLY <1>1
    <3> QED BY <3>1, <3>2, <3>3
  <2>5. /\ Flight \subseteq DataPacket /\ Acks \subseteq AckPkt
        /\ group_acked \in Seq(SUBSET Nums) /\ Len(group_acked) = Len(made)
        /\ Ranges(a_need_ack, MaxAcks) /\ Ranges(b_need_ack, MaxPn)
    BY <1>1, <1>2, <1>3, <2>1
  <2> QED BY ONLY <2>2, <2>3, <2>4, <2>5 DEF Types
<1>6. WindowOK /\ AcksOK /\ Kept
  BY <1>1, <1>2, <1>3 DEF WindowOK, AcksOK, Kept, Nums
<1>7. GroupsOK
  BY <1>1, <1>3, <1>4 DEF GroupsOK
<1>8. PacketsOK /\ ShardsOK /\ ProcessedOK
  BY <1>1, <1>2, <1>3 DEF PacketsOK, ShardsOK, ProcessedOK
<1> QED BY <1>5, <1>6, <1>7, <1>8 DEF Inv

LEMMA StepInv ==
    ASSUME Inv, [Next]_vars
    PROVE  Inv'
<1>1. CASE SendRepair
  BY <1>1, SendRepairStep
<1>2. CASE SendData
  BY <1>2, SendDataStep
<1>3. CASE GiveUp
  BY <1>3, GiveUpStep
<1>4. CASE ReceiveDataStep
  BY <1>4, ReceiveDataPreserves DEF ReceiveDataStep
<1>5. ASSUME NEW u \in Units, CollectBlock(u) PROVE Inv'
  BY <1>5, CollectBlockStep
<1>6. CASE SendAck
  BY <1>6, SendAckStep
<1>7. CASE ReceiveAckStep
  BY <1>7, ReceiveAckPreserves DEF ReceiveAckStep
<1>8. CASE UNCHANGED vars
  <2>1. UNCHANGED <<work, a_next, group, encoded, made, sent, group_acked, settled, a_need_ack>>
    BY <1>8 DEF vars, aVars
  <2>2. UNCHANGED <<b_need_ack, b_window, b_elicited, b_next, b_sent, b_acked, shards,
                    processed, refusals>>
    BY <1>8 DEF vars, bVars
  <2>3. UNCHANGED <<to_b, to_a, recorded, handled, told, until>>
    BY <1>8 DEF vars, netVars, histVars
  <2>4. Flight' = Flight /\ Acks' = Acks /\ Flat(b_need_ack)' = Flat(b_need_ack)
    BY <2>1, <2>2, <2>3 DEF Flight, Acks
  <2>5. Types' /\ WindowOK'
    BY <2>1, <2>2, <2>3, <2>4 DEF Inv, Types, WindowOK
  <2>6. AcksOK' /\ Kept'
    BY <2>1, <2>2, <2>3, <2>4 DEF Inv, AcksOK, Kept
  <2>7. GroupsOK' /\ PacketsOK'
    BY <2>1, <2>2, <2>3, <2>4 DEF Inv, GroupsOK, PacketsOK, Inside
  <2>8. ShardsOK' /\ ProcessedOK'
    BY <2>1, <2>2, <2>3, <2>4 DEF Inv, ShardsOK, ProcessedOK, Inside
  <2> QED BY <2>5, <2>6, <2>7, <2>8 DEF Inv
<1> QED BY <1>1, <1>2, <1>3, <1>4, <1>5, <1>6, <1>7, <1>8 DEF Next

LEMMA ExchangeInv == Spec => []Inv
<1>1. Inv /\ [Next]_vars => Inv'
  BY StepInv
<1> QED BY InitInv, <1>1, PTL DEF Spec

\* The frames of a packet are processed to the last once at most, whatever the
\* width of the window and the order of arrival (PktNumWindow).
THEOREM HandledOnceCorrect == Spec => []HandledOnce
<1>1. Inv => HandledOnce
  BY DEF Inv, Types, WindowOK, HandledOnce
<1> QED BY ExchangeInv, <1>1, PTL

\* A acts only on acknowledgments of packets B has processed completely: the range
\* set of recv_single never gets a number process_frame gave up on.
THEOREM AckedCorrect == Spec => []AckedWasRecorded
<1>1. Inv => AckedWasRecorded
  BY DEF Inv, AcksOK, AckedWasRecorded
<1> QED BY ExchangeInv, <1>1, PTL

\* The ranges stay disjoint, with gaps, and hold every number that was recorded
\* after the largest of an ACK frame the peer acknowledged (RangeSet::insert,
\* remove_until).
THEOREM RangesCorrect == Spec => []RangesExact
<1>1. Inv => RangesExact
  BY DEF Inv, Types, Ranges, Kept, RangesExact
<1> QED BY ExchangeInv, <1>1, PTL

-----------------------------------------------------------------------------
(* What A concludes from the acknowledgments of a group *)

\* Each number A used has a place in a group, or in none, that no other has
Places == \E h : PlacesOK(h)

\* A new packet takes a place of its own
LEMMA NewPlace ==
    ASSUME Inv, Inv', NEW h, PlacesOK(h), Grown, NEW p \in DataPacket,
           sent' = sent \cup {p}, to_b' = to_b \cup {p}, p.pn = a_next, a_next' = a_next + 1,
           UNCHANGED <<recorded, shards>>,
           p.gid # 0 => p.gid \in 1..Len(made') /\ Inside(p.gid, p.index)',
           \A i \in 0..(a_next - 1) : h[i][1] # 0 => h[i] # <<p.gid, p.index>>,
           \A k \in 1..Len(encoded') : \A i \in 0..(a_next - 1) : h[i] # encoded'[k],
           \A k \in 1..Len(encoded') : <<p.gid, p.index>> # encoded'[k],
           \A g \in DOMAIN group_acked' : \A n \in group_acked'[g] :
              g \in DOMAIN group_acked /\ n \in group_acked[g]
    PROVE  Places'
<1> PICK c : c = <<p.gid, p.index>>
  OBVIOUS
<1> PICK f : f = [h EXCEPT ![a_next] = c]
  OBVIOUS
<1>1. /\ h \in [Nums -> Nat \X Nat] /\ a_next \in Nums /\ a_next \in Nat
      /\ c \in Nat \X Nat /\ c[1] = p.gid /\ c[2] = p.index
  BY DEF PlacesOK, DataPacket, Nums
<1>2. /\ f \in [Nums -> Nat \X Nat] /\ f[a_next] = c
      /\ \A i \in Nums : i # a_next => f[i] = h[i]
  BY ONLY <1>1, f = [h EXCEPT ![a_next] = c]
<1>3. \A i \in 0..(a_next - 1) : i \in Nums /\ i # a_next /\ f[i] = h[i]
  <2>1. \A i \in 0..(a_next - 1) : i \in Nums /\ i # a_next
    BY ONLY <1>1, ExchangeConstants DEF Nums
  <2> QED BY ONLY <1>2, <2>1
<1>4. \A i \in 0..(a_next' - 1) : i \in 0..(a_next - 1) \/ i = a_next
  BY <1>1
<1>5. \A q \in Flight' : f[q.pn] = <<q.gid, q.index>>
  <2> SUFFICES ASSUME NEW q \in Flight' PROVE f[q.pn] = <<q.gid, q.index>>
    OBVIOUS
  <2>1. CASE q \in Flight
    <3>1. q.pn \in 0..(a_next - 1)
      BY <2>1 DEF Inv, PacketsOK, Types, DataPacket, Nums
    <3> QED BY <1>3, <2>1, <3>1 DEF PlacesOK
  <2>2. CASE q = p
    BY <1>2, <2>2
  <2> QED BY <2>1, <2>2 DEF Flight
<1>6. ASSUME NEW i \in 0..(a_next - 1), h[i][1] # 0
      PROVE  h[i][1] \in 1..Len(made') /\ Inside(h[i][1], h[i][2])'
  <2>1. h[i][1] \in 1..Len(made) /\ Inside(h[i][1], h[i][2])
    BY <1>6 DEF PlacesOK
  <2>2. h[i][2] \in Nat
    BY <1>1, <1>3
  <2> QED BY <2>1, <2>2, InsideKept DEF Inv
<1>7. \A i \in 0..(a_next' - 1) :
         /\ f[i][1] # 0 => f[i][1] \in 1..Len(made') /\ Inside(f[i][1], f[i][2])'
         /\ \A k \in 1..Len(encoded') : f[i] # encoded'[k]
  <2> SUFFICES ASSUME NEW i \in 0..(a_next' - 1)
               PROVE  /\ f[i][1] # 0 => f[i][1] \in 1..Len(made') /\ Inside(f[i][1], f[i][2])'
                      /\ \A k \in 1..Len(encoded') : f[i] # encoded'[k]
    OBVIOUS
  <2>1. CASE i \in 0..(a_next - 1)
    <3>1. f[i] = h[i]
      BY <1>3, <2>1
    <3>2. h[i][1] # 0 => h[i][1] \in 1..Len(made') /\ Inside(h[i][1], h[i][2])'
      BY <1>6, <2>1
    <3> QED BY <2>1, <3>1, <3>2
  <2>2. CASE i = a_next
    BY <1>1, <1>2, <2>2
  <2> QED BY <1>4, <2>1, <2>2
<1>8. \A i, j \in 0..(a_next' - 1) : f[i] = f[j] /\ f[i][1] # 0 => i = j
  <2> SUFFICES ASSUME NEW i \in 0..(a_next' - 1), NEW j \in 0..(a_next' - 1),
                      f[i] = f[j], f[i][1] # 0, i # j
               PROVE  FALSE
    OBVIOUS
  <2>1. CASE i = a_next
    <3>1. j \in 0..(a_next - 1) /\ f[j] = h[j] /\ f[i] = c
      BY <1>2, <1>3, <1>4, <2>1
    <3> QED BY <3>1
  <2>2. CASE j = a_next
    <3>1. i \in 0..(a_next - 1) /\ f[i] = h[i] /\ f[j] = c
      BY <1>2, <1>3, <1>4, <2>2
    <3> QED BY <3>1
  <2>3. CASE i # a_next /\ j # a_next
    BY <1>3, <1>4, <2>3 DEF PlacesOK
  <2> QED BY <2>1, <2>2, <2>3
<1>9. \A n \in recorded' : f[n] = h[n] /\ n \in recorded
  <2>1. \A n \in recorded : n \in 0..(a_next - 1)
    BY DEF Inv, PacketsOK, Types, Nums
  <2> QED BY <1>3, <2>1
<1>10. \A n \in recorded' : f[n][1] # 0 => f[n][1] \in DOMAIN shards' /\ f[n][2] \in shards'[f[n][1]]
  BY <1>9 DEF PlacesOK
<1>11. \A g \in DOMAIN group_acked' : \A n \in group_acked'[g] : f[n][1] = g
  <2> SUFFICES ASSUME NEW g \in DOMAIN group_acked', NEW n \in group_acked'[g] PROVE f[n][1] = g
    OBVIOUS
  <2>1. g \in DOMAIN group_acked /\ n \in group_acked[g]
    OBVIOUS
  <2>2. n \in recorded
    BY <2>1 DEF Inv, AcksOK
  <2>3. h[n][1] = g
    BY <2>1 DEF PlacesOK
  <2> QED BY <1>9, <2>2, <2>3
<1>12. PlacesOK(f)'
  BY <1>2, <1>5, <1>7, <1>8, <1>10, <1>11 DEF PlacesOK
<1> QED BY <1>12 DEF Places

\* When no packet is new, the places stay; what is recorded and acknowledged has one
LEMMA PlacesKept ==
    ASSUME Inv, Places, Flight' \subseteq Flight, UNCHANGED <<made, encoded, a_next>>,
           \A n \in recorded' : n \in recorded \/ \E p \in Flight :
              n = p.pn /\ (p.gid # 0 => p.gid \in DOMAIN shards' /\ p.index \in shards'[p.gid]),
           \A g \in DOMAIN shards : g \in DOMAIN shards' /\ shards[g] \subseteq shards'[g],
           \A g \in DOMAIN group_acked' : \A n \in group_acked'[g] :
              \/ g \in DOMAIN group_acked /\ n \in group_acked[g]
              \/ \E p \in Flight : n = p.pn /\ p.gid = g
    PROVE  Places'
<1>1. PICK h : PlacesOK(h)
  BY DEF Places
<1>2. \A p \in Flight : h[p.pn] = <<p.gid, p.index>> /\ h[p.pn][1] = p.gid /\ h[p.pn][2] = p.index
  <2>1. \A p \in Flight : h[p.pn] = <<p.gid, p.index>>
    BY ONLY <1>1 DEF PlacesOK
  <2> QED BY ONLY <2>1
<1>3. \A n \in recorded' : h[n][1] # 0 => h[n][1] \in DOMAIN shards' /\ h[n][2] \in shards'[h[n][1]]
  <2> SUFFICES ASSUME NEW n \in recorded', h[n][1] # 0
               PROVE  h[n][1] \in DOMAIN shards' /\ h[n][2] \in shards'[h[n][1]]
    OBVIOUS
  <2>1. CASE n \in recorded
    BY <1>1, <2>1 DEF PlacesOK
  <2>2. CASE n \notin recorded
    BY <1>2, <2>2
  <2> QED BY <2>1, <2>2
<1>4. \A g \in DOMAIN group_acked' : \A n \in group_acked'[g] : h[n][1] = g
  BY <1>1, <1>2 DEF PlacesOK
<1>5. PlacesOK(h)'
  BY <1>1, <1>3, <1>4 DEF PlacesOK, Inside
<1> QED BY <1>5 DEF Places

\* A repair packet has the place that fec_encoded kept for it
LEMMA RepairPlace ==
    ASSUME Inv, Inv', Places, SendRepair
    PROVE  Places'
<1> PICK p : p = [pn |-> a_next, unit |-> NoUnit, acks |-> {}, gid |-> Head(encoded)[1],
                  index |-> Head(encoded)[2]]
  OBVIOUS
<1> PICK h : PlacesOK(h)
  BY DEF Places
<1>1. /\ sent' = sent \cup {p} /\ to_b' = to_b \cup {p} /\ a_next' = a_next + 1
      /\ encoded # <<>> /\ encoded' = Tail(encoded)
      /\ UNCHANGED <<group, made, group_acked, shards, recorded>>
  BY DEF SendRepair, Transmit, bVars, histVars
<1>2. encoded \in Seq(Nat \X Nat) /\ 1 \in 1..Len(encoded) /\ Head(encoded) = encoded[1]
      /\ Len(encoded) \in Nat
  BY <1>1 DEF Inv, GroupsOK
<1>3. \A k \in 1..Len(encoded') : /\ encoded'[k] = encoded[k + 1] /\ k + 1 \in 1..Len(encoded)
                                   /\ k + 1 # 1
  BY <1>1, <1>2
<1>4. /\ encoded[1] \in Nat \X Nat /\ encoded[1][1] \in 1..Len(made)
      /\ made[encoded[1][1]].m <= encoded[1][2]
      /\ encoded[1][2] < made[encoded[1][1]].m + made[encoded[1][1]].n
      /\ group = NoGroup
  BY <1>1, <1>2 DEF Inv, GroupsOK
<1>5. p.pn = a_next /\ p.gid = encoded[1][1] /\ p.index = encoded[1][2]
  BY <1>2
<1>6. <<p.gid, p.index>> = encoded[1]
  BY ONLY <1>4, <1>5
<1>7. p \in DataPacket
  BY <1>1 DEF Inv, Types, Flight
<1>8. Grown
  BY <1>1 DEF Grown
<1>9. p.gid \in 1..Len(made') /\ Inside(p.gid, p.index)'
  <2>1. p.gid \in 1..Len(made')
    BY <1>1, <1>4, <1>5
  <2>2. p \in Flight'
    BY <1>1 DEF Flight
  <2>3. p.gid # 0
    BY <1>4, <1>5
  <2> QED BY <2>1, <2>2, <2>3 DEF Inv, PacketsOK
<1>10. \A i \in 0..(a_next - 1) : \A k \in 1..Len(encoded) : h[i] # encoded[k]
  BY DEF PlacesOK
<1>11. /\ \A i \in 0..(a_next - 1) : h[i][1] # 0 => h[i] # <<p.gid, p.index>>
       /\ \A k \in 1..Len(encoded') : \A i \in 0..(a_next - 1) : h[i] # encoded'[k]
       /\ \A k \in 1..Len(encoded') : <<p.gid, p.index>> # encoded'[k]
  <2>1. \A j, k \in 1..Len(encoded) : encoded[j] = encoded[k] => j = k
    BY DEF Inv, GroupsOK
  <2>2. \A k \in 1..Len(encoded') : encoded'[k] # encoded[1]
    BY <1>2, <1>3, <2>1
  <2> QED BY <1>2, <1>3, <1>6, <1>10, <2>2
<1>12. \A g \in DOMAIN group_acked' : \A n \in group_acked'[g] :
          g \in DOMAIN group_acked /\ n \in group_acked[g]
  BY <1>1
<1> HIDE DEF Grown
<1> QED BY <1>1, <1>5, <1>7, <1>8, <1>9, <1>11, <1>12, NewPlace

\* A packet with data has the next place of the open group
LEMMA DataPlace ==
    ASSUME Inv, Inv', Places, NEW p \in DataPacket,
           sent' = sent \cup {p}, to_b' = to_b \cup {p}, p.pn = a_next, a_next' = a_next + 1,
           FedEffect(p), UNCHANGED <<recorded, shards>>
    PROVE  Places'
<1> PICK h : PlacesOK(h)
  BY DEF Places
<1>1. /\ Grown
      /\ p.gid # 0 =>
           /\ p.gid \in 1..Len(made') /\ p.index < made'[p.gid].m
           /\ p.gid \in 1..Len(made) => p.index = Len(made[p.gid].data)
                                         /\ Len(made[p.gid].data) < made[p.gid].m
      /\ \A k \in 1..Len(encoded') :
           p.gid # 0 /\ encoded'[k][1] = p.gid /\ made'[p.gid].m <= encoded'[k][2]
  BY DEF FedEffect
<1>2. p.gid # 0 => Inside(p.gid, p.index)'
  <2>1. p \in Flight'
    BY DEF Flight
  <2> QED BY <2>1 DEF Inv, PacketsOK
<1>3. ASSUME NEW i \in 0..(a_next - 1), h[i][1] # 0, h[i][1] = p.gid
      PROVE  /\ h[i][2] \in Nat /\ made'[p.gid].m = made[p.gid].m /\ made[p.gid].m \in Nat
             /\ h[i][2] < p.index /\ h[i][2] < made[p.gid].m /\ p.index \in Nat
  <2>1. p.gid \in 1..Len(made) /\ Inside(p.gid, h[i][2])
    BY <1>3 DEF PlacesOK
  <2>2. h[i][2] \in Nat /\ p.index \in Nat
    <3>1. i \in Nums
      BY ExchangeConstants DEF Inv, Types, Nums
    <3> QED BY <3>1 DEF PlacesOK, DataPacket
  <2>3. p.index = Len(made[p.gid].data) /\ Len(made[p.gid].data) < made[p.gid].m
        /\ made'[p.gid].m = made[p.gid].m
    BY <1>1, <1>3, <2>1 DEF Grown
  <2>4. made[p.gid].m \in Nat
    BY <2>1, ShardBounds DEF Inv, Bounded
  <2> QED BY <2>1, <2>2, <2>3, <2>4 DEF Inside
<1>4. \A i \in 0..(a_next - 1) : h[i][1] # 0 => h[i] # <<p.gid, p.index>>
  <2> SUFFICES ASSUME NEW i \in 0..(a_next - 1), h[i][1] # 0, h[i] = <<p.gid, p.index>>
               PROVE  FALSE
    OBVIOUS
  <2>1. h[i][1] = p.gid /\ h[i][2] = p.index
    OBVIOUS
  <2> QED BY <1>3, <2>1
<1>5. \A k \in 1..Len(encoded') : \A i \in 0..(a_next - 1) : h[i] # encoded'[k]
  <2> SUFFICES ASSUME NEW k \in 1..Len(encoded'), NEW i \in 0..(a_next - 1), h[i] = encoded'[k]
               PROVE  FALSE
    OBVIOUS
  <2>1. p.gid # 0 /\ h[i][1] = p.gid /\ made'[p.gid].m <= h[i][2]
    BY <1>1
  <2>2. /\ h[i][2] \in Nat /\ made'[p.gid].m = made[p.gid].m /\ made[p.gid].m \in Nat
        /\ h[i][2] < made[p.gid].m
    BY <1>3, <2>1
  <2> QED BY ONLY <2>1, <2>2
<1>6. \A k \in 1..Len(encoded') : <<p.gid, p.index>> # encoded'[k]
  <2> SUFFICES ASSUME NEW k \in 1..Len(encoded'), <<p.gid, p.index>> = encoded'[k]
               PROVE  FALSE
    OBVIOUS
  <2>1. encoded'[k][2] = p.index
    BY ONLY <<p.gid, p.index>> = encoded'[k]
  <2>2. p.gid # 0 /\ made'[p.gid].m <= p.index /\ p.index < made'[p.gid].m
    BY <1>1, <2>1
  <2>3. made'[p.gid].m \in Nat /\ p.index \in Nat
    BY <1>1, <2>2, ShardBoundsNext DEF Inv, Bounded, DataPacket
  <2> QED BY ONLY <2>2, <2>3
<1>7. \A g \in DOMAIN group_acked' : \A n \in group_acked'[g] :
         g \in DOMAIN group_acked /\ n \in group_acked[g]
  <2>1. /\ DOMAIN group_acked' = 1..Len(made') /\ DOMAIN group_acked = 1..Len(made)
        /\ \A g \in 1..Len(made') :
             (g \in 1..Len(made) /\ group_acked'[g] = group_acked[g]) \/ group_acked'[g] = {}
    BY DEF FedEffect, Inv, Types
  <2> QED BY ONLY <2>1
<1> HIDE DEF FedEffect, Grown
<1> QED BY <1>1, <1>2, <1>4, <1>5, <1>6, <1>7, NewPlace

\* An arrival: the shard of a recorded packet is there
LEMMA ArrivalPlaces ==
    ASSUME Inv, Places, NEW p \in to_b, ReceiveData(p)
    PROVE  Places' /\ refusals \subseteq refusals'
           /\ (refusals' = refusals \/ refusals' = refusals \cup {p.gid})
           /\ \A u \in Units : processed[u] > 0 => processed'[u] > 0
<1>1. /\ to_b' \subseteq to_b /\ UNCHANGED <<aVars, to_a, told>>
      /\ \/ UNCHANGED <<bVars, recorded, handled, until>>
         \/ \E fs, largest : /\ Arrived(p, fs, largest)
                             /\ AllAccepted(p, fs, largest) \/ OneRefused(p, fs, largest)
  BY ReceiveDataCases
<1>2. UNCHANGED <<made, encoded, a_next, group_acked>> /\ Flight' \subseteq Flight /\ p \in Flight
  BY <1>1 DEF aVars, Flight
<1>3. CASE UNCHANGED <<bVars, recorded, handled, until>>
  <2>1. UNCHANGED <<shards, processed, refusals, recorded>>
    BY <1>3 DEF bVars
  <2>2. Places'
    BY <1>2, <2>1, PlacesKept
  <2> QED BY <2>1, <2>2
<1>4. ASSUME NEW fs, NEW largest, Arrived(p, fs, largest),
             AllAccepted(p, fs, largest) \/ OneRefused(p, fs, largest)
      PROVE  Places' /\ refusals \subseteq refusals'
             /\ (refusals' = refusals \/ refusals' = refusals \cup {p.gid})
             /\ \A u \in Units : processed[u] > 0 => processed'[u] > 0
  <2>1. /\ recorded' = recorded \/ recorded' = recorded \cup {p.pn}
        /\ refusals' = refusals \/ refusals' = refusals \cup {p.gid}
    BY <1>4 DEF AllAccepted, OneRefused
  <2>2. fs = ToProcess(p) /\ processed' = [u \in Units |-> processed[u] + Count(fs, u)]
    BY <1>4 DEF Arrived
  <2>3. \A u \in Units : processed[u] > 0 => processed'[u] > 0
    BY ONLY Inv, <1>2, <2>2, UnitsProcessed
  <2>4. /\ \A g \in DOMAIN shards : g \in DOMAIN shards' /\ shards[g] \subseteq shards'[g]
        /\ p.gid # 0 => p.gid \in DOMAIN shards' /\ p.index \in shards'[p.gid]
    <3>1. CASE p.gid = 0
      BY <1>4, <3>1 DEF Arrived
    <3>2. CASE p.gid # 0
      <4>1. shards' = ShardsAfter(p)
        BY <1>4, <3>2 DEF Arrived
      <4>2. /\ DOMAIN ShardsAfter(p) = DOMAIN shards \cup {p.gid}
            /\ \A g \in DOMAIN shards : g # p.gid => ShardsAfter(p)[g] = shards[g]
            /\ p.gid \in DOMAIN shards => shards[p.gid] \subseteq ShardsAfter(p)[p.gid]
            /\ p.index \in ShardsAfter(p)[p.gid]
        BY ONLY Inv, <1>2, <2>2, <3>2, ShardsAfterIs
      <4>3. \A g \in DOMAIN shards : shards[g] \subseteq shards'[g]
        BY ONLY <4>1, <4>2
      <4> QED BY ONLY <4>1, <4>2, <4>3
    <3> QED BY <3>1, <3>2
  <2>5. Places'
    BY <1>2, <2>1, <2>4, PlacesKept
  <2> QED BY <2>1, <2>3, <2>5
<1> QED BY <1>1, <1>3, <1>4

\* An ACK frame: a number is acknowledged in the group it has its place in
LEMMA AckPlaces ==
    ASSUME Inv, Inv', Places, NEW a \in to_a, ReceiveAck(a)
    PROVE  Places'
<1>1. /\ to_a' = to_a \ {a} /\ UNCHANGED <<bVars, to_b, recorded, handled, until>>
      /\ \/ UNCHANGED <<aVars, told>>
         \/ \E newly, recovered, largest : AckArrived(a, newly, recovered, largest)
  BY ReceiveAckCases
<1>2. UNCHANGED <<shards, recorded>>
  BY <1>1 DEF bVars
<1>3. CASE UNCHANGED <<aVars, told>>
  <2>1. UNCHANGED <<made, encoded, a_next, group_acked>> /\ Flight' \subseteq Flight
    BY <1>1, <1>3 DEF aVars, Flight
  <2> QED BY <1>2, <2>1, PlacesKept
<1>4. ASSUME NEW newly, NEW recovered, NEW largest, AckArrived(a, newly, recovered, largest)
      PROVE  Places'
  <2>1. UNCHANGED <<made, encoded, a_next>> /\ Flight' \subseteq Flight
    BY <1>1, <1>4 DEF AckArrived, Flight
  <2>2. newly \subseteq Flight
    BY <1>4 DEF AckArrived, Flight
  <2>3. group_acked' = [g \in DOMAIN group_acked |-> AckedIn(g, newly)]
    BY <1>4 DEF AckArrived
  <2>4. \A g \in DOMAIN group_acked' : \A n \in group_acked'[g] :
           \/ g \in DOMAIN group_acked /\ n \in group_acked[g]
           \/ \E q \in Flight : n = q.pn /\ q.gid = g
    <3> SUFFICES ASSUME NEW g \in DOMAIN group_acked', NEW n \in group_acked'[g],
                        n \notin group_acked[g]
                 PROVE  \E q \in Flight : n = q.pn /\ q.gid = g
      BY <2>3
    <3>1. n \in AckedIn(g, newly)
      BY <2>3
    <3> QED BY <2>2, <3>1 DEF AckedIn
  <2> QED BY <1>2, <2>1, <2>4, PlacesKept
<1> QED BY <1>1, <1>3, <1>4

\* m acknowledged packets of a group are m of its shards, all of which B has: B
\* restored the others, and processed them unless it refused a frame of the group
LEMMA RecoveredIs ==
    ASSUME Inv, Places, NEW g \in 1..Len(made), NEW A, A \subseteq recorded, RecoveredBy(g, A),
           \A h : PlacesOK(h) => \A n \in A : h[n][1] = g
    PROVE  g \in DOMAIN shards /\ 0..(made[g].m - 1) \subseteq shards[g]
<1>1. PICK h : PlacesOK(h)
  BY DEF Places
<1> PICK f : f = [n \in A |-> h[n][2]]
  OBVIOUS
<1>2. \A n \in A : /\ h[n][1] = g /\ g # 0 /\ n \in Nums /\ n \in 0..(a_next - 1)
                   /\ h[n] \in Nat \X Nat
  <2>1. \A n \in A : n \in Nums /\ n < a_next /\ a_next \in Nat
    BY DEF Inv, Types, PacketsOK
  <2>2. \A n \in A : n \in 0..(a_next - 1)
    BY ONLY <2>1 DEF Nums
  <2>3. \A n \in A : h[n] \in Nat \X Nat
    BY <1>1, <2>1 DEF PlacesOK
  <2>4. \A n \in A : h[n][1] = g
    BY <1>1
  <2> QED BY <2>1, <2>2, <2>3, <2>4
<1>3. \A n \in A : g \in DOMAIN shards /\ h[n][2] \in shards[g]
  BY <1>1, <1>2 DEF PlacesOK
<1>4. A # {}
  <2>1. made[g].m \in Nat \ {0}
    BY GroupBounds DEF Inv
  <2>2. Cardinality({}) = 0
    BY FS_EmptySet
  <2> QED BY <2>1, <2>2 DEF RecoveredBy
<1>5. g \in DOMAIN shards
  BY <1>3, <1>4
<1>6. \A i, j \in A : h[i][2] = h[j][2] => i = j
  <2> SUFFICES ASSUME NEW i \in A, NEW j \in A, h[i][2] = h[j][2] PROVE i = j
    OBVIOUS
  <2>1. h[i] = <<g, h[i][2]>> /\ h[j] = <<g, h[j][2]>>
    BY <1>2
  <2>2. h[i] = h[j]
    BY <2>1
  <2> QED BY <1>1, <1>2, <2>2 DEF PlacesOK
<1>7. f \in Injection(A, shards[g])
  <2>1. f \in [A -> shards[g]]
    BY <1>3
  <2>2. \A i, j \in A : f[i] = f[j] => i = j
    BY <1>6
  <2> QED BY <2>1, <2>2 DEF Injection, IsInjective
<1>8. IsFiniteSet(shards[g])
  <2>1. /\ made[g].m \in Nat /\ made[g].n \in Nat /\ Len(made[g].data) \in Nat
        /\ Len(made[g].data) <= made[g].m
    BY ShardBounds DEF Inv, Bounded
  <2> PICK b : b = made[g].m + made[g].n
    OBVIOUS
  <2>2. \A i \in shards[g] : i \in Nat /\ Inside(g, i)
    BY <1>5 DEF Inv, ShardsOK
  <2>3. \A i \in shards[g] : i \in 0..b
    BY <2>1, <2>2 DEF Inside
  <2>4. IsFiniteSet(0..b) /\ shards[g] \in SUBSET (0..b)
    <3>1. 0 \in Int /\ b \in Int
      BY <2>1
    <3>2. IsFiniteSet(0..b)
      BY ONLY <3>1, FS_Interval
    <3>3. shards[g] \in SUBSET (0..b)
      BY <2>3
    <3> QED BY <3>2, <3>3
  <2> QED BY ONLY <2>4, FS_Subset
<1>9. Cardinality(A) <= Cardinality(shards[g]) /\ IsFiniteSet(A)
  BY <1>7, <1>8, FS_Injection
<1>10. Cardinality(shards[g]) >= made[g].m
  <2>1. Cardinality(A) \in Nat /\ Cardinality(shards[g]) \in Nat
    BY <1>8, <1>9, FS_CardinalityType
  <2>2. Cardinality(A) >= made[g].m /\ made[g].m \in Nat
    BY ShardBounds DEF RecoveredBy, Inv, Bounded
  <2> QED BY ONLY <1>9, <2>1, <2>2
<1> QED BY <1>5, <1>10 DEF Inv, ShardsOK

Settled == refusals \subseteq 0..Len(made) /\ SettledWasProcessed

\* What B processed stays processed, and a group in which it refused a frame refused
LEMMA SettledKept ==
    ASSUME Inv, Inv', Settled, Grown, settled' = settled,
           refusals \subseteq refusals', refusals' \subseteq 0..Len(made'),
           \A u \in Units : processed[u] > 0 => processed'[u] > 0
    PROVE  Settled'
<1> SUFFICES ASSUME NEW u \in settled
             PROVE  \/ processed'[u] > 0
                    \/ \E g \in refusals' \ {0} : \E i \in DOMAIN made'[g].data :
                          made'[g].data[i].unit = u
  BY DEF Settled, SettledWasProcessed
<1>1. CASE processed[u] > 0
  <2>1. u \in Units
    BY DEF Inv, Types
  <2> QED BY <1>1, <2>1
<1>2. ASSUME NEW g \in refusals \ {0}, NEW i \in DOMAIN made[g].data, made[g].data[i].unit = u
      PROVE  g \in refusals' \ {0} /\ i \in DOMAIN made'[g].data /\ made'[g].data[i].unit = u
  <2>1. g \in 1..Len(made)
    BY DEF Settled
  <2>2. made[g].data \in Seq(Frame)
    BY <2>1, GroupBounds DEF Inv
  <2>3. i \in 1..Len(made[g].data)
    BY <2>2
  <2>4. g \in 1..Len(made') /\ i \in 1..Len(made'[g].data) /\ made'[g].data[i] = made[g].data[i]
    BY <2>1, <2>3 DEF Grown
  <2>5. made'[g].data \in Seq(Frame)
    <3>1. made' \in Seq(Group)
      BY DEF Inv, GroupsOK
    <3>2. made'[g] \in Group
      BY ONLY <2>4, <3>1
    <3> QED BY <3>2 DEF Group
  <2>6. i \in DOMAIN made'[g].data
    BY ONLY <2>4, <2>5
  <2> QED BY <1>2, <2>4, <2>6
<1> QED BY <1>1, <1>2 DEF Settled, SettledWasProcessed

\* The steps of A's that settle nothing
LEMMA SettledSend ==
    ASSUME Inv, Inv', Settled, Grown, UNCHANGED <<settled, refusals, processed>>
    PROVE  Settled'
<1>1. Len(made) \in Nat /\ Len(made') \in Nat
  <2>1. made \in Seq(Group) /\ made' \in Seq(Group)
    BY DEF Inv, GroupsOK
  <2> QED BY ONLY <2>1
<1>2. \A g \in 1..Len(made) : g \in 1..Len(made')
  BY DEF Grown
<1>3. \A g \in 0..Len(made) : g \in 0..Len(made')
  BY <1>1, <1>2
<1>4. refusals' \subseteq 0..Len(made')
  BY <1>3 DEF Settled
<1> QED BY <1>4, SettledKept

\* What an ACK frame settles
LEMMA SettledAck ==
    ASSUME Inv, Places, Settled, NEW a \in to_a, ReceiveAck(a)
    PROVE  Settled'
<1>1. /\ UNCHANGED <<bVars, recorded>>
      /\ \/ UNCHANGED <<aVars, told>>
         \/ \E newly, recovered, largest : AckArrived(a, newly, recovered, largest)
  BY ReceiveAckCases
<1>2. UNCHANGED <<processed, refusals>>
  BY <1>1 DEF bVars
<1>3. CASE UNCHANGED <<aVars, told>>
  BY <1>2, <1>3 DEF Settled, SettledWasProcessed, aVars
<1>4. ASSUME NEW newly, NEW recovered, NEW largest, AckArrived(a, newly, recovered, largest)
      PROVE  Settled'
  <2>1. UNCHANGED made
    BY <1>4 DEF AckArrived
  <2>2. /\ newly \subseteq sent /\ recovered \subseteq sent
        /\ \A p \in newly : p.pn \in recorded
        /\ \A g \in 1..Len(made) : AckedIn(g, newly) \subseteq recorded
    BY <1>4, AckArrivedIs
  <2>3. ASSUME NEW p \in newly, p.unit \in Units PROVE processed[p.unit] > 0
    BY <2>2, <2>3 DEF Inv, ProcessedOK, Flight
  <2>4. ASSUME NEW p \in recovered, p.unit \in Units
        PROVE  \/ processed[p.unit] > 0
               \/ \E g \in refusals \ {0} : \E i \in DOMAIN made[g].data :
                     made[g].data[i].unit = p.unit
    <3> PICK g : g = p.gid
      OBVIOUS
    <3>1. p \in Flight /\ g # 0 /\ RecoveredBy(g, AckedIn(g, newly))
      BY <1>4, <2>2 DEF AckArrived, Flight
    <3>2. /\ g \in 1..Len(made) /\ Inside(g, p.index) /\ p.index \in Nat
          /\ p.index < made[g].m => made[g].data[p.index + 1] = Frames(p)
          /\ p.index >= made[g].m => p.unit = NoUnit
      BY <3>1 DEF Inv, PacketsOK, Types, DataPacket
    <3>3. /\ made[g].m \in Nat /\ made[g].data \in Seq(Frame) /\ Len(made[g].data) \in Nat
          /\ Len(made[g].data) <= made[g].m
      BY <3>2, GroupBounds DEF Inv
    <3>4. p.index < made[g].m
      BY <2>4, <3>2, <3>3, ExchangeConstants
    <3>5. ASSUME NEW h, PlacesOK(h), NEW n \in AckedIn(g, newly) PROVE h[n][1] = g
      <4>1. CASE n \in group_acked[g]
        <5>1. g \in DOMAIN group_acked
          BY <3>2 DEF Inv, Types
        <5> QED BY <3>5, <4>1, <5>1 DEF PlacesOK
      <4>2. ASSUME NEW q \in newly, q.gid = g, n = q.pn PROVE h[n][1] = g
        <5>1. h[q.pn] = <<q.gid, q.index>>
          BY <2>2, <3>5 DEF PlacesOK, Flight
        <5> QED BY <4>2, <5>1
      <4> QED BY <4>1, <4>2 DEF AckedIn
    <3>6. g \in DOMAIN shards /\ 0..(made[g].m - 1) \subseteq shards[g]
      <4>1. AckedIn(g, newly) \subseteq recorded
        BY <2>2, <3>2
      <4> QED BY <3>1, <3>2, <3>5, <4>1, RecoveredIs
    <3>7. p.index \in shards[g]
      BY <3>2, <3>3, <3>4, <3>6
    <3>8. Frames(p).unit = p.unit
      BY DEF Frames
    <3>9. CASE g \notin refusals
      <4>1. processed[made[g].data[p.index + 1].unit] > 0
        BY <3>4, <3>6, <3>7, <3>9 DEF Inv, ShardsOK
      <4> QED BY <3>2, <3>4, <3>8, <4>1
    <3>10. CASE g \in refusals
      <4>1. p.index + 1 \in 1..Len(made[g].data)
        BY <3>2, <3>3, <3>4 DEF Inside
      <4>2. p.index + 1 \in DOMAIN made[g].data
        BY ONLY <3>3, <4>1
      <4>3. made[g].data[p.index + 1].unit = p.unit
        BY <3>2, <3>4, <3>8
      <4> QED BY <3>1, <3>10, <4>2, <4>3
    <3> QED BY <3>9, <3>10
  <2>5. \A u \in settled' : u \in settled \/ \E p \in newly \cup recovered : u = p.unit /\ u \in Units
    BY <1>4 DEF AckArrived
  <2>6. SettledWasProcessed'
    <3> SUFFICES ASSUME NEW u \in settled'
                 PROVE  \/ processed[u] > 0
                        \/ \E g \in refusals \ {0} : \E i \in DOMAIN made[g].data :
                              made[g].data[i].unit = u
      BY <1>2, <2>1 DEF SettledWasProcessed
    <3>1. CASE u \in settled
      BY <3>1 DEF Settled, SettledWasProcessed
    <3>2. CASE u \notin settled
      <4>1. PICK p \in newly \cup recovered : u = p.unit /\ u \in Units
        BY <2>5, <3>2
      <4> QED BY <2>3, <2>4, <4>1
    <3> QED BY <3>1, <3>2
  <2> QED BY <1>2, <2>1, <2>6 DEF Settled
<1> QED BY <1>1, <1>3, <1>4

LEMMA SettledInv == Inv /\ Inv' /\ Places /\ Settled /\ [Next]_vars => Places' /\ Settled'
<1> SUFFICES ASSUME Inv, Inv', Places, Settled, [Next]_vars PROVE Places' /\ Settled'
  OBVIOUS
<1>1. CASE SendRepair
  <2>1. UNCHANGED <<settled, refusals, processed, made>>
    BY <1>1 DEF SendRepair, bVars
  <2>2. Grown
    BY <2>1 DEF Grown
  <2>3. Settled'
    BY <2>1, <2>2, SettledSend
  <2> QED BY <1>1, <2>3, RepairPlace
<1>2. CASE SendData
  <2>1. PICK p \in DataPacket :
             /\ sent' = sent \cup {p} /\ to_b' = to_b \cup {p} /\ p.pn = a_next
             /\ a_next' = a_next + 1 /\ FedEffect(p)
    BY <1>2, SendDataStep
  <2>2. UNCHANGED <<settled, refusals, processed, recorded, shards>>
    BY <1>2 DEF SendData, bVars, histVars
  <2>3. Grown
    BY <2>1 DEF FedEffect
  <2>4. Settled'
    BY <2>2, <2>3, SettledSend
  <2>5. Places'
    BY <2>1, <2>2, DataPlace
  <2> QED BY <2>4, <2>5
<1>3. CASE GiveUp
  <2>1. UNCHANGED <<settled, refusals, processed, made, encoded, a_next, recorded, shards, group_acked, to_b>>
        /\ sent' \subseteq sent
    BY <1>3 DEF GiveUp, bVars, histVars
  <2>2. Grown /\ Flight' \subseteq Flight
    BY <2>1 DEF Grown, Flight
  <2>3. Settled'
    BY <2>1, <2>2, SettledSend
  <2> QED BY <2>1, <2>2, <2>3, PlacesKept
<1>4. ASSUME NEW p \in to_b, ReceiveData(p) PROVE Places' /\ Settled'
  <2>1. /\ Places' /\ refusals \subseteq refusals'
        /\ (refusals' = refusals \/ refusals' = refusals \cup {p.gid})
        /\ \A u \in Units : processed[u] > 0 => processed'[u] > 0
    BY <1>4, ArrivalPlaces
  <2>2. UNCHANGED <<settled, made>>
    BY <1>4, ReceiveDataCases DEF aVars
  <2>3. Grown
    BY <2>2 DEF Grown
  <2>4. p.gid \in 0..Len(made)
    BY DEF Inv, PacketsOK, Types, DataPacket, Flight, GroupsOK
  <2>5. refusals' \subseteq 0..Len(made')
    BY <2>1, <2>2, <2>4 DEF Settled
  <2>6. Settled'
    BY <2>1, <2>2, <2>3, <2>5, SettledKept
  <2> QED BY <2>1, <2>6
<1>5. ASSUME NEW u \in Units, CollectBlock(u) PROVE Places' /\ Settled'
  <2>1. UNCHANGED <<settled, refusals, processed, made, encoded, a_next, recorded, shards, group_acked, to_b, sent>>
    BY <1>5 DEF CollectBlock, aVars, netVars, histVars
  <2>2. Grown /\ Flight' \subseteq Flight
    BY <2>1 DEF Grown, Flight
  <2>3. Settled'
    BY <2>1, <2>2, SettledSend
  <2> QED BY <2>1, <2>2, <2>3, PlacesKept
<1>6. CASE SendAck
  <2>1. UNCHANGED <<settled, refusals, processed, made, encoded, a_next, recorded, shards, group_acked, to_b, sent>>
    BY <1>6 DEF SendAck, aVars, histVars
  <2>2. Grown /\ Flight' \subseteq Flight
    BY <2>1 DEF Grown, Flight
  <2>3. Settled'
    BY <2>1, <2>2, SettledSend
  <2> QED BY <2>1, <2>2, <2>3, PlacesKept
<1>7. ASSUME NEW a \in to_a, ReceiveAck(a) PROVE Places' /\ Settled'
  BY <1>7, AckPlaces, SettledAck
<1>8. CASE UNCHANGED vars
  <2>1. UNCHANGED <<settled, refusals, processed, made, encoded, a_next, recorded, shards, group_acked, to_b, sent>>
    BY <1>8 DEF vars, aVars, bVars, netVars, histVars
  <2>2. Grown /\ Flight' \subseteq Flight
    BY <2>1 DEF Grown, Flight
  <2>3. Settled'
    BY <2>1, <2>2, SettledSend
  <2> QED BY <2>1, <2>2, <2>3, PlacesKept
<1> QED BY <1>1, <1>2, <1>3, <1>4, <1>5, <1>6, <1>7, <1>8 DEF Next, ReceiveDataStep, ReceiveAckStep

LEMMA SettledInit == Init => Places /\ Settled
<1> SUFFICES ASSUME Init PROVE Places /\ Settled
  OBVIOUS
<1>1. /\ made = <<>> /\ sent = {} /\ to_b = {} /\ a_next = 0 /\ group_acked = <<>>
      /\ recorded = {} /\ refusals = {} /\ settled = {}
  BY DEF Init
<1> PICK h : h = [n \in Nums |-> <<0, 0>>]
  OBVIOUS
<1>2. h \in [Nums -> Nat \X Nat]
  OBVIOUS
<1>3. Flight = {} /\ DOMAIN group_acked = {} /\ 0..(a_next - 1) = {}
  BY <1>1 DEF Flight
<1>4. PlacesOK(h)
  BY <1>1, <1>2, <1>3 DEF PlacesOK
<1>5. Settled
  BY <1>1 DEF Settled, SettledWasProcessed
<1> QED BY <1>4, <1>5 DEF Places

\* When A takes the frames of a packet for delivered (it was acked, or m of the
\* packets of its group were: get_recovered_pns), B has processed them, unless it
\* refused a frame of the group.
THEOREM SettledCorrect == Spec => []SettledWasProcessed
<1>1. Spec => [](Inv /\ Places /\ Settled)
  <2>1. Spec => []Inv
    BY ExchangeInv
  <2>2. Init => Places /\ Settled
    BY SettledInit
  <2>3. Inv /\ Inv' /\ Places /\ Settled /\ [Next]_vars => Places' /\ Settled'
    BY SettledInv
  <2> QED BY <2>1, <2>2, <2>3, PTL DEF Spec
<1>2. Settled => SettledWasProcessed
  BY DEF Settled
<1> QED BY <1>1, <1>2, PTL

=============================================================================
