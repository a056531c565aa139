----------------------------- MODULE FiniteFacts -----------------------------
(***************************************************************************)
(* Facts about finite sets that the proofs of several modules rest on: the *)
(* least and the greatest element, which the code takes with min() and     *)
(* max() over a collection, and the bytes of packets, which it adds up.    *)
(***************************************************************************)
EXTENDS PacketBytes, FiniteSetsExt, FiniteSetTheorems, TLAPS

\* Among the subsets of a finite set that belong to a family F, one contains
\* no other one.
LEMMA SmallestOfFamily ==
  ASSUME NEW S, IsFiniteSet(S), NEW F \in SUBSET (SUBSET S), F # {}
  PROVE  \E A \in F : \A B \in F : B \subseteq A => B = A
<1>1. F \subseteq FiniteSubsetsOf(S)
  BY FS_FiniteSubsetsOfFinite
<1>2. PICK A \in F : \A B \in F : <<B, A>> \notin StrictSubsetOrdering(S)
  BY <1>1, FS_StrictSubsetOrderingWellFounded, WFMin
<1>3. ASSUME NEW B \in F, B \subseteq A, B # A  PROVE FALSE
  <2>1. <<B, A>> \in (SUBSET S) \X (SUBSET S)
    OBVIOUS
  <2>2. <<B, A>> \in StrictSubsetOrdering(S)
    BY <1>3, <2>1 DEF StrictSubsetOrdering
  <2> QED BY <1>2, <2>2
<1> QED BY <1>3

\* A finite, nonempty set of integers has a least element, which is its Min.
LEMMA MinOfFinite ==
  ASSUME NEW S, S \subseteq Int, IsFiniteSet(S), S # {}
  PROVE  /\ Min(S) \in S /\ \A y \in S : Min(S) <= y
<1> DEFINE Below(x) == {t \in S : t <= x}
<1>1. PICK F : F = {Below(x) : x \in S}
  OBVIOUS
<1>2. PICK A \in F : \A B \in F : B \subseteq A => B = A
  <2>1. IsFiniteSet(S) /\ F \in SUBSET (SUBSET S) /\ F # {}
    BY <1>1
  <2> QED BY ONLY <2>1, SmallestOfFamily
<1>3. PICK x \in S : A = Below(x)
  BY <1>1
<1>4. ASSUME NEW y \in S  PROVE x <= y
  <2>1. SUFFICES ASSUME y < x  PROVE FALSE
    BY DEF Below
  <2>2. Below(y) \in F
    BY <1>1
  <2>3. Below(y) \subseteq A
    <3>1. \A t \in S : t <= y => t <= x
      BY <2>1
    <3> QED BY <1>3, <3>1
  <2>4. x \in A /\ x \notin Below(y)
    BY <1>3, <2>1
  <2> QED BY <1>2, <2>2, <2>3, <2>4
<1>5. \A y \in S : x <= y
  BY <1>4
<1> QED BY <1>5 DEF Min

\* A finite, nonempty set of integers has a greatest element, which is its Max.
LEMMA MaxOfFinite ==
  ASSUME NEW S, S \subseteq Int, IsFiniteSet(S), S # {}
  PROVE  /\ Max(S) \in S /\ \A y \in S : Max(S) >= y
<1> DEFINE Above(x) == {t \in S : t >= x}
<1>1. PICK F : F = {Above(x) : x \in S}
  OBVIOUS
<1>2. PICK A \in F : \A B \in F : B \subseteq A => B = A
  <2>1. IsFiniteSet(S) /\ F \in SUBSET (SUBSET S) /\ F # {}
    BY <1>1
  <2> QED BY ONLY <2>1, SmallestOfFamily
<1>3. PICK x \in S : A = Above(x)
  BY <1>1
<1>4. ASSUME NEW y \in S  PROVE x >= y
  <2>1. SUFFICES ASSUME y > x  PROVE FALSE
    BY DEF Above
  <2>2. Above(y) \in F
    BY <1>1
  <2>3. Above(y) \subseteq A
    <3>1. \A t \in S : t >= y => t >= x
      BY <2>1
    <3> QED BY <1>3, <3>1
  <2>4. x \in A /\ x \notin Above(y)
    BY <1>3, <2>1
  <2> QED BY <1>2, <2>2, <2>3, <2>4
<1>5. \A y \in S : x >= y
  BY <1>4
<1> QED BY <1>5 DEF Max

\* A nonempty set of naturals, finite or not, has a least element.
LEMMA MinOfNaturals ==
  ASSUME NEW S, S \subseteq Nat, S # {}
  PROVE  /\ Min(S) \in S /\ \A y \in S : Min(S) <= y
<1>1. PICK x \in S : TRUE
  OBVIOUS
<1> DEFINE T == S \cap 0..x
<1>2. T \subseteq Int /\ IsFiniteSet(T) /\ T # {}
  <2>1. IsFiniteSet(0..x)
    BY <1>1, FS_Interval
  <2>2. T \in SUBSET (0..x)
    OBVIOUS
  <2>3. IsFiniteSet(T)
    BY <2>1, <2>2, FS_Subset
  <2> QED BY <1>1, <2>3
<1>3. Min(T) \in T /\ \A y \in T : Min(T) <= y
  <2> HIDE DEF T
  <2> QED BY <1>2, MinOfFinite
<1>4. Min(T) \in S /\ \A y \in S : Min(T) <= y
  BY <1>1, <1>3
<1> QED BY <1>4 DEF Min

\* A set of naturals that holds 0 and, with each number, the next one, holds all.
LEMMA Counting ==
  ASSUME NEW D, 0 \in D, \A k \in Nat : k \in D => k + 1 \in D
  PROVE  \A n \in Nat : n \in D
<1>1. PICK S : S = Nat \ D
  OBVIOUS
<1>2. CASE S = {}
  BY <1>1, <1>2
<1>3. CASE S # {}
  <2>1. S \subseteq Nat
    BY <1>1
  <2>2. Min(S) \in S /\ \A y \in S : Min(S) <= y
    BY <2>1, <1>3, MinOfNaturals
  <2>3. Min(S) # 0
    BY <1>1, <2>2
  <2>4. Min(S) - 1 \in Nat /\ Min(S) - 1 \notin S
    <3>1. PICK m : m = Min(S)
      OBVIOUS
    <3>2. m \in S /\ \A y \in S : m <= y
      BY <2>2, <3>1
    <3>3. m \in Nat /\ m # 0 /\ \A y \in S : y \in Nat
      BY <2>1, <2>3, <3>1, <3>2
    <3>4. m - 1 \in Nat /\ ~(m <= m - 1)
      BY <3>3
    <3> QED BY <3>1, <3>2, <3>4
  <2>5. PICK j : j = Min(S) - 1
    OBVIOUS
  <2>6. j \in Nat /\ j \in D /\ j + 1 = Min(S)
    BY <1>1, <2>1, <2>2, <2>4, <2>5
  <2> QED BY <1>1, <2>2, <2>6
<1> QED BY <1>2, <1>3

\* The greatest element of a finite set is the one that bounds it.
LEMMA MaxIs ==
  ASSUME NEW S, S \subseteq Int, NEW x \in S, \A y \in S : y <= x
  PROVE  Max(S) = x
<1>1. Max(S) \in S /\ \A y \in S : Max(S) >= y
  BY DEF Max
<1>2. x <= Max(S) /\ Max(S) <= x
  BY <1>1
<1>3. x \in Int /\ Max(S) \in Int
  BY <1>1
<1> QED BY <1>2, <1>3

-----------------------------------------------------------------------------
(* The bytes of packets *)

Sized(ps) == IsFiniteSet(ps) /\ \A p \in ps : p.size \in Nat

\* A packet has as many bytes as its size says.
LEMMA SizeOfOne ==
  ASSUME NEW p, p.size \in Nat
  PROVE  /\ Bytes({p}) = {p.pn} \X (1 .. p.size)
         /\ IsFiniteSet(Bytes({p})) /\ SizeOf({p}) = p.size
<1>1. Bytes({p}) = {p.pn} \X (1 .. p.size)
  BY DEF Bytes
<1>2. IsFiniteSet({p.pn}) /\ Cardinality({p.pn}) = 1
  BY FS_Singleton
<1>3. IsFiniteSet(1 .. p.size) /\ Cardinality(1 .. p.size) = p.size
  BY FS_Interval
<1>4. /\ IsFiniteSet({p.pn} \X (1 .. p.size))
      /\ Cardinality({p.pn} \X (1 .. p.size)) = 1 * p.size
  BY <1>2, <1>3, FS_Product
<1>5. SizeOf({p}) = 1 * p.size
  BY <1>1, <1>4 DEF SizeOf
<1>6. SizeOf({p}) = p.size
  BY <1>5
<1> QED BY <1>1, <1>4, <1>6

\* Finitely many packets have finitely many bytes.
LEMMA SizeOfFinite ==
  ASSUME NEW ps, Sized(ps)
  PROVE  IsFiniteSet(Bytes(ps)) /\ SizeOf(ps) \in Nat
<1> DEFINE f == [p \in ps |-> {p.pn} \X (1 .. p.size)]
           T == {{p.pn} \X (1 .. p.size) : p \in ps}
<1>1. f \in Surjection(ps, T)
  BY DEF Surjection
<1>2. IsFiniteSet(T)
  <2> HIDE DEF f, T
  <2> QED BY <1>1, FS_Surjection DEF Sized
<1>3. \A t \in T : IsFiniteSet(t)
  <2>1. TAKE t \in T
  <2>2. PICK p \in ps : t = {p.pn} \X (1 .. p.size)
    OBVIOUS
  <2>3. p.size \in Nat
    BY DEF Sized
  <2> QED BY <2>2, <2>3, SizeOfOne
<1>4. IsFiniteSet(UNION T)
  <2> HIDE DEF T
  <2> QED BY <1>2, <1>3, FS_UNION
<1>5. Bytes(ps) = UNION T
  BY DEF Bytes
<1>6. IsFiniteSet(Bytes(ps))
  BY <1>4, <1>5
<1> QED BY <1>6, FS_CardinalityType DEF SizeOf

\* The bytes of a new packet add to those of the others.
LEMMA SizeOfNew ==
  ASSUME NEW ps, Sized(ps), NEW p, p.size \in Nat, \A q \in ps : q.pn # p.pn
  PROVE  SizeOf(ps \cup {p}) = SizeOf(ps) + p.size
<1>1. Bytes(ps \cup {p}) = Bytes(ps) \cup Bytes({p})
  BY DEF Bytes
<1>2. Bytes(ps) \cap Bytes({p}) = {}
  BY DEF Bytes
<1>3. IsFiniteSet(Bytes(ps)) /\ SizeOf(ps) \in Nat
  BY SizeOfFinite
<1>4. IsFiniteSet(Bytes({p})) /\ SizeOf({p}) = p.size
  BY SizeOfOne
<1>5. Cardinality(Bytes(ps) \cup Bytes({p}))
        = Cardinality(Bytes(ps)) + Cardinality(Bytes({p})) - Cardinality(Bytes(ps) \cap Bytes({p}))
  BY <1>3, <1>4, FS_Union
<1>6. Cardinality(Bytes(ps) \cap Bytes({p})) = 0
  BY <1>2, FS_EmptySet
<1>7. SizeOf(ps \cup {p}) = SizeOf(ps) + SizeOf({p}) - 0
  BY <1>1, <1>5, <1>6 DEF SizeOf
<1> QED BY <1>3, <1>4, <1>7

\* Taking packets away takes their bytes away.
LEMMA SizeOfPart ==
  ASSUME NEW ps, Sized(ps), \A p, q \in ps : p.pn = q.pn => p = q, NEW qs, qs \subseteq ps
  PROVE  /\ SizeOf(ps \ qs) = SizeOf(ps) - SizeOf(qs)
         /\ SizeOf(ps \ qs) \in Nat /\ SizeOf(qs) \in Nat /\ SizeOf(ps) \in Nat
<1>1. Sized(qs) /\ Sized(ps \ qs)
  <2>1. IsFiniteSet(ps)
    BY DEF Sized
  <2>2. IsFiniteSet(qs) /\ IsFiniteSet(ps \ qs)
    BY <2>1, FS_Subset, FS_Difference
  <2> QED BY <2>2 DEF Sized
<1>2. Bytes(ps \ qs) = Bytes(ps) \ Bytes(qs)
  <2>1. ASSUME NEW b \in Bytes(ps \ qs)  PROVE b \in Bytes(ps) /\ b \notin Bytes(qs)
    BY DEF Bytes
  <2>2. ASSUME NEW b \in Bytes(ps), b \notin Bytes(qs)  PROVE b \in Bytes(ps \ qs)
    BY <2>2 DEF Bytes
  <2> QED BY <2>1, <2>2
<1>3. Bytes(ps) \cap Bytes(qs) = Bytes(qs)
  BY DEF Bytes
<1>4. IsFiniteSet(Bytes(ps)) /\ SizeOf(ps) \in Nat
  BY SizeOfFinite
<1>5. Cardinality(Bytes(ps) \ Bytes(qs)) = Cardinality(Bytes(ps)) - Cardinality(Bytes(ps) \cap Bytes(qs))
  BY <1>4, FS_Difference
<1>6. SizeOf(ps \ qs) \in Nat /\ SizeOf(qs) \in Nat
  BY <1>1, SizeOfFinite
<1> QED BY <1>2, <1>3, <1>4, <1>5, <1>6 DEF SizeOf

\* No packets, no bytes.
LEMMA SizeOfNone == SizeOf({}) = 0
<1>1. Bytes({}) = {}
  BY DEF Bytes
<1> QED BY <1>1, FS_EmptySet DEF SizeOf

=============================================================================
