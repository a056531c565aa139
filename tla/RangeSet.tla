------------------------------ MODULE RangeSet ------------------------------
(***************************************************************************)
(* ranges::RangeSet and packet::PktNumWindow: the packet numbers to be     *)
(* acknowledged, and those already received.                               *)
(*                                                                         *)
(* A RangeSet is a set of half-open ranges <<start, end>>, one per start   *)
(* (the BTreeMap `inner').  A window is the record of its lower end and    *)
(* the numbers whose bit is set.                                           *)
(***************************************************************************)
EXTENDS Integers, FiniteSets, FiniteSetsExt

\* The numbers a RangeSet stands for (RangeSet::flatten)
Flat(rs) == UNION {r[1]..(r[2] - 1) : r \in rs}

\* range_overlaps: adjacent ranges count; fault: so do ranges with a gap of one
RangeOverlaps_Gap(r, other) ==
    \/ other[1] >= r[1] /\ other[1] <= r[2] + 1
    \/ other[2] >= r[1] - 1 /\ other[2] <= r[2]
RangeOverlaps(r, other) ==
    \/ other[1] >= r[1] /\ other[1] <= r[2]
    \/ other[2] >= r[1] /\ other[2] <= r[2]

\* prev_to and next_to, of a set that is not empty where it matters
Before(rs, i) == {r \in rs : r[1] <= i}
After(rs, i) == {r \in rs : r[1] >= i}
PrevTo(rs, i) == CHOOSE r \in Before(rs, i) : \A q \in Before(rs, i) : q[1] <= r[1]

Lower(a, b) == IF a <= b THEN a ELSE b
Upper(a, b) == IF a >= b THEN a ELSE b

\* RangeSet::insert of one number (push_item): at most one range before and
\* one after touch it.
Touching(rs, item) ==
    LET prev == IF Before(rs, item[1]) = {} THEN {}
                ELSE {r \in {PrevTo(rs, item[1])} : RangeOverlaps(r, item)}
        start == Min({item[1]} \cup {r[1] : r \in prev})
        next == {r \in After(rs \ prev, start) : RangeOverlaps(r, item)}
    IN prev \cup next
Insert(rs, item) ==
    LET t == Touching(rs, item) IN
    (rs \ t) \cup {<<Min({item[1]} \cup {r[1] : r \in t}), Max({item[2]} \cup {r[2] : r \in t})>>}

PushItem(rs, n) == Insert(rs, <<n, n + 1>>)

\* RangeSet::remove_until; fault: the rest of a range is dropped with its head
RemoveUntil_Whole(rs, largest) == {r \in rs : r[1] > largest}
RemoveUntil(rs, largest) ==
    {r \in rs : r[1] > largest}
        \cup {<<largest + 1, r[2]>> : r \in {q \in rs : q[1] <= largest /\ q[2] > largest + 1}}

Largest(rs) == Max(Flat(rs))

-----------------------------------------------------------------------------
\* PktNumWindow, `size' bits wide (128 in the code)
EmptyWindow == [lower |-> 0, bits |-> {}]
WindowUpper(w, size) == w.lower + size - 1

\* PktNumWindow::insert; fault: the window does not move
WindowInsert_Fixed(w, size, n) ==
    IF n < w.lower \/ n > WindowUpper(w, size) THEN w ELSE [w EXCEPT !.bits = @ \cup {n}]
WindowInsert(w, size, n) ==
    LET lower == Upper(w.lower, n - size + 1) IN
    IF n < w.lower THEN w
    ELSE [lower |-> lower, bits |-> {i \in w.bits \cup {n} : i >= lower}]

\* PktNumWindow::contains: what is left of the window was received
WindowContains(w, size, n) ==
    n <= WindowUpper(w, size) /\ (n < w.lower \/ n \in w.bits)
=============================================================================
