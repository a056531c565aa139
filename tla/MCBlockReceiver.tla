-------------------------- MODULE MCBlockReceiver --------------------------
(***************************************************************************)
(* BlockReceiver for TLC, and the sets of frames the runs use.             *)
(***************************************************************************)
EXTENDS BlockReceiver, TLC

StreamSymmetry == Permutations(Ids)

\* One byte per frame, the last one with the fin flag
UnitFrames == {[off |-> o, end |-> o + 1, fin |-> o + 1 = BlockLen] : o \in 0..(BlockLen - 1)}

\* Frames of two bytes, and the fin flag in an empty frame of its own
PairFrames ==
    {[off |-> o, end |-> o + 2, fin |-> FALSE] : o \in {i \in 0..(BlockLen - 2) : i % 2 = 0}}
    \cup {[off |-> BlockLen, end |-> BlockLen, fin |-> TRUE]}

\* Any range of the block, the fin flag with the last byte, later or alone
AnyFrames ==
    {f \in [off : 0..BlockLen, end : 0..BlockLen, fin : BOOLEAN] :
        /\ f.off <= f.end
        /\ f.fin => f.end = BlockLen
        /\ f.off < f.end \/ f.fin}
=============================================================================
