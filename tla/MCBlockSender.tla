--------------------------- MODULE MCBlockSender ---------------------------
(***************************************************************************)
(* BlockSender for TLC.  The blocks are model values; nothing orders them, *)
(* so the safety runs may permute them.                                    *)
(***************************************************************************)
EXTENDS BlockSender, TLC

BlockSymmetry == Permutations(Ids)
=============================================================================
