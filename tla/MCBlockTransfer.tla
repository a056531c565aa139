-------------------------- MODULE MCBlockTransfer --------------------------
(***************************************************************************)
(* BlockTransfer for TLC.                                                  *)
(***************************************************************************)
EXTENDS BlockTransfer, TLC

BlockSymmetry == Permutations(Ids)
=============================================================================
