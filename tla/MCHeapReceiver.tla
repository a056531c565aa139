--------------------------- MODULE MCHeapReceiver ---------------------------
(***************************************************************************)
(* HeapReceiver for TLC.                                                   *)
(***************************************************************************)
EXTENDS HeapReceiver, MCBlockReceiver
=============================================================================
