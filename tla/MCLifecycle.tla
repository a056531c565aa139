---------------------------- MODULE MCLifecycle ----------------------------
(***************************************************************************)
(* Lifecycle for TLC.                                                      *)
(***************************************************************************)
EXTENDS Lifecycle

Both == Sides
None == {}
OnlyClient == {"client"}
=============================================================================
