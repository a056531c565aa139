----------------------------- MODULE MCHttpApps -----------------------------
(* HttpApps for TLC: two requests over a stream limit of one. *)
EXTENDS HttpApps
TwoFiles == <<3, 0>>
=============================================================================
