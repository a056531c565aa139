---------------------------- MODULE MCCongestion ----------------------------
(***************************************************************************)
(* Instances of Congestion for TLC: BBR's estimates multiply the states, so *)
(* its packets all have one size.                                          *)
(***************************************************************************)
EXTENDS Congestion

PacketSizes == [a \in Algorithms |-> IF a = "bbr" THEN {1} ELSE {1, 2}]
=============================================================================
