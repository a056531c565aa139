-------------------------- MODULE MCPacketExchange --------------------------
(***************************************************************************)
(* PacketExchange for TLC.                                                 *)
(***************************************************************************)
EXTENDS PacketExchange

WideShapes == {<<2, 3>>}
=============================================================================
