----------------------------- MODULE PacketBytes -----------------------------
(***************************************************************************)
(* How much packets weigh: what bytes_in_flight counts (src/src/recovery.rs *)
(* and the controllers of src/src/cc).                                     *)
(***************************************************************************)
EXTENDS Integers, FiniteSets

\* The bytes of packets, each named by its packet's number and its place in it.
Bytes(ps) == UNION {{p.pn} \X (1 .. p.size) : p \in ps}

SizeOf(ps) == Cardinality(Bytes(ps))

=============================================================================
