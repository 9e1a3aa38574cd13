--------------------------- MODULE MCReplication ---------------------------
(* Replication for TLC. *)
EXTENDS Replication, TLC

Symmetry == Permutations(Receivers)
=============================================================================
