--------------------------- MODULE MCChangeQueue ---------------------------
(* ChangeQueue for TLC. *)
EXTENDS ChangeQueue
=============================================================================
