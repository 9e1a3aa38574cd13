---------------------------- MODULE MCRecordLock ----------------------------
(* RecordLock for TLC: the words of the value are interchangeable. *)
EXTENDS RecordLock, TLC

Symmetry == Permutations(Words)
=============================================================================
