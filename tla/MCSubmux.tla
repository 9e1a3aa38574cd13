------------------------------ MODULE MCSubmux ------------------------------
(***************************************************************************)
(* The instance of Pubmux and Submux for TLC.                              *)
(***************************************************************************)
EXTENDS Submux

CONSTANTS n1, n2

OneOfThemTwice == [n \in Names |-> IF n = n1 THEN 2 ELSE 1]
=============================================================================
