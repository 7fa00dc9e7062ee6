------------------------------ MODULE MCChat ------------------------------
(***************************************************************************)
(* Chat on a small instance.                                               *)
(***************************************************************************)
EXTENDS Chat, TLC

Symmetry == Permutations(Users)

=============================================================================
