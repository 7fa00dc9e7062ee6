------------------------ MODULE MCPhoneVerification ------------------------
(* Instances of PhoneVerification for TLC. *)
EXTENDS PhoneVerification, TLC

Symmetry == Permutations(Numbers)

=============================================================================
