-------------------------- MODULE MCProfilePhotos --------------------------
(* Instances of ProfilePhotos for TLC. *)
EXTENDS ProfilePhotos, TLC

Symmetry == Permutations(Accounts)

=============================================================================
