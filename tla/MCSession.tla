----------------------------- MODULE MCSession -----------------------------
(* Instances of Session for TLC. *)
EXTENDS Session, TLC

OneForm == <<"gender">>
TwoForms == <<"gender", "height">>
AllForms == <<"gender", "name", "birth", "languages", "height">>
Symmetry == Permutations(Accounts)

=============================================================================
