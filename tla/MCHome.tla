------------------------------- MODULE MCHome -------------------------------
(***************************************************************************)
(* Instances of Home for TLC: the user's devices are interchangeable, and  *)
(* the parts that stand still start in one state.                          *)
(***************************************************************************)
EXTENDS Home, TLC

Symmetry == Permutations(Devices)

MCInit ==
    /\ Init
    /\ part # "sheet" => field = "height"
    /\ part # "languages" => known = <<"en">>
    /\ part # "filters" => prefs = [min |-> 18, max |-> 99]
    /\ part # "likedBy" => likes = {}
    /\ part # "dialogs" => online /\ place = "seen"

MCSpec == MCInit /\ [][Next]_vars

=============================================================================
