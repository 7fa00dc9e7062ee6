------------------------------ MODULE Matches ------------------------------
(***************************************************************************)
(* What the like and match methods of FirestoreDatabase promise, without   *)
(* lists, queues and processes: a user may choose another at any time, and *)
(* once two users have chosen each other each of them may be shown the     *)
(* match.  A match once shown is never taken back.                         *)
(***************************************************************************)
CONSTANT Users

VARIABLES
    chosen,     \* <<a, b>>: a has chosen b
    shown       \* <<a, b>>: a sees a match with b

Init == chosen = {} /\ shown = {}

Choose(a, b) ==
    /\ a # b
    /\ chosen' = chosen \cup {<<a, b>>}
    /\ UNCHANGED shown

Show(a, b) ==
    /\ {<<a, b>>, <<b, a>>} \subseteq chosen
    /\ shown' = shown \cup {<<a, b>>}
    /\ UNCHANGED chosen

Next == \E a, b \in Users : Choose(a, b) \/ Show(a, b)

Spec == Init /\ [][Next]_<<chosen, shown>>

=============================================================================
