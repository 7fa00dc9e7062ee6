--------------------------- MODULE MCMatchMaking ---------------------------
(* Instances of MatchMaking for TLC. *)
EXTENDS MatchMaking, TLC

Symmetry == Permutations(Users) \cup Permutations(Calls)

(***************************************************************************)
(* For liveness: one phone per user, and the calls of chooseUser alone     *)
(* (passUser only adds to checkedList, which chooseUser never reads).      *)
(***************************************************************************)
Owner == CHOOSE f \in [Calls -> Users] :
            \A c, d \in Calls : f[c] = f[d] => c = d

LikesNext ==
    \/ \E c \in Calls : Continue(c) \/ Kill(c)
    \/ \E c \in Calls, v \in Users : ChooseUser(c, Owner[c], v)
    \/ \E u \in Users : Refresh(u)

LikesFairSpec ==
    Init /\ [][LikesNext]_vars /\ \A c \in Calls : WF_vars(Continue(c))

=============================================================================
