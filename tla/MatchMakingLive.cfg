\* Liveness: no symmetry reduction.
CONSTANTS
    Users = {u1, u2}
    Calls = {c1, c2}
    NoUser = NoUser
SPECIFICATION LikesFairSpec
PROPERTY MatchBecomesMutual
