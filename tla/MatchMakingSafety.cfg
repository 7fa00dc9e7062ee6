\* Two users, two processes: every interleaving of two calls.
CONSTANTS
    Users = {u1, u2}
    Calls = {c1, c2}
    NoUser = NoUser
SPECIFICATION Spec
INVARIANTS TypeOK Consent LikeImpliesChecked LikeKept TileAnswersMatch
    OneSidedExplained
PROPERTY MatchesRefined
SYMMETRY Symmetry
