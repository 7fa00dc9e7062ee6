\* The announcement of a match against what the database ends up holding.
CONSTANTS
    Users = {u1, u2}
    Calls = {c1}
    NoUser = NoUser
SPECIFICATION FairSpec
PROPERTY AnnouncedMatchIsSeen
