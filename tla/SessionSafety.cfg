\* Two accounts on one phone, one read left behind at a time.
CONSTANTS
    Accounts = {a1, a2}
    Forms <- TwoForms
    NoUser = NoUser
    NoDoc = NoDoc
    MaxReads = 2
SPECIFICATION Spec
INVARIANTS TypeOK OwnProfile HomeRegistered CompleteProfiles
    SignedOutForgotten
SYMMETRY Symmetry
