\* A start-up that shows nothing.
CONSTANTS
    Accounts = {a1}
    Forms <- OneForm
    NoUser = NoUser
    NoDoc = NoDoc
    MaxReads = 1
SPECIFICATION FairSpec
PROPERTY CheckingEnds
