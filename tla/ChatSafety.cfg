\* Overlapping blocks around texts and images, pages reopened at any time.
CONSTANTS
    Users = {u1, u2}
    MaxMsgs = 2
    MaxYes = 2
SPECIFICATION FairSpec
INVARIANTS TypeOK ViewsAgree BlockHolds WritingExplained
PROPERTY NewestIsRead
