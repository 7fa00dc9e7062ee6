\* Two accounts, three uploads that may overlap or end late.
CONSTANTS
    Accounts = {a1, a2}
    NoUser = NoUser
    NoDoc = NoDoc
    Slots = 2
    MaxPhotos = 2
    MaxLists = 3
SPECIFICATION Spec
INVARIANTS TypeOK OwnPhotos CoverIsFirst KeepsOnePhoto SixSlots EditsAreStored
SYMMETRY Symmetry
CHECK_DEADLOCK FALSE
