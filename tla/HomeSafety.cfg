\* A page or sheet of a height is built three times, two saves of the filters overlap, two
\* swipes are under way, three answers come in any order; two devices save twice.
CONSTANTS
    Options = 2
    MaxBuilds = 3
    Preset = 1
    Unset = Unset
    Ages = {18, 30, 99}
    NoPage = NoPage
    MaxWrites = 2
    Codes = {"en", "ru", "hy", "fr"}
    MaxLanguages = 3
    Likers = {1, 2}
    MaxCalls = 2
    MaxPages = 1
    MaxPending = 3
    Devices = {d1, d2}
    Loud = {"height"}
    Unread = {"zodiacSign"}
    Values = {v1}
    Null = Null
    NoModel = NoModel
    MaxQueue = 2
    MaxSaves = 2
SPECIFICATION MCSpec
SYMMETRY Symmetry
INVARIANTS
    TypeOK HeightOffered LanguagesOnce FiltersKept
    HomeStays MatchesAnnounced DialogsExplained
    SavedEditsKept ModelIsStored
