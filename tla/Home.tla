-------------------------------- MODULE Home --------------------------------
(***************************************************************************)
(* Home and what is reached from it.  On one phone: the choice of a height,*)
(* the page of languages and the page of filters, the tab of those who     *)
(* like the user, and the dialogs over Home.  On the user's several        *)
(* devices: the profile that these pages store.                            *)
(*                                                                         *)
(* The parts have no variable in common, so that an interleaving of two of *)
(* them shows nothing that they do not show alone: in a behaviour one part *)
(* moves, and the others stand.                                            *)
(***************************************************************************)
EXTENDS Naturals, Sequences, FiniteSets

CONSTANTS
    Options, MaxBuilds, Preset, Unset,              \* HeightSheet
    Codes, MaxLanguages,                            \* KnownLanguages
    Ages, NoPage, MaxWrites,                        \* FilterPrefs
    Likers, MaxCalls, MaxPages,                     \* LikedByDialog
    MaxPending,                                     \* HomeDialogs
    Devices, Loud, Unread, Values, Null, NoModel, MaxQueue, MaxSaves   \* ProfileSync

ASSUME BoundsAssumption ==
    /\ {Options, MaxBuilds, MaxLanguages, MaxWrites, MaxCalls, MaxPages, MaxPending,
        MaxQueue, MaxSaves} \subseteq Nat \ {0}
    /\ Ages \subseteq Nat /\ Likers \subseteq Nat

ASSUME FieldsAssumption ==
    /\ Loud \cap Unread = {}
    /\ (Loud \cup Unread) \cap {"about", "maxDistance"} = {}
    /\ Null \notin Values

ASSUME FiniteAssumption == IsFiniteSet(Codes) /\ IsFiniteSet(Likers)

VARIABLES
    part,       \* the part that moves
    field, height, form, builds, index, picker, relisted,
    known, switchedOff,
    prefs, disk, writes, shown, kept, torn, early,
    likes, open, grid, stack, calls, twice, left, shrunk, silent,
    online, place, connection, streaming, listening, checks, inbox, missed,
    location, timing, statuses, strays, asked, failedAgain,
    doc, queue, model, filtering, saves, edited, wanted, fresh, conflict

sheetVars == <<field, height, form, builds, index, picker, relisted>>
languageVars == <<known, switchedOff>>
filterVars == <<prefs, disk, writes, shown, kept, torn, early>>
likedByVars == <<likes, open, grid, stack, calls, twice, left, shrunk, silent>>
dialogVars == <<online, place, connection, streaming, listening, checks, inbox, missed,
                location, timing, statuses, strays, asked, failedAgain>>
syncVars == <<doc, queue, model, filtering, saves, edited, wanted, fresh, conflict>>
vars == <<part, sheetVars, languageVars, filterVars, likedByVars, dialogVars, syncVars>>

Sheet == INSTANCE HeightSheet
Languages == INSTANCE KnownLanguages
Filters == INSTANCE FilterPrefs
LikedBy == INSTANCE LikedByDialog
Dialogs == INSTANCE HomeDialogs
Sync == INSTANCE ProfileSync

Parts == {"sheet", "languages", "filters", "likedBy", "dialogs", "sync"}

TypeOK ==
    /\ part \in Parts
    /\ Sheet!TypeOK /\ Languages!TypeOK /\ Filters!TypeOK
    /\ LikedBy!TypeOK /\ Dialogs!TypeOK /\ Sync!TypeOK

Init ==
    /\ part \in Parts
    /\ Sheet!Init /\ Languages!Init /\ Filters!Init
    /\ LikedBy!Init /\ Dialogs!Init /\ Sync!Init

SheetMoves ==
    /\ part = "sheet" /\ Sheet!Next
    /\ UNCHANGED <<part, languageVars, filterVars, likedByVars, dialogVars, syncVars>>

LanguagesMove ==
    /\ part = "languages" /\ Languages!Next
    /\ UNCHANGED <<part, sheetVars, filterVars, likedByVars, dialogVars, syncVars>>

FiltersMove ==
    /\ part = "filters" /\ Filters!Next
    /\ UNCHANGED <<part, sheetVars, languageVars, likedByVars, dialogVars, syncVars>>

LikedByMoves ==
    /\ part = "likedBy" /\ LikedBy!Next
    /\ UNCHANGED <<part, sheetVars, languageVars, filterVars, dialogVars, syncVars>>

DialogsMove ==
    /\ part = "dialogs" /\ Dialogs!Next
    /\ UNCHANGED <<part, sheetVars, languageVars, filterVars, likedByVars, syncVars>>

SyncMoves ==
    /\ part = "sync" /\ Sync!Next
    /\ UNCHANGED <<part, sheetVars, languageVars, filterVars, likedByVars, dialogVars>>

Next ==
    \/ SheetMoves \/ LanguagesMove \/ FiltersMove
    \/ LikedByMoves \/ DialogsMove \/ SyncMoves

Spec == Init /\ [][Next]_vars

-----------------------------------------------------------------------------
(* The properties of the parts, stated in full where they are defined. *)

\* A height is one of those offered, unless a picker listed them twice.
HeightOffered == Sheet!HeightOffered

\* A profile's languages are each there once, unless one was switched off.
LanguagesOnce == Languages!LanguagesOnce

\* The range stored is the one saved last, unless the app ended in mid-save.
FiltersKept == Filters!FiltersKept

\* An answer closes its own dialog, unless it was hurried or left.
HomeStays == LikedBy!HomeStays

\* A match is announced, unless its tile has gone.
MatchesAnnounced == LikedBy!MatchesAnnounced

\* A dialog over Home that should go is about to be looked at again.
DialogsExplained == Dialogs!DialogsExplained

\* A save of the whole document takes back no edit of a device that had read it.
SavedEditsKept == Sync!SavedEditsKept

\* What a device shows is what it has stored, but for what waits for a save.
ModelIsStored == Sync!ModelIsStored

=============================================================================
