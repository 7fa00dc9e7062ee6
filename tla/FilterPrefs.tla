---------------------------- MODULE FilterPrefs ----------------------------
(***************************************************************************)
(* The range of ages (or, alike, of heights) of PageFilters, and its two   *)
(* preferences, which FiltersState writes one after the other: the second  *)
(* when the platform has stored the first.  Preferences are read from a    *)
(* copy in memory that a write changes before it is stored.                *)
(***************************************************************************)
EXTENDS Naturals, SequencesExt

CONSTANTS
    Ages,       \* the slider's positions
    NoPage,     \* PageFilters is not open
    MaxWrites   \* bound on the writes under way

VARIABLES
    prefs,      \* minAge and maxAge as getInt returns them
    disk,       \* as they are stored
    writes,     \* writes under way, oldest first: [end, age, then]
    shown,      \* _ageValues of the open page
    \* history: no guard reads it
    kept,       \* the range saved last
    torn,       \* since then the app has ended in the middle of a save
    early       \* the page was opened, ever, with half a range stored

vars == <<prefs, disk, writes, shown, kept, torn, early>>

Ranges == [min : Ages, max : Ages]
Ordered(r) == r.min <= r.max
Writes == [end : {"min", "max"}, age : Ages, then : Ages]

TypeOK ==
    /\ {prefs, disk, kept} \subseteq Ranges
    /\ writes \in Seq(Writes) /\ Len(writes) <= MaxWrites
    /\ shown \in Ranges \cup {NoPage}
    /\ {torn, early} \subseteq BOOLEAN

\* A preference that was never stored reads as its default.
Init ==
    /\ prefs \in {r \in Ranges : Ordered(r)}
    /\ disk = prefs /\ kept = prefs
    /\ writes = << >> /\ shown = NoPage
    /\ torn = FALSE /\ early = FALSE

-----------------------------------------------------------------------------
\* initState reads the preferences before the user can touch the page: the app
\* has loaded them for its theme.
OpenFilters ==
    /\ shown = NoPage
    /\ shown' = prefs
    /\ early' = (early \/ writes # << >> \/ ~Ordered(prefs))
    /\ UNCHANGED <<prefs, disk, writes, kept, torn>>

\* The range slider does not let its thumbs cross.
Move(r) ==
    /\ shown # NoPage /\ Ordered(r) /\ r # shown
    /\ shown' = r
    /\ UNCHANGED <<prefs, disk, writes, kept, torn, early>>

\* The page's back button: _saveFilters, without waiting.
SaveFilters ==
    /\ shown # NoPage /\ Len(writes) < MaxWrites
    /\ prefs' = [prefs EXCEPT !.min = shown.min]
    /\ writes' = Append(writes, [end |-> "min", age |-> shown.min, then |-> shown.max])
    /\ shown' = NoPage
    /\ kept' = shown /\ torn' = FALSE
    /\ UNCHANGED <<disk, early>>

\* The system's back: nothing is saved.
Leave ==
    /\ shown # NoPage
    /\ shown' = NoPage
    /\ UNCHANGED <<prefs, disk, writes, kept, torn, early>>

MaxOfMin(w) == [end |-> "max", age |-> w.age, then |-> w.then]   \* mutant of MaxOf
MaxOf(w) == [end |-> "max", age |-> w.then, then |-> w.then]

\* The platform has stored the oldest write; after minAge, maxAge is set.
Stored ==
    /\ writes # << >>
    /\ LET w == Head(writes) IN
        /\ disk' = [disk EXCEPT ![w.end] = w.age]
        /\ IF w.end = "min"
           THEN /\ prefs' = [prefs EXCEPT !.max = MaxOf(w).age]
                /\ writes' = Append(Tail(writes), MaxOf(w))
           ELSE /\ writes' = Tail(writes)
                /\ UNCHANGED prefs
    /\ UNCHANGED <<shown, kept, torn, early>>

\* The app ends, and starts again: memory is filled from what is stored.
Kill ==
    /\ prefs' = disk
    /\ writes' = << >>
    /\ shown' = NoPage
    /\ torn' = (torn \/ writes # << >>)
    /\ UNCHANGED <<disk, kept, early>>

InPage == SaveFilters \/ Leave \/ \E r \in Ranges : Move(r)

Next == OpenFilters \/ InPage \/ Stored \/ Kill

Spec == Init /\ [][Next]_vars

-----------------------------------------------------------------------------
(***************************************************************************)
(* FiltersKept: with no write under way, memory and disk hold the range    *)
(* saved last, both ends of the same save; only the end of the app between *)
(* the two writes of a save loses it (filters.dart:41-45).  And the range  *)
(* is not upside down, unless the page was opened on half a range: then it *)
(* shows one, and its back button saves it.                                *)
(***************************************************************************)
FiltersKept ==
    /\ writes = << >> => prefs = disk
    /\ writes = << >> /\ ~torn => prefs = kept
    /\ writes = << >> /\ ~torn /\ ~early => Ordered(prefs)

=============================================================================
