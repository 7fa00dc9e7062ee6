---------------------------- MODULE HeightSheet ----------------------------
(***************************************************************************)
(* A height chosen from a list: first on the wizard's page (ui/auth/       *)
(* register/page_select_height.dart), later in the sheet of PageProfile    *)
(* (WidgetProfileFields, case 0).  The weight has the sheet only (case 1). *)
(*                                                                         *)
(* Page and sheet alike append their options to _heightOptions at EVERY    *)
(* build, and every turn of the picker builds them again; the picker lists *)
(* as many options as there were when it was built itself, and the option  *)
(* chosen is known by its index.                                           *)
(***************************************************************************)
EXTENDS Naturals

CONSTANTS
    Options,    \* what one build offers (141 heights: 100 to 240 cm; 220 weights)
    MaxBuilds,  \* bound on the builds of one page or sheet
    Preset,     \* the index at which a picker opens when nothing is chosen (70; 40)
    Unset       \* null

VARIABLES
    field,      \* "height" or "weight": which of the two this behaviour is about
    height,     \* currentUser.height - 100, or currentUser.weight - 30
    form,       \* what is open: the wizard's page, that with the photos over it, the sheet
    builds,     \* builds of its widget: _heightOptions has this many times Options
    index,      \* _height or _weight
    picker,     \* builds whose options the open picker lists; 0: no picker
    relisted    \* history: a picker has listed the options of more than one build

vars == <<field, height, form, builds, index, picker, relisted>>

Indices == 0 .. Options * MaxBuilds - 1

TypeOK ==
    /\ field \in {"height", "weight"}
    /\ {height, index} \subseteq Indices \cup {Unset}
    /\ form \in {"none", "wizard", "photo", "sheet"}
    /\ relisted \in BOOLEAN
    /\ builds \in 0 .. MaxBuilds /\ picker \in 0 .. builds
    /\ picker # 0 => form \in {"wizard", "sheet"}

\* A new user is asked for the height by the wizard, for the weight by nobody.
Init ==
    /\ height = Unset /\ index = Unset /\ picker = 0 /\ relisted = FALSE
    /\ \/ field = "height" /\ form = "wizard" /\ builds = 1
       \/ field = "weight" /\ form = "none" /\ builds = 0

\* _heightOptions[_height] can be drawn; otherwise build throws.
Drawn == index # Unset => index < Options * builds

\* One more build: the list is not emptied first.
Rebuilt == IF builds < MaxBuilds THEN builds + 1 ELSE builds

(***************************************************************************)
(* The page or the sheet, with its picker.                                 *)
(***************************************************************************)
\* Something else rebuilds it, the page also when it lies below the photos:
\* the screen turns, a keyboard closes, AuthProvider notifies.
Rebuild ==
    /\ form # "none"
    /\ builds' = Rebuilt
    /\ UNCHANGED <<field, height, form, index, picker, relisted>>

ListAll ==
    /\ picker' = builds
    /\ relisted' = (relisted \/ builds > 1)
    /\ UNCHANGED <<field, height, form, builds, index>>

\* A tap on the height shown opens the picker.
OpenPicker == form \in {"wizard", "sheet"} /\ Drawn /\ picker = 0 /\ ListAll

\* The picker's own sheet is built again: it is dragged, or the screen turns.
RebuildPicker == picker # 0 /\ ListAll

ListedLonger == 0 .. Options * picker                \* mutant of Listed
Listed == 0 .. Options * picker - 1

\* onSelectedItemChanged: setState builds the widget below again.
Turn(i) ==
    /\ picker # 0
    /\ i \in Listed
    /\ i # IF index = Unset THEN Preset ELSE index
    /\ index' = i
    /\ builds' = Rebuilt
    /\ UNCHANGED <<field, height, form, picker, relisted>>

\* The picker closes, in whatever way.  In the sheet, whenComplete stores.
ClosePicker ==
    /\ picker # 0
    /\ picker' = 0
    /\ height' = IF form = "sheet" THEN index ELSE height
    /\ UNCHANGED <<field, form, builds, index, relisted>>

(***************************************************************************)
(* The wizard.                                                             *)
(***************************************************************************)
\* onSubmit: the model takes the height, and the page of photos opens.
Continue ==
    /\ form = "wizard" /\ picker = 0 /\ index # Unset
    /\ height' = index
    /\ form' = "photo"
    /\ UNCHANGED <<field, builds, index, picker, relisted>>

Back ==
    /\ form = "photo"
    /\ form' = "wizard"
    /\ UNCHANGED <<field, height, builds, index, picker, relisted>>

\* The page is left for the languages and opened again, with nothing chosen.
Reenter ==
    /\ form = "wizard" /\ picker = 0
    /\ builds' = 1 /\ index' = Unset
    /\ UNCHANGED <<field, height, form, picker, relisted>>

\* The wizard ends: the model is stored, and Home replaces the routes.
Register ==
    /\ form = "photo"
    /\ form' = "none" /\ builds' = 0 /\ index' = Unset
    /\ UNCHANGED <<field, height, picker, relisted>>

(***************************************************************************)
(* The sheet.                                                              *)
(***************************************************************************)
\* The sheet opens, with a new widget, and is built once.
Open ==
    /\ form = "none"
    /\ form' = "sheet" /\ builds' = 1 /\ index' = height
    /\ UNCHANGED <<field, height, picker, relisted>>

\* The button below a weight: there is none any more.
Cancel ==
    /\ form = "sheet" /\ field = "weight" /\ picker = 0
    /\ index # Unset /\ Drawn
    /\ index' = Unset /\ height' = Unset
    /\ builds' = Rebuilt
    /\ UNCHANGED <<field, form, picker, relisted>>

\* The close button, Continue (which opens the next field's sheet), or a swipe down.
Close ==
    /\ form = "sheet" /\ picker = 0
    /\ form' = "none" /\ builds' = 0 /\ index' = Unset
    /\ UNCHANGED <<field, height, picker, relisted>>

\* The app ends.  What the wizard has asked for is lost, and asked for again;
\* a registered user's height is stored.
Kill ==
    /\ IF form \in {"wizard", "photo"}
       THEN form' = "wizard" /\ builds' = 1 /\ height' = Unset
       ELSE form' = "none" /\ builds' = 0 /\ UNCHANGED height
    /\ index' = Unset /\ picker' = 0
    /\ UNCHANGED <<field, relisted>>

Next ==
    \/ Rebuild \/ OpenPicker \/ RebuildPicker \/ ClosePicker
    \/ \E i \in Indices : Turn(i)
    \/ Continue \/ Back \/ Reenter \/ Register
    \/ Open \/ Cancel \/ Close
    \/ Kill

Spec == Init /\ [][Next]_vars

-----------------------------------------------------------------------------
(***************************************************************************)
(* HeightOffered: as long as no picker has listed the options of two       *)
(* builds, what the model holds is one of those offered.  When one has, it *)
(* may hold a height over 240 cm, chosen in the wizard or in the sheet;    *)
(* even so the wizard draws, and a sheet throws only over the index with   *)
(* which it opened (page_select_height.dart:28, 145, 189 and               *)
(* widget_profile_fields.dart:209-296).                                    *)
(***************************************************************************)
HeightOffered ==
    /\ ~relisted /\ height # Unset => height < Options
    /\ form # "none" /\ ~Drawn => relisted /\ form = "sheet" /\ index = height

=============================================================================
