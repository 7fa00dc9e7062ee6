--------------------------- MODULE KnownLanguages ---------------------------
(***************************************************************************)
(* PageProfileLanguages: a switch for each language, on those that the     *)
(* user knows.  The page edits the list of the model itself, which holds   *)
(* codes, and looks in it for the path of a document.                      *)
(***************************************************************************)
EXTENDS Naturals, SequencesExt

CONSTANTS
    Codes,          \* languages offered
    MaxLanguages    \* 5 in the code (155)

VARIABLES
    known,          \* currentUser.knownLanguages
    switchedOff     \* history: some language has been switched off

vars == <<known, switchedOff>>

TypeOK ==
    /\ known \in Seq(Codes)
    /\ switchedOff \in BOOLEAN

\* The wizard's page of languages stores at least one, and each once.
Init ==
    /\ \E s \in SetToSeqs(Codes) : \E n \in DOMAIN s :
        n <= MaxLanguages /\ known = SubSeq(s, 1, n)
    /\ switchedOff = FALSE

On(code) == code \in ToSet(known)

\* The last language stays: a message says so.
MayTurn(code) == On(code) => Len(known) >= 2

ToggledLonger(code) == IF Len(known) <= MaxLanguages THEN Append(known, code) ELSE known
                                                     \* mutant of Toggled
\* The path is never found: a language is added, if there is room, also when its
\* switch is turned off.
Toggled(code) == IF Len(known) < MaxLanguages THEN Append(known, code) ELSE known

\* A switch is pressed; onSubmit stores the model.
Toggle(code) ==
    /\ MayTurn(code)
    /\ known' = Toggled(code)
    /\ switchedOff' = (switchedOff \/ On(code))

Next == \E code \in Codes : Toggle(code)

Spec == Init /\ [][Next]_vars

-----------------------------------------------------------------------------
(***************************************************************************)
(* LanguagesOnce: a profile has a language, no more than the maximum, and, *)
(* unless a switch has been turned off, each of them once: turning one off *)
(* adds it a second time (page_profile_languages.dart:147-168), and with   *)
(* the list full of such doubles no other language can be added.           *)
(***************************************************************************)
LanguagesOnce ==
    /\ Len(known) \in 1 .. MaxLanguages
    /\ ~switchedOff => IsInjective(known)

=============================================================================
