--------------------------- MODULE LikedByDialog ---------------------------
(***************************************************************************)
(* The page of those who like the user, a tab of Home: a grid of tiles,    *)
(* each of which opens a dialog with a like button.  The handlers of a     *)
(* dialog keep the context of their TILE, and pop whatever is on top of    *)
(* the Navigator; a tile that has gone has no Navigator, and they throw.   *)
(***************************************************************************)
EXTENDS Naturals, SequencesExt, FiniteSetsExt

CONSTANTS
    Likers,     \* other users; the grid is in the order of their ids
    MaxCalls,   \* bound on the calls of chooseUser under way
    MaxPages    \* bound on the pages on top of Home

VARIABLES
    likes,      \* selectedList as this phone's Firestore shows it
    open,       \* the tab is selected, so that the grid exists
    grid,       \* the users on the grid
    stack,      \* the routes of the Navigator, bottom first
    calls,      \* calls of chooseUser, each with the tile of its dialog
    \* history: no guard reads it
    twice,      \* a like button was pressed while its first call was under way
    left,       \* a dialog was left with a call under way
    shrunk,     \* a tile went while its dialog was open, or its call under way
    silent      \* a match was made and not announced

vars == <<likes, open, grid, stack, calls, twice, left, shrunk, silent>>

\* A dialog, and a call, know their user and their tile: its place, 0 when it has gone.
Tiles == 0 .. Cardinality(Likers)
Home == [kind |-> "home"]
Page == [kind |-> "page"]       \* one of the drawer's, or a chat
Dialogs == [kind : {"dialog"}, user : Likers, tile : Tiles, pressed : BOOLEAN]
Calls == [user : Likers, tile : Tiles, liking : BOOLEAN]

TypeOK ==
    /\ likes \subseteq Likers /\ grid \subseteq Likers
    /\ {open, twice, left, shrunk, silent} \subseteq BOOLEAN
    /\ ~open => grid = {}
    /\ stack \in Seq({Home, Page} \cup Dialogs)
    /\ calls \in Seq(Calls) /\ Len(calls) <= MaxCalls
    /\ \A i \in DOMAIN calls : calls[i].tile <= Cardinality(grid)

Init ==
    /\ likes \in SUBSET Likers
    /\ open = FALSE /\ grid = {}
    /\ stack = <<Home>> /\ calls = << >>
    /\ twice = FALSE /\ left = FALSE /\ shrunk = FALSE /\ silent = FALSE

\* Home is there; without it the app shows nothing.
AtHome == stack # << >>
OnTop(kind) == AtHome /\ Last(stack).kind = kind

\* The tiles beyond n go: from the calls cs and the routes of st.
Kept(r, n) == IF r.tile > n THEN [r EXCEPT !.tile = 0] ELSE r
Lost(n, cs, st) ==
    /\ calls' = [i \in DOMAIN cs |-> Kept(cs[i], n)]
    /\ stack' = [i \in DOMAIN st |-> IF st[i].kind = "dialog" THEN Kept(st[i], n) ELSE st[i]]
    /\ shrunk' = (shrunk \/ calls' # cs \/ stack' # st)

-----------------------------------------------------------------------------
\* Another user likes this one, or this one decides on another device.
LikesChange ==
    /\ likes' \in SUBSET Likers \ {likes}
    /\ UNCHANGED <<open, grid, stack, calls, twice, left, shrunk, silent>>

\* The stream's next list; tiles are kept by their place.
Show ==
    /\ open /\ AtHome /\ grid # likes
    /\ grid' = likes
    /\ Lost(Cardinality(likes), calls, stack)
    /\ UNCHANGED <<likes, open, twice, left, silent>>

\* Another tab, or this one; a tab that is left goes with all its tiles.
SwitchTab ==
    /\ stack = <<Home>>
    /\ open' = ~open /\ grid' = {}
    /\ Lost(0, calls, stack)
    /\ UNCHANGED <<likes, twice, left, silent>>

OpenPage ==
    /\ OnTop("home") \/ OnTop("page")
    /\ Len(stack) <= MaxPages
    /\ stack' = Append(stack, Page)
    /\ UNCHANGED <<likes, open, grid, calls, twice, left, shrunk, silent>>

\* A tap on u's tile.
OpenDialog(u) ==
    /\ OnTop("home") /\ u \in grid
    /\ stack' = Append(stack, [kind |-> "dialog", user |-> u, pressed |-> FALSE,
                               tile |-> Cardinality({w \in grid : w <= u})])
    /\ UNCHANGED <<likes, open, grid, calls, twice, left, shrunk, silent>>

CallsFor(u) == {i \in DOMAIN calls : calls[i].user = u}

\* The like button of the dialog's card.
SwipeRight ==
    /\ OnTop("dialog") /\ Len(calls) < MaxCalls
    /\ LET d == Last(stack) IN
        /\ calls' = Append(calls, [user |-> d.user, tile |-> d.tile, liking |-> FALSE])
        /\ stack' = [stack EXCEPT ![Len(stack)].pressed = TRUE]
        /\ twice' = (twice \/ CallsFor(d.user) # {})
    /\ UNCHANGED <<likes, open, grid, left, shrunk, silent>>

\* The dialog's arrow and its left swipe, which need the tile, or the system's back.
CloseDialog ==
    /\ OnTop("dialog")
    /\ stack' = Front(stack)
    /\ left' = (left \/ CallsFor(Last(stack).user) # {})
    /\ UNCHANGED <<likes, open, grid, calls, twice, shrunk, silent>>

ClosePage ==
    /\ OnTop("page")
    /\ stack' = Front(stack)
    /\ UNCHANGED <<likes, open, grid, calls, twice, left, shrunk, silent>>

-----------------------------------------------------------------------------
PoppedAll(s) == << >>                                \* mutant of Popped
Popped(s) == Front(s)

AnnouncedLike(call, flag) == ~flag /\ call.tile # 0      \* mutant of Announced
\* 'This is a match!' comes after the pop.
Announced(call, flag) == flag /\ call.tile # 0

\* Navigator.pop(context), when chooseUser has answered.
\* When Home is popped its grid goes; without its tile the handler ends here.
Answered(i, flag) ==
    /\ LET rest == RemoveAt(calls, i) IN
        \/ /\ calls[i].tile # 0 /\ Len(stack) > 1
           /\ calls' = rest /\ stack' = Popped(stack)
           /\ UNCHANGED <<open, grid, shrunk>>
        \/ /\ calls[i].tile # 0 /\ Len(stack) = 1
           /\ open' = FALSE /\ grid' = {}
           /\ Lost(0, rest, << >>)
        \/ /\ calls[i].tile = 0
           /\ calls' = rest
           /\ UNCHANGED <<open, grid, stack, shrunk>>
    /\ silent' = (silent \/ (flag /\ ~Announced(calls[i], flag)))
    /\ UNCHANGED <<twice, left>>

\* chooseUser's read finds the like: selectUser deletes it without being awaited,
\* and the dialog is popped and the match announced in the same turn.
Match(i) ==
    /\ ~calls[i].liking /\ calls[i].user \in likes
    /\ likes' = likes \ {calls[i].user}
    /\ Answered(i, TRUE)

\* It does not: two writes are awaited.
Like(i) ==
    /\ ~calls[i].liking /\ calls[i].user \notin likes
    /\ calls' = [calls EXCEPT ![i].liking = TRUE]
    /\ UNCHANGED <<likes, open, grid, stack, twice, left, shrunk, silent>>

Liked(i) ==
    /\ calls[i].liking
    /\ Answered(i, FALSE)
    /\ UNCHANGED likes

\* The app ends and is started again.
Kill ==
    /\ open' = FALSE /\ grid' = {} /\ stack' = <<Home>> /\ calls' = << >>
    /\ UNCHANGED <<likes, twice, left, shrunk, silent>>

Next ==
    \/ LikesChange \/ Show \/ SwitchTab \/ OpenPage \/ ClosePage
    \/ \E u \in Likers : OpenDialog(u)
    \/ SwipeRight \/ CloseDialog
    \/ \E i \in DOMAIN calls : Match(i) \/ Like(i) \/ Liked(i)
    \/ Kill

Spec == Init /\ [][Next]_vars

-----------------------------------------------------------------------------
(***************************************************************************)
(* HomeStays: the answer to a swipe closes the dialog it was made on, and  *)
(* no other route: while a call is under way its dialog is on top, Home is *)
(* below it, and an answered dialog does not stay.  Not so when the like   *)
(* button was pressed twice, or a dialog was left with a call under way:   *)
(* the late answer takes another page, or Home itself, and the screen is   *)
(* empty (page_liked_by_people.dart:162-168).                              *)
(***************************************************************************)
HomeStays == ~twice /\ ~left =>
    /\ AtHome /\ stack[1] = Home
    /\ \A i \in DOMAIN calls : OnTop("dialog") /\ Last(stack).user = calls[i].user
    /\ OnTop("dialog") /\ Last(stack).pressed => calls # << >> \/ shrunk

(***************************************************************************)
(* MatchesAnnounced: a match made on this page is announced, unless its    *)
(* tile had gone by then: a shorter list was shown, or the user had left   *)
(* the dialog and the tab (page_liked_by_people.dart:168-170).             *)
(***************************************************************************)
MatchesAnnounced == silent => shrunk

=============================================================================
