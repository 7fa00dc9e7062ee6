--------------------------- MODULE ProfilePhotos ---------------------------
(***************************************************************************)
(* The photos of the signed-in profile: WidgetProfilePhoto on the wizard's *)
(* photo page and on PageProfile, with uploads that may end after the page *)
(* has gone (shared-widgets/widget_profile_photo.dart).                    *)
(*                                                                         *)
(* The widget edits a list object that it took from its page once and puts *)
(* into authProvider.currentUser after each edit; list objects have an id, *)
(* their position in lists.  What a tap does was fixed by the last frame:  *)
(* built is the list's length and covered is whether a loader or a sheet   *)
(* was in the way, at that time.                                           *)
(***************************************************************************)
EXTENDS Naturals, FiniteSets, SequencesExt

CONSTANTS
    Accounts,
    NoUser,     \* nobody is signed in
    NoDoc,      \* users/a does not exist
    Slots,      \* places for photos on the page (6)
    MaxPhotos,  \* bound on uploads started
    MaxLists    \* bound on list objects made

ASSUME BoundsAssumption ==
    /\ Slots \in Nat \ {0}
    /\ MaxPhotos \in Nat
    /\ MaxLists \in Nat
    /\ NoUser \notin Accounts

VARIABLES
    stored,     \* stored[a]: photos and photoUrl of users/a, as the phone sees it
    user,       \* authProvider.currentUser
    lists,      \* the list objects
    page,       \* "none", "select" (PageSelectPhoto) or "profile"
    shown,      \* the list object of the page's widget
    built, covered,
    loading,    \* the page shows its loader
    sheets,     \* action sheets open
    submit,     \* PageSelectPhoto's button is enabled
    drag,       \* a photo being dragged, and the slot that accepted it
    uploads,    \* uploads under way
    count,      \* uploads started so far
    mishaps     \* history: what has gone wrong with timing

screen == <<page, shown, built, covered, loading, sheets, submit, drag>>
vars == <<stored, user, lists, screen, uploads, count, mishaps>>

Photos == [by : Accounts, n : 0 .. MaxPhotos]
First(a) == [by |-> a, n |-> 0]
NoPhoto == [by |-> NoUser, n |-> 0]
NoDrag == [from |-> 0, to |-> 0]
Docs == [photos : Seq(Photos), url : Photos]
Users == [uid : Accounts, list : 0 .. MaxLists, url : Photos \cup {NoPhoto}]
ASSUME NoneAssumption == NoUser \notin Users /\ NoDoc \notin Docs
Uploads == [photo : Photos, list : 1 .. MaxLists, live : BOOLEAN]
Mishaps == {"late",     \* an upload ended after its page had gone
            "tap",      \* a touch on a page that was busy or no longer as drawn
            "drop",     \* a photo was dropped on a slot that had gone
            "overlap"}  \* an upload started while another was under way

TypeOK ==
    /\ stored \in [Accounts -> Docs \cup {NoDoc}]
    /\ user \in Users \cup {NoUser}
    /\ lists \in Seq(Seq(Photos)) /\ Len(lists) <= MaxLists
    /\ page \in {"none", "select", "profile"}
    /\ shown \in 0 .. Len(lists)
    /\ built \in 0 .. MaxPhotos + 1
    /\ {covered, loading, submit} \subseteq BOOLEAN
    /\ sheets \in 0 .. MaxPhotos
    /\ drag \in [from : 0 .. Slots, to : 0 .. Slots]
    /\ uploads \subseteq Uploads
    /\ count \in 0 .. MaxPhotos
    /\ mishaps \subseteq Mishaps

\* Some of the accounts are registered, with one photo.
Init ==
    /\ \E registered \in SUBSET Accounts :
          stored = [a \in Accounts |-> IF a \in registered
                                      THEN [photos |-> <<First(a)>>, url |-> First(a)]
                                      ELSE NoDoc]
    /\ user = NoUser
    /\ lists = << >>
    /\ page = "none" /\ shown = 0
    /\ built = 0 /\ covered = FALSE
    /\ loading = FALSE /\ sheets = 0 /\ submit = FALSE
    /\ drag = NoDrag
    /\ uploads = {} /\ count = 0
    /\ mishaps = {}

Registered(a) == stored[a] # NoDoc
Present == IF shown = 0 THEN << >> ELSE lists[shown]
Mine(u) == IF u.list = 0 THEN << >> ELSE lists[u.list]

-----------------------------------------------------------------------------
StaleModel(a) ==                                     \* mutant of NewModel
    LET l == Len(lists)
    IN  [uid |-> a, list |-> l, url |-> IF l = 0 \/ lists[l] = << >> THEN NoPhoto ELSE Head(lists[l])]
NewModel(a) == [uid |-> a, list |-> 0, url |-> NoPhoto]

\* Signing in makes a model, from the document with a list of its own.
Login(a) ==
    /\ user = NoUser
    /\ IF Registered(a)
       THEN /\ Len(lists) < MaxLists
            /\ lists' = Append(lists, stored[a].photos)
            /\ user' = [uid |-> a, list |-> Len(lists'), url |-> stored[a].url]
       ELSE /\ user' = NewModel(a)
            /\ UNCHANGED lists
    /\ UNCHANGED <<stored, screen, uploads, count, mishaps>>

\* A page opens with the list object l.
Show(p, l) ==
    /\ page' = p
    /\ shown' = l
    /\ built' = Len(lists'[l])
    /\ covered' = FALSE /\ loading' = FALSE /\ sheets' = 0
    /\ submit' = (p = "select" /\ Mine(user) # << >>)
    /\ drag' = NoDrag

\* PageSelectPhoto gives its widget a new, empty list.
OpenSelectPhoto ==
    /\ page = "none" /\ user # NoUser
    /\ ~Registered(user.uid)
    /\ Len(lists) < MaxLists
    /\ lists' = Append(lists, << >>)
    /\ Show("select", Len(lists'))
    /\ UNCHANGED <<stored, user, uploads, count, mishaps>>

\* PageProfile gives it the model's list.
OpenProfile ==
    /\ page = "none" /\ user # NoUser
    /\ Registered(user.uid) /\ user.list # 0
    /\ UNCHANGED lists
    /\ Show("profile", user.list)
    /\ UNCHANGED <<stored, user, uploads, count, mishaps>>

\* The page's state object goes; its uploads do not.
Closed ==
    /\ page' = "none" /\ shown' = 0
    /\ built' = 0 /\ covered' = FALSE
    /\ loading' = FALSE /\ sheets' = 0 /\ submit' = FALSE
    /\ drag' = NoDrag
    /\ uploads' = {[up EXCEPT !.live = FALSE] : up \in uploads}

\* (Leaving with the system's back button while submitting is left out.)
Back ==
    /\ page # "none" /\ sheets = 0
    /\ ~(page = "select" /\ Registered(user.uid))
    /\ Closed
    /\ UNCHANGED <<stored, user, lists, count, mishaps>>

\* PageProfile's log out.
LogOut ==
    /\ page = "profile" /\ ~covered
    /\ user' = NoUser
    /\ Closed
    /\ UNCHANGED <<stored, lists, count, mishaps>>

Frame ==
    /\ page # "none"
    /\ built' = Len(Present)
    /\ covered' = (loading \/ sheets > 0)
    /\ UNCHANGED <<stored, user, lists, page, shown, loading, sheets, submit,
                   drag, uploads, count, mishaps>>

-----------------------------------------------------------------------------
(***************************************************************************)
(* setPhotos(l): the model takes the list and its first url; the model's   *)
(* listener onSave stores it when a PageProfile is open (the listeners of  *)
(* pages that have gone fail).                                             *)
(***************************************************************************)
UrlKept(u, ps) == u.url                              \* mutant of UrlOf
UrlOf(u, ps) == IF ps = << >> THEN u.url ELSE Head(ps)

NotSaved(u, ps) == stored                            \* mutant of Saved
Saved(u, ps) ==
    IF page = "profile"
    THEN [stored EXCEPT ![u.uid] = [photos |-> ps, url |-> UrlOf(u, ps)]]
    ELSE stored

SetPhotos(l) ==
    /\ user' = [user EXCEPT !.list = l, !.url = UrlOf(user, lists'[l])]
    /\ stored' = Saved(user, lists'[l])

\* The page is idle and as it was drawn.
Idle == built = Len(Present) /\ ~covered /\ ~loading /\ sheets = 0
Tapped == mishaps' = IF Idle THEN mishaps ELSE mishaps \cup {"tap"}

\* The minus button of slot i; with one photo it only shows a message.
RemovableAlways(i) == i <= built                     \* mutant of Removable
Removable(i) == i <= built /\ built > 1

RemovePhoto(i) ==
    /\ page # "none" /\ ~covered
    /\ Removable(i)
    /\ IF i <= Len(Present)
       THEN /\ lists' = [lists EXCEPT ![shown] = RemoveAt(@, i)]
            /\ SetPhotos(shown)
       ELSE UNCHANGED <<stored, user, lists>>      \* RangeError
    /\ Tapped
    /\ UNCHANGED <<screen, uploads, count>>

TargetAfter(j) == j + 1                              \* mutant of Target
Target(j) == j

\* A photo is dragged over a slot that holds one.
Hover(i, j) ==
    /\ page # "none" /\ ~covered /\ drag = NoDrag
    /\ i <= built /\ i # j
    /\ j <= Len(Present)
    /\ drag' = [from |-> i, to |-> Target(j)]
    /\ UNCHANGED <<stored, user, lists, page, shown, built, covered, loading,
                   sheets, submit, uploads, count, mishaps>>

(***************************************************************************)
(* onAccept: remove, insert, setPhotos.  By now the dragged photo may not  *)
(* be there (RangeError at once) or the slot may have gone (RangeError     *)
(* after the removal).                                                     *)
(***************************************************************************)
Drop ==
    LET i == drag.from
        j == drag.to
        rest == RemoveAt(Present, i)
    IN  /\ drag # NoDrag
        /\ drag' = NoDrag
        /\ \/ /\ i > Len(Present)
              /\ UNCHANGED <<stored, user, lists, mishaps>>
           \/ /\ i <= Len(Present) /\ j - 1 > Len(rest)
              /\ lists' = [lists EXCEPT ![shown] = rest]
              /\ mishaps' = mishaps \cup {"drop"}
              /\ UNCHANGED <<stored, user>>
           \/ /\ i <= Len(Present) /\ j - 1 <= Len(rest)
              /\ lists' = [lists EXCEPT ![shown] = InsertAt(rest, j, Present[i])]
              /\ SetPhotos(shown)
              /\ Tapped
        /\ UNCHANGED <<page, shown, built, covered, loading, sheets, submit,
                       uploads, count>>

-----------------------------------------------------------------------------
\* The plus button of the first free slot opens the action sheet.
FreeSlotAny == TRUE                                  \* mutant of FreeSlot
FreeSlot == built < Slots

OnSelectPhoto ==
    /\ page # "none" /\ ~covered
    /\ FreeSlot
    /\ sheets + count < MaxPhotos
    /\ sheets' = sheets + 1
    /\ Tapped
    /\ UNCHANGED <<stored, user, lists, page, shown, built, covered, loading,
                   submit, drag, uploads, count>>

DismissSheet ==
    /\ sheets > 0
    /\ sheets' = sheets - 1
    /\ UNCHANGED <<stored, user, lists, page, shown, built, covered, loading,
                   submit, drag, uploads, count, mishaps>>

\* getImage pops a sheet; nothing is picked or cropped, or an upload begins.
\* showLoader rebuilds the page, and with it the wizard's button.
GetImage ==
    /\ sheets > 0
    /\ sheets' = sheets - 1
    /\ submit' = (page = "select" /\ Mine(user) # << >>)
    /\ \/ /\ loading' = FALSE
          /\ UNCHANGED <<uploads, count, mishaps>>
       \/ /\ loading' = TRUE
          /\ count' = count + 1
          /\ uploads' = uploads \cup
                {[photo |-> [by |-> user.uid, n |-> count'], list |-> shown, live |-> TRUE]}
          /\ mishaps' = IF uploads = {} THEN mishaps ELSE mishaps \cup {"overlap"}
    /\ UNCHANGED <<stored, user, lists, page, shown, built, covered, drag>>

AddPhoto(up) ==
    lists' = [lists EXCEPT ![up.list] = Append(@, up.photo)]

\* The upload ends while its page is there.
UploadDone(up) ==
    /\ up.live
    /\ uploads' = uploads \ {up}
    /\ AddPhoto(up)
    /\ SetPhotos(up.list)
    /\ loading' = FALSE
    /\ submit' = (page = "select")
    /\ UNCHANGED <<page, shown, built, covered, sheets, drag, count, mishaps>>

(***************************************************************************)
(* The page has gone.  setState throws: a debug build before it runs its   *)
(* callback, a release build after.  The callback gives the list to        *)
(* whoever is signed in by now.                                            *)
(***************************************************************************)
LateUploadDone(up) ==
    /\ ~up.live
    /\ uploads' = uploads \ {up}
    /\ mishaps' = mishaps \cup {"late"}
    /\ \/ UNCHANGED <<stored, user, lists>>
       \/ /\ AddPhoto(up)
          /\ IF user = NoUser THEN UNCHANGED <<stored, user>> ELSE SetPhotos(up.list)
    /\ UNCHANGED <<screen, count>>

\* An exception ends getImage; the loader stays.
UploadFails(up) ==
    /\ uploads' = uploads \ {up}
    /\ UNCHANGED <<stored, user, lists, screen, count, mishaps>>

\* PageSelectPhoto.onSubmit stores the model (the phone sees the write at
\* once) and shows the loader until the write is acknowledged.
OnSubmit ==
    /\ page = "select" /\ ~covered
    /\ submit
    /\ stored' = [stored EXCEPT ![user.uid] = [photos |-> Mine(user), url |-> user.url]]
    /\ loading' = TRUE
    /\ Tapped
    /\ UNCHANGED <<user, lists, page, shown, built, covered, sheets, submit,
                   drag, uploads, count>>

\* It then leaves for Home.
Submitting == page = "select" /\ Registered(user.uid)
Submitted ==
    /\ Submitting
    /\ Closed
    /\ UNCHANGED <<stored, user, lists, count, mishaps>>

Next ==
    \/ \E a \in Accounts : Login(a)
    \/ OpenSelectPhoto \/ OpenProfile \/ Back \/ LogOut \/ Frame
    \/ \E i \in 1 .. Slots : RemovePhoto(i)
    \/ \E i, j \in 1 .. Slots : Hover(i, j)
    \/ Drop \/ OnSelectPhoto \/ DismissSheet \/ GetImage
    \/ \E up \in uploads : UploadDone(up) \/ LateUploadDone(up) \/ UploadFails(up)
    \/ OnSubmit \/ Submitted

Spec == Init /\ [][Next]_vars

-----------------------------------------------------------------------------
Without(m) == m \notin mishaps
PhotosOf(a) == IF stored[a] = NoDoc THEN {} ELSE ToSet(stored[a].photos)

(***************************************************************************)
(* OwnPhotos: an account's document holds only photos uploaded for it,     *)
(* unless an upload ended after its page had gone (getImage puts its list  *)
(* into whatever authProvider.currentUser is by then).                     *)
(***************************************************************************)
OwnPhotos == Without("late") =>
    \A a \in Accounts : \A p \in PhotosOf(a) : p.by = a

(***************************************************************************)
(* CoverIsFirst: photoUrl, which the other users see, is the first photo,  *)
(* in the model and in every document, however photos were removed, moved  *)
(* and added, and by late uploads too; only a drop that fails half way     *)
(* (onAccept) leaves it behind.                                            *)
(***************************************************************************)
CoverIsFirst == Without("drop") =>
    /\ user # NoUser /\ Mine(user) # << >> => user.url = Head(Mine(user))
    /\ \A a \in Accounts : PhotosOf(a) # {} =>
          stored[a].url = Head(stored[a].photos)

(***************************************************************************)
(* KeepsOnePhoto: a stored profile has a photo: the wizard's button, the   *)
(* rule that the only photo cannot be removed, and the list that a page    *)
(* takes over, together; unless a tap met a page drawn earlier, a drop     *)
(* failed half way, or a list came in late.                                *)
(***************************************************************************)
KeepsOnePhoto == mishaps \cap {"tap", "drop", "late"} = {} =>
    \A a \in Accounts : Registered(a) => PhotosOf(a) # {}

(***************************************************************************)
(* SixSlots: a document has no more photos than the page has places; the   *)
(* place is looked for before the upload and not again after it, so that   *)
(* uploads must not overlap.                                               *)
(***************************************************************************)
SixSlots == mishaps \cap {"overlap", "tap", "late"} = {} =>
    \A a \in Accounts : Registered(a) => Len(stored[a].photos) <= Slots

(***************************************************************************)
(* EditsAreStored: what PageProfile shows is what the document holds: each *)
(* way of changing the photos notifies onSave, except late uploads, failed *)
(* drops, and edits that end while PageSelectPhoto is being submitted.     *)
(***************************************************************************)
EditsAreStored == mishaps = {} /\ page = "profile" =>
    stored[user.uid].photos = Present

=============================================================================
