---------------------------- MODULE ProfileSync ----------------------------
(***************************************************************************)
(* The profile document users/u of one account, edited on several devices. *)
(* A device reads it once, into a UserModel (models/user_model.dart), and  *)
(* from then on writes the whole model back: PageProfile's listener onSave *)
(* after each setter that notifies, PageFilters when it is left by its     *)
(* back button.  Firestore's client queues the writes, also across kills.  *)
(***************************************************************************)
EXTENDS Naturals, SequencesExt

CONSTANTS
    Devices,
    Loud,       \* fields whose setter notifies: height, weight, education, ...
    Unread,     \* notifying fields that fromDocument reads from another key
    Values,
    Null,       \* no value; of maxDistance, the default
    NoModel,    \* the app is not running, or nobody is signed in
    MaxQueue,   \* bound on the writes queued on a device
    MaxSaves    \* bound on the saves of all devices

About == "about"            \* typed on PageProfile, assigned without notice
Distance == "maxDistance"   \* set on PageFilters, where nobody listens
Quiet == {About, Distance}
Fields == Loud \cup Unread \cup Quiet

VARIABLES
    doc,        \* the document at the server
    queue,      \* queue[d]: documents written by d, not yet delivered
    model,      \* model[d]: authProvider.currentUser
    filtering,  \* filtering[d]: PageFilters is open, and else PageProfile may be
    saves,      \* the number of saves so far
    \* history: no guard reads it
    edited,     \* edited[d]: fields edited on d and not saved since
    wanted,     \* the last value saved for each field by a device that edited it, as
                \* long as there is no conflict
    fresh,      \* d's model was read, or saved, with no other device's save under
                \* way, and none has followed
    conflict    \* a device has saved a model that was not fresh

vars == <<doc, queue, model, filtering, saves, edited, wanted, fresh, conflict>>

Profiles == [Fields -> Values \cup {Null}]

TypeOK ==
    /\ doc \in Profiles
    /\ queue \in [Devices -> Seq(Profiles)]
    /\ model \in [Devices -> Profiles \cup {NoModel}]
    /\ filtering \in [Devices -> BOOLEAN]
    /\ saves \in 0 .. MaxSaves
    /\ edited \in [Devices -> SUBSET Fields]
    /\ wanted \in Profiles
    /\ fresh \in [Devices -> BOOLEAN]
    /\ conflict \in BOOLEAN

\* The wizard has stored a profile without a zodiac sign or a text.
Init ==
    /\ \E v \in Values : doc = [f \in Fields |-> IF f \in Loud THEN v ELSE Null]
    /\ queue = [d \in Devices |-> << >>]
    /\ model = [d \in Devices |-> NoModel]
    /\ filtering = [d \in Devices |-> FALSE]
    /\ saves = 0
    /\ edited = [d \in Devices |-> {}]
    /\ wanted = doc
    /\ fresh = [d \in Devices |-> FALSE]
    /\ conflict = FALSE

Running(d) == model[d] # NoModel
OthersIdle(d) == \A e \in Devices \ {d} : queue[e] = << >>

-----------------------------------------------------------------------------
ToMapNoAbout(m) == [f \in Fields \ {About} |-> m[f]]  \* mutant of ToMap
ToMap(m) == m

\* 'zodiac-sign' and 'marital-status' are written, "zodiacSign" and "maritalStatus" read.
FromDocumentShort(dc) ==                             \* mutant of FromDocument
    [f \in Fields |-> IF f \in Unread \cup {Distance} THEN Null ELSE dc[f]]
FromDocument(dc) == [f \in Fields |-> IF f \in Unread THEN Null ELSE dc[f]]

\* The document as d sees it: its own queued write hides the server's.
Stored(d) == IF queue[d] # << >> THEN Last(queue[d]) ELSE doc

\* The app starts, or the user signs in: getCurrentUser makes a model.  (Offline
\* it is made from the cache, as if the app had been started before.)
GetCurrentUser(d) ==
    /\ ~Running(d)
    /\ model' = [model EXCEPT ![d] = FromDocument(Stored(d))]
    /\ fresh' = [fresh EXCEPT ![d] = OthersIdle(d)]
    /\ UNCHANGED <<doc, queue, filtering, saves, edited, wanted, conflict>>

\* setUser(m): the whole document is queued.
SetUser(d, m, fields) ==
    /\ Len(queue[d]) < MaxQueue /\ saves < MaxSaves
    /\ queue' = [queue EXCEPT ![d] = Append(@, ToMap(m))]
    /\ saves' = saves + 1
    /\ edited' = [edited EXCEPT ![d] = {}]
    /\ conflict' = (conflict \/ ~fresh[d])
    /\ wanted' = [f \in Fields |->
                    IF conflict' THEN Null ELSE IF f \in fields THEN m[f] ELSE wanted[f]]
    /\ fresh' = [e \in Devices |-> e = d /\ OthersIdle(d)]

-----------------------------------------------------------------------------
OpenFilters(d) ==
    /\ Running(d) /\ ~filtering[d]
    /\ filtering' = [filtering EXCEPT ![d] = TRUE]
    /\ UNCHANGED <<doc, queue, model, saves, edited, wanted, fresh, conflict>>

Unsaved(d, m, fields) ==                             \* mutant of Notify
    UNCHANGED <<queue, saves, edited, wanted, fresh, conflict>>
\* notifyListeners, with a PageProfile open: onSave stores the model.
Notify(d, m, fields) == SetUser(d, m, fields)

\* A row of PageProfile, or its languages: a notifying setter is called.
SetField(d, f, v) ==
    /\ Running(d) /\ ~filtering[d]
    /\ v # model[d][f]
    /\ model' = [model EXCEPT ![d][f] = v]
    /\ Notify(d, model'[d], edited[d] \cup {f})
    /\ UNCHANGED <<doc, filtering>>

\* The text about the user is taken into the model, and nothing else.
SetAbout(d, v) ==
    /\ Running(d) /\ ~filtering[d]
    /\ v # model[d][About]
    /\ model' = [model EXCEPT ![d][About] = v]
    /\ edited' = [edited EXCEPT ![d] = @ \cup {About}]
    /\ UNCHANGED <<doc, queue, filtering, saves, wanted, fresh, conflict>>

\* The slider of PageFilters: setMaxDistance notifies the listeners of pages
\* that have gone; they fail.
SetMaxDistance(d, v) ==
    /\ Running(d) /\ filtering[d]
    /\ v # model[d][Distance]
    /\ model' = [model EXCEPT ![d][Distance] = v]
    /\ edited' = [edited EXCEPT ![d] = @ \cup {Distance}]
    /\ UNCHANGED <<doc, queue, filtering, saves, wanted, fresh, conflict>>

\* The back button of PageFilters saves.
BackFromFilters(d) ==
    /\ Running(d) /\ filtering[d]
    /\ filtering' = [filtering EXCEPT ![d] = FALSE]
    /\ SetUser(d, model[d], edited[d])
    /\ UNCHANGED <<doc, model>>

\* The system's back does not.
Back(d) ==
    /\ filtering[d]
    /\ filtering' = [filtering EXCEPT ![d] = FALSE]
    /\ UNCHANGED <<doc, queue, model, saves, edited, wanted, fresh, conflict>>

\* The app is killed, or the user logs out: the model goes, the queue stays.
Kill(d) ==
    /\ Running(d)
    /\ model' = [model EXCEPT ![d] = NoModel]
    /\ filtering' = [filtering EXCEPT ![d] = FALSE]
    /\ edited' = [edited EXCEPT ![d] = {}]
    /\ fresh' = [fresh EXCEPT ![d] = FALSE]
    /\ UNCHANGED <<doc, queue, saves, wanted, conflict>>

\* The server applies the oldest write of d.
Deliver(d) ==
    /\ queue[d] # << >>
    /\ doc' = Head(queue[d])
    /\ queue' = [queue EXCEPT ![d] = Tail(@)]
    /\ UNCHANGED <<model, filtering, saves, edited, wanted, fresh, conflict>>

Next == \E d \in Devices :
    \/ GetCurrentUser(d) \/ OpenFilters(d)
    \/ \E f \in Loud \cup Unread, v \in Values \cup {Null} : SetField(d, f, v)
    \/ \E v \in Values \cup {Null} : SetAbout(d, v) \/ SetMaxDistance(d, v)
    \/ BackFromFilters(d) \/ Back(d) \/ Kill(d) \/ Deliver(d)

Spec == Init /\ [][Next]_vars

-----------------------------------------------------------------------------
Settled == \A d \in Devices : queue[d] = << >>

(***************************************************************************)
(* SavedEditsKept: when everything is delivered, the document holds the    *)
(* last saved edit of every field, from whichever device it came: a save   *)
(* of the whole document takes nothing back.  It does if a device saves    *)
(* without having read another's save (conflict), and fields that are not  *)
(* read back may be erased by it at any time (user_model.dart:116).        *)
(***************************************************************************)
SavedEditsKept == Settled /\ ~conflict => \A f \in Fields :
    \/ doc[f] = wanted[f]
    \/ f \in Unread /\ doc[f] = Null

(***************************************************************************)
(* ModelIsStored: while no other device saves, what a device shows is what *)
(* it has stored, but for the text about the user and the distance, which  *)
(* wait for another edit or the filters' back button, and for fields that  *)
(* it has not read back: those it shows as empty.                          *)
(***************************************************************************)
ModelIsStored == \A d \in Devices : fresh[d] => \A f \in Fields :
    \/ model[d][f] = Stored(d)[f]
    \/ f \in Quiet /\ f \in edited[d]
    \/ f \in Unread /\ model[d][f] = Null

=============================================================================
