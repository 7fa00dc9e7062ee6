------------------------------ MODULE Session ------------------------------
(***************************************************************************)
(* Who is signed in on one phone, what the app shows, and which profile    *)
(* document it creates: JanApp's start-up, PageLanding, the code entry of  *)
(* PageLoginConfirm, the registration wizard, log out, and AuthProvider    *)
(* behind them.                                                            *)
(*                                                                         *)
(* Handlers that await are several actions: the page they belong to may be *)
(* popped, and other handlers may run, before they go on.  An account is a *)
(* phone number.  What verifying a number involves is in PhoneVerification;*)
(* here a code is accepted or not.                                         *)
(***************************************************************************)
EXTENDS Naturals, Sequences, FiniteSets

CONSTANTS
    Accounts,
    Forms,      \* the wizard's pages before the photo page, gender first
    NoUser,     \* no account, or no UserModel
    NoDoc,      \* users/a does not exist
    MaxReads    \* bound on profile reads under way at a time

ASSUME FormsAssumption ==
    /\ Forms \in Seq({"gender", "name", "birth", "languages", "height"})
    /\ Forms # << >>
    /\ Forms[1] = "gender"
    /\ \A i, j \in DOMAIN Forms : Forms[i] = Forms[j] => i = j

VARIABLES
    docs,       \* docs[a]: fields set in users/a as this phone sees it
    signedIn,   \* FirebaseAuth.currentUser, kept on the phone
    events,     \* authStateChanges events not yet delivered
    stack,      \* the Navigator's routes, top last
    currentUser,
    location,   \* AuthProvider.location is known
    number,     \* the account whose code is being entered
    incoming,   \* numbers whose sign-in may still arrive: the SMS may be read
                \* automatically, or the page that entered the code has gone
    reads,      \* getCurrentUser calls of PageLoginConfirm under way
    saving,     \* PageSelectPhoto awaits setUser
    stray       \* history: accounts that signed in or were read too late

phone == <<stack, currentUser, location, number, incoming, reads, saving>>
vars == <<docs, signedIn, events, phone, stray>>

Fields == {Forms[i] : i \in DOMAIN Forms} \cup {"photo"}
Screens == Fields \cup {"start", "blank", "landing", "login", "confirm", "home"}
Models == [uid : Accounts, filled : SUBSET Fields]
Reads == [uid : Accounts, seen : (SUBSET Fields) \cup {NoDoc}, live : BOOLEAN]

ASSUME NoneAssumption ==
    /\ NoUser \notin Accounts /\ NoUser \notin Models
    /\ \A fields \in SUBSET Fields : fields # NoDoc

TypeOK ==
    /\ docs \in [Accounts -> (SUBSET Fields) \cup {NoDoc}]
    /\ signedIn \in Accounts \cup {NoUser}
    /\ events \in Seq(Accounts \cup {NoUser})
    /\ stack \in Seq(Screens) /\ stack # << >>
    /\ currentUser \in Models \cup {NoUser}
    /\ location \in BOOLEAN
    /\ number \in Accounts \cup {NoUser}
    /\ incoming \subseteq Accounts
    /\ reads \subseteq Reads
    /\ saving \in BOOLEAN
    /\ stray \subseteq Accounts

Top == stack[Len(stack)]
Popped == SubSeq(stack, 1, Len(stack) - 1)
Push(screen) == stack' = Append(stack, screen)
Dead(rs) == {[r EXCEPT !.live = FALSE] : r \in rs}


Registered(doc) == doc # NoDoc
ModelNoUid(a) == [uid |-> NoUser, filled |-> {}]     \* mutant of FreshModel
FreshModel(a) == [uid |-> a, filled |-> {}]
LoadedModel(a, doc) == [uid |-> a, filled |-> doc]
HasGender(model) == Forms[1] \in model.filled
HomeAlways(model) == "home"                          \* mutant of FirstScreen
FirstScreen(model) == IF HasGender(model) THEN "home" ELSE Forms[1]

Init ==
    /\ docs = [a \in Accounts |-> NoDoc]
    /\ signedIn = NoUser
    /\ events = <<NoUser>>
    /\ stack = <<"start">>
    /\ currentUser = NoUser
    /\ location = FALSE
    /\ number = NoUser
    /\ incoming = {}
    /\ reads = {}
    /\ saving = FALSE
    /\ stray = {}

-----------------------------------------------------------------------------
(***************************************************************************)
(* Start-up.  JanApp shows nothing until getCurrentUser(_, null) answers.  *)
(* A signed-in account without a document needs AuthProvider.location, and *)
(* a process that has just started has none: the future fails and the app  *)
(* stays blank.                                                            *)
(***************************************************************************)
StartUp ==
    /\ Top = "start"
    /\ IF signedIn = NoUser
       THEN /\ stack' = <<"landing">>
            /\ UNCHANGED currentUser
       ELSE IF Registered(docs[signedIn])
       THEN /\ currentUser' = LoadedModel(signedIn, docs[signedIn])
            /\ stack' = <<FirstScreen(currentUser')>>
       ELSE IF location
       THEN /\ currentUser' = FreshModel(signedIn)
            /\ stack' = <<FirstScreen(currentUser')>>
       ELSE /\ stack' = <<"blank">>
            /\ UNCHANGED currentUser
    /\ UNCHANGED <<docs, signedIn, events, location, number, incoming, reads,
                   saving, stray>>

\* onAuthStateChanged: the listener makes a model when there is none, and
\* throws, changing nothing, when it has no location to put in it.
AuthEvent ==
    /\ events # << >>
    /\ events' = Tail(events)
    /\ LET u == Head(events)
       IN  currentUser' = IF u # NoUser /\ currentUser = NoUser /\ location
                          THEN FreshModel(u) ELSE currentUser
    /\ UNCHANGED <<docs, signedIn, stack, location, number, incoming, reads,
                   saving, stray>>

\* Answers of the platform come in the order they were sent, events included.
Delivered == events = << >>

\* PageLanding.onLoginRedirect: a position within 15 seconds, or none.
LoginRedirect ==
    /\ Top = "landing"
    /\ Delivered
    /\ location' \in {location, TRUE}
    /\ Push("login")
    /\ UNCHANGED <<docs, signedIn, events, currentUser, number, incoming, reads,
                   saving, stray>>

-----------------------------------------------------------------------------
\* PageLogin.onLogin up to smsOTPSent, which opens PageLoginConfirm.
CodeSent(a) ==
    /\ Top = "login"
    /\ Delivered
    /\ number' = a
    /\ incoming' = incoming \cup {a}
    /\ Push("confirm")
    /\ UNCHANGED <<docs, signedIn, events, currentUser, location, reads,
                   saving, stray>>

SignIn(a) ==
    /\ signedIn' = a
    /\ events' = IF signedIn = a THEN events ELSE Append(events, a)

(***************************************************************************)
(* A sign-in answers, wherever the user is by now, and its handler throws: *)
(* verificationCompleted on data['gender'] when there is no document, and  *)
(* else on one of two routes that Routes does not have; verifyOTP on the   *)
(* setState of a page that has gone.                                       *)
(***************************************************************************)
SignInArrives(a) ==
    /\ a \in incoming
    /\ Delivered
    /\ incoming' = incoming \ {a}
    /\ SignIn(a)
    /\ stray' = IF a = number THEN stray ELSE stray \cup {a}
    /\ UNCHANGED <<docs, stack, currentUser, location, number, reads, saving>>

SignInFails(a) ==
    /\ a \in incoming
    /\ incoming' = incoming \ {a}
    /\ UNCHANGED <<docs, signedIn, events, stack, currentUser, location,
                   number, reads, saving, stray>>

\* PageLoginConfirm.verifyOTP: signInWithCredential answers (when it throws, a
\* message is shown and nothing changes); the loader goes and getCurrentUser begins.
CodeAccepted ==
    /\ Top = "confirm"
    /\ Delivered
    /\ SignIn(number)
    /\ reads' = reads \cup {[uid |-> number, seen |-> docs[number], live |-> TRUE]}
    /\ Cardinality(reads') <= MaxReads
    /\ UNCHANGED <<docs, stack, currentUser, location, number, incoming, saving,
                   stray>>

\* When its page is gone getCurrentUser still sets currentUser; the Navigator
\* call and the setState after it throw.
Continue(r, model) ==
    /\ currentUser' = model
    /\ IF r.live
       THEN /\ stack' = Append(Popped, FirstScreen(model))
            /\ reads' = Dead(reads \ {r})
            /\ incoming' \in {incoming, incoming \cup {number}}
            /\ UNCHANGED stray
       ELSE /\ reads' = reads \ {r}
            /\ stray' = stray \cup {r.uid}
            /\ UNCHANGED <<stack, incoming>>

(***************************************************************************)
(* getCurrentUser answers with a document as it was at some time since it  *)
(* was asked for.  Without one, a model without photos is made; setUser is *)
(* then called, unawaited, and fails in toMap on the missing photos, so    *)
(* nothing is stored.  A model read from a document is stored unchanged.   *)
(***************************************************************************)
ReadDone(r) ==
    /\ Delivered
    /\ \E doc \in {r.seen, docs[r.uid]} :
          \/ /\ Registered(doc)
             /\ Continue(r, LoadedModel(r.uid, doc))
             /\ docs' = IF r.live /\ ~HasGender(currentUser')
                        THEN [docs EXCEPT ![r.uid] = doc] ELSE docs
          \/ /\ ~Registered(doc) /\ location
             /\ Continue(r, FreshModel(r.uid))
             /\ UNCHANGED docs
          \/ /\ ~Registered(doc) /\ ~location
             /\ reads' = reads \ {r}
             /\ UNCHANGED <<docs, stack, currentUser, stray, incoming>>
    /\ UNCHANGED <<signedIn, events, location, number, saving>>

\* The read itself fails: a message, or nothing if the page is gone.
ReadFails(r) ==
    /\ Delivered
    /\ reads' = reads \ {r}
    /\ UNCHANGED <<docs, signedIn, events, stack, currentUser, location,
                   number, incoming, saving, stray>>

-----------------------------------------------------------------------------
\* onSubmit of the wizard's pages: set the field, open the next page.
SubmitForm(i) ==
    /\ Top = Forms[i]
    /\ currentUser' = [currentUser EXCEPT !.filled = @ \cup {Forms[i]}]
    /\ Push(IF i < Len(Forms) THEN Forms[i + 1] ELSE "photo")
    /\ UNCHANGED <<docs, signedIn, events, location, number, incoming, reads,
                   saving, stray>>

AddPhoto ==
    /\ Top = "photo" /\ ~saving
    /\ currentUser' = [currentUser EXCEPT !.filled = @ \cup {"photo"}]
    /\ UNCHANGED <<docs, signedIn, events, stack, location, number, incoming,
                   reads, saving, stray>>

NoPhotoNeeded == TRUE                                \* mutant of HasPhoto
HasPhoto == "photo" \in currentUser.filled

\* PageSelectPhoto.onSubmit stores the whole model.  This phone sees the
\* document from now on; the await ends when the server has it.
SubmitPhoto ==
    /\ Top = "photo" /\ ~saving
    /\ HasPhoto
    /\ docs' = [docs EXCEPT ![currentUser.uid] = currentUser.filled]
    /\ saving' = TRUE
    /\ UNCHANGED <<signedIn, events, stack, currentUser, location, number,
                   incoming, reads, stray>>

SaveDone ==
    /\ saving
    /\ Delivered
    /\ saving' = FALSE
    /\ stack' = <<"home">>
    /\ UNCHANGED <<docs, signedIn, events, currentUser, location, number,
                   incoming, reads, stray>>

(***************************************************************************)
(* Back: pop the top route, and with it the right of its handlers to go *)
(* on; the gender page at the bottom of the stack is replaced by landing.  *)
(***************************************************************************)
ReadsLive == reads                                   \* mutant of ReadsLeft
ReadsLeft == IF Top = "confirm" THEN Dead(reads) ELSE reads

Back ==
    /\ \/ Len(stack) > 1 /\ stack' = Popped
       \/ stack = <<Forms[1]>> /\ stack' = <<"landing">>
    /\ reads' = ReadsLeft
    /\ incoming' \in {incoming} \cup
          (IF Top = "confirm" THEN {incoming \cup {number}} ELSE {})
    /\ saving' = FALSE
    /\ UNCHANGED <<docs, signedIn, events, currentUser, location, number, stray>>

-----------------------------------------------------------------------------
KeepsLocation == location                            \* mutant of LocationLeft
LocationLeft == FALSE

\* PageProfile's log out button, AuthProvider.signOut.
SignOut ==
    /\ Top = "home"
    /\ signedIn' = NoUser
    /\ events' = IF signedIn = NoUser THEN events ELSE Append(events, NoUser)
    /\ currentUser' = NoUser
    /\ location' = LocationLeft
    /\ stack' = <<"landing">>
    /\ UNCHANGED <<docs, number, incoming, reads, saving, stray>>

\* The app is ended and opened again.
Restart ==
    /\ Top # "start"
    /\ events' = <<signedIn>>
    /\ stack' = <<"start">>
    /\ currentUser' = NoUser
    /\ location' = FALSE
    /\ number' = NoUser
    /\ incoming' = {}
    /\ reads' = {}
    /\ saving' = FALSE
    /\ UNCHANGED <<docs, signedIn, stray>>

Next ==
    \/ StartUp \/ AuthEvent \/ LoginRedirect
    \/ \E a \in Accounts : CodeSent(a) \/ SignInArrives(a) \/ SignInFails(a)
    \/ CodeAccepted
    \/ \E r \in reads : ReadDone(r) \/ ReadFails(r)
    \/ \E i \in DOMAIN Forms : SubmitForm(i)
    \/ AddPhoto \/ SubmitPhoto \/ SaveDone
    \/ Back \/ SignOut \/ Restart

Spec == Init /\ [][Next]_vars

\* What Firebase and the event loop answer without anyone touching the phone.
Answer ==
    \/ StartUp \/ AuthEvent \/ SaveDone
    \/ \E r \in reads : ReadDone(r) \/ ReadFails(r)

FairSpec == Spec /\ WF_vars(Answer)

-----------------------------------------------------------------------------
(***************************************************************************)
(* OwnProfile: the model that the wizard fills and Home uses (it is read   *)
(* there without a null check) exists and is that of the account Firebase  *)
(* has signed in, unless a sign-in or a profile read came after its page   *)
(* had gone (getCurrentUser, verificationCompleted).                       *)
(***************************************************************************)
OwnProfile ==
    Top \in Fields \cup {"home"} =>
        /\ currentUser # NoUser
        /\ currentUser.uid = signedIn \/ stray # {}

(***************************************************************************)
(* HomeRegistered: Home shows only an account whose document exists: the   *)
(* wizard cannot be left for Home before setUser has stored the profile.   *)
(***************************************************************************)
HomeRegistered ==
    Top = "home" => Registered(docs[currentUser.uid]) \/ stray # {}

(***************************************************************************)
(* CompleteProfiles: a stored document has every field the wizard asks     *)
(* for, though setUser is also called right after the sign-in and the      *)
(* pages may be left and entered again, unless the account's model was     *)
(* replaced by a late read.                                                *)
(***************************************************************************)
CompleteProfiles ==
    \A a \in Accounts \ stray : docs[a] \in {NoDoc, Fields}

(***************************************************************************)
(* SignedOutForgotten: nobody's model is left, or comes back, once the     *)
(* account is signed out: a sign-in event delivered after signOut finds no *)
(* location and makes no model (signOut, onAuthStateChanged).              *)
(***************************************************************************)
SignedOutForgotten ==
    signedIn = NoUser => currentUser = NoUser \/ currentUser.uid \in stray

(***************************************************************************)
(* CheckingEnds: "Checking user is logged or not, the Splash Screen will   *)
(* be shown" (auth_provider.dart): the check at start-up comes to an end   *)
(* and the app shows one of its screens.                                   *)
(***************************************************************************)
CheckingEnds == Top = "start" ~> Top \notin {"start", "blank"}

=============================================================================
