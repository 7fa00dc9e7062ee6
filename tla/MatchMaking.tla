---------------------------- MODULE MatchMaking ----------------------------
(***************************************************************************)
(* Likes and matches: FirestoreDatabase.chooseUser, selectUser, deleteUser,*)
(* passUser and getUser (services/firestore_database.dart), run by any     *)
(* number of app processes against one Firestore database.                 *)
(*                                                                         *)
(* The database keeps three lists per user u as sub-collections of         *)
(* users/u.  A list is the set of pairs <<u, v>> such that the document    *)
(* users/u/<list>/v exists:                                                *)
(*   checkedList   u has already decided about v                           *)
(*   selectedList  v likes u                                               *)
(*   matchedList   u and v are a match, as u sees it                       *)
(*                                                                         *)
(* A call is one running app process of user cur working on user sel.      *)
(* Firestore's client queues a process's writes on disk and sends them in  *)
(* order; an await on a write ends when the server has acknowledged it.    *)
(* The queue outlives the process: Kill drops the code that awaited, not   *)
(* the writes already issued.                                              *)
(***************************************************************************)
EXTENDS Naturals, Sequences

CONSTANTS
    Users,      \* the user ids
    Calls,      \* app processes, each running one call at a time
    NoUser      \* getUser's empty UserModel

ASSUME NoUserAssumption == NoUser \notin Users

VARIABLES
    checkedList, selectedList, matchedList,
    cache,      \* the part of selectedList that the owners' phones hold
    call,       \* what each process is executing
    queue,      \* its writes not yet applied by the server
    chosen,     \* history: <<a, b>> once a called chooseUser on b
    liked,      \* history: <<a, b>> once a like of a for b was acknowledged
    notified,   \* history: <<a, b>> once a was shown the match with b
    torn        \* history: <<a, b>> if a's process died before mirroring

lists == <<checkedList, selectedList, matchedList>>
history == <<chosen, liked, notified, torn>>
vars == <<lists, cache, call, queue, history>>

Pairs == Users \X Users
Rev(p) == <<p[2], p[1]>>

(***************************************************************************)
(* The writes of the methods: set({}) in checkedList, set in selectedList, *)
(* delete in selectedList, set in matchedList.                             *)
(***************************************************************************)
Kinds == {"check", "like", "unselect", "match"}
Writes == [kind : Kinds, doc : Pairs]
CheckSwapped(u, v) == [kind |-> "check", doc |-> <<v, u>>]    \* mutant of Check
Check(u, v) == [kind |-> "check", doc |-> <<u, v>>]
LikeInMatched(u, v) == [kind |-> "match", doc |-> <<v, u>>]   \* mutant of Like
Like(u, v) == [kind |-> "like", doc |-> <<v, u>>]
Unselect(u, v) == [kind |-> "unselect", doc |-> <<u, v>>]
Match(u, v) == [kind |-> "match", doc |-> <<u, v>>]

\* What selectUser issues before its first await, and after it.
SelectDeletesOnly(u, v) == <<Unselect(u, v)>>       \* mutant of SelectWrites
SelectWrites(u, v) == <<Unselect(u, v), Match(u, v)>>
MirrorUnswapped(u, v) == <<Match(u, v)>>            \* mutant of MirrorWrites
MirrorWrites(u, v) == <<Match(v, u)>>

PCs == {"idle",      \* no call running
        "read",      \* chooseUser awaits selectedList.get()
        "check",     \* chooseUser awaits checkedList.set()
        "like",      \* chooseUser awaits selectedList.set()
        "match",     \* selectUser awaits its own matchedList.set()
        "mirror",    \* selectUser awaits the other matchedList.set()
        "pass",      \* passUser awaits checkedList.set()
        "list"}      \* getUser awaits checkedList.get()

NoCall == [pc |-> "idle", cur |-> NoUser, sel |-> NoUser,
           tile |-> FALSE, offer |-> NoUser]

Queued(c, w) == \E i \in DOMAIN queue[c] : queue[c][i] = w
Pending(w) == \E c \in Calls : Queued(c, w)
Decision(c) == <<call[c].cur, call[c].sel>>
Acked(c) == queue[c] = << >>

TypeOK ==
    /\ checkedList \subseteq Pairs
    /\ selectedList \subseteq Pairs
    /\ matchedList \subseteq Pairs
    /\ cache \subseteq Pairs
    /\ call \in [Calls -> [pc : PCs, cur : Users \cup {NoUser},
                           sel : Users \cup {NoUser}, tile : BOOLEAN,
                           offer : Users \cup {NoUser}]]
    /\ \A c \in Calls : call[c].pc # "idle" => Decision(c) \in Pairs
    /\ queue \in [Calls -> Seq(Writes)]
    /\ chosen \subseteq Pairs
    /\ liked \subseteq Pairs
    /\ notified \subseteq Pairs
    /\ torn \subseteq Pairs

Init ==
    /\ checkedList = {} /\ selectedList = {} /\ matchedList = {}
    /\ cache = {}
    /\ call = [c \in Calls |-> NoCall]
    /\ queue = [c \in Calls |-> << >>]
    /\ chosen = {} /\ liked = {} /\ notified = {} /\ torn = {}

-----------------------------------------------------------------------------
Begin(c, pc, u, v) ==
    /\ call[c].pc = "idle"
    /\ Acked(c)
    /\ u # v
    /\ call' = [call EXCEPT ![c] =
                  [pc |-> pc, cur |-> u, sel |-> v,
                   tile |-> pc = "read" /\ <<u, v>> \in cache,
                   offer |-> NoUser]]

Goto(c, pc) == call' = [call EXCEPT ![c].pc = pc]
FinishKeepsPc(c) ==                                 \* mutant of Finish
    call' = [call EXCEPT ![c] = [NoCall EXCEPT !.pc = call[c].pc]]
Finish(c) == call' = [call EXCEPT ![c] = NoCall]
Issue(c, ws) == queue' = [queue EXCEPT ![c] = @ \o ws]

(***************************************************************************)
(* chooseUser.  tile is history: the page of cur's likers was showing sel  *)
(* when the call began (the stream of likers feeds the page and cache).    *)
(***************************************************************************)
ChooseUser(c, u, v) ==
    /\ Begin(c, "read", u, v)
    /\ chosen' = chosen \cup {<<u, v>>}
    /\ UNCHANGED <<lists, cache, queue, liked, notified, torn>>

FindsAnyone(c) == TRUE                              \* mutant of FindsLike
FindsLike(c) == Decision(c) \in selectedList \/ Decision(c) \in cache
MissesAnyone(c) == TRUE                             \* mutant of MissesLike
MissesLike(c) == Decision(c) \notin selectedList \/ Decision(c) \notin cache

(***************************************************************************)
(* selectedList.get() answers from the server, or from cache when offline. *)
(* Here it finds sel among those who like cur.  selectUser runs up to its *)
(* first await: the delete and the first set leave together, unawaited by  *)
(* chooseUser, which returns true; the page announces the match.           *)
(***************************************************************************)
SelectUser(c) ==
    LET u == call[c].cur
        v == call[c].sel
    IN  /\ call[c].pc = "read"
        /\ FindsLike(c)
        /\ Issue(c, SelectWrites(u, v))
        /\ Goto(c, "match")
        /\ notified' = notified \cup {<<u, v>>}
        /\ UNCHANGED <<lists, cache, chosen, liked, torn>>

MirrorMatch(c) ==
    /\ call[c].pc = "match"
    /\ Acked(c)
    /\ Issue(c, MirrorWrites(call[c].cur, call[c].sel))
    /\ Goto(c, "mirror")
    /\ UNCHANGED <<lists, cache, history>>

MatchDone(c) ==
    /\ call[c].pc = "mirror"
    /\ Acked(c)
    /\ Finish(c)
    /\ UNCHANGED <<lists, cache, queue, history>>

\* The read does not find sel: the like is recorded, one awaited set at a time.
CheckUser(c) ==
    /\ call[c].pc = "read"
    /\ MissesLike(c)
    /\ Issue(c, <<Check(call[c].cur, call[c].sel)>>)
    /\ Goto(c, "check")
    /\ UNCHANGED <<lists, cache, history>>

LikeUser(c) ==
    /\ call[c].pc = "check"
    /\ Acked(c)
    /\ Issue(c, <<Like(call[c].cur, call[c].sel)>>)
    /\ Goto(c, "like")
    /\ UNCHANGED <<lists, cache, history>>

LikeDone(c) ==
    /\ call[c].pc = "like"
    /\ Acked(c)
    /\ Finish(c)
    /\ liked' = liked \cup {Decision(c)}
    /\ UNCHANGED <<lists, cache, queue, chosen, notified, torn>>

-----------------------------------------------------------------------------
\* passUser, then getUser: the first user, in an order the server picks, that
\* is neither cur nor in the checkedList just read, or the empty UserModel.
PassUser(c, u, v) ==
    /\ Begin(c, "pass", u, v)
    /\ Issue(c, <<Check(u, v)>>)
    /\ UNCHANGED <<lists, cache, history>>

PassDone(c) ==
    /\ call[c].pc = "pass"
    /\ Acked(c)
    /\ Goto(c, "list")
    /\ UNCHANGED <<lists, cache, queue, history>>

Unchecked(u) == {v \in Users \ {u} : <<u, v>> \notin checkedList}

GetUser(c) ==
    LET u == call[c].cur
    IN  /\ call[c].pc = "list"
        /\ \E w \in IF Unchecked(u) = {} THEN {NoUser} ELSE Unchecked(u) :
              call' = [call EXCEPT ![c].pc = "idle", ![c].offer = w]
        /\ UNCHANGED <<lists, cache, queue, history>>

-----------------------------------------------------------------------------
\* Firestore applies the oldest queued write of a process.
Apply(c) ==
    /\ ~Acked(c)
    /\ LET w == Head(queue[c])
           Set(kind, list) == IF w.kind = kind THEN list \cup {w.doc} ELSE list
       IN  /\ checkedList' = Set("check", checkedList)
           /\ matchedList' = Set("match", matchedList)
           /\ selectedList' = IF w.kind = "unselect" THEN selectedList \ {w.doc}
                              ELSE Set("like", selectedList)
    /\ queue' = [queue EXCEPT ![c] = Tail(@)]
    /\ UNCHANGED <<cache, call, history>>

\* The operating system or the user ends the app.
Kill(c) ==
    /\ call[c].pc # "idle"
    /\ Finish(c)
    /\ torn' = IF call[c].pc = "match"
               THEN torn \cup {Decision(c)} ELSE torn
    /\ UNCHANGED <<lists, cache, queue, chosen, liked, notified>>

\* A phone of u receives the present content of u's selectedList.
Refresh(u) ==
    /\ cache' = {p \in cache \cup selectedList :
                   p \in (IF p[1] = u THEN selectedList ELSE cache)}
    /\ UNCHANGED <<lists, call, queue, history>>

-----------------------------------------------------------------------------
\* The steps the running code and Firestore take by themselves.
Continue(c) ==
    \/ SelectUser(c) \/ MirrorMatch(c) \/ MatchDone(c)
    \/ CheckUser(c) \/ LikeUser(c) \/ LikeDone(c)
    \/ PassDone(c) \/ GetUser(c) \/ Apply(c)

Next ==
    \/ \E c \in Calls : Continue(c) \/ Kill(c)
    \/ \E c \in Calls, u, v \in Users : ChooseUser(c, u, v) \/ PassUser(c, u, v)
    \/ \E u \in Users : Refresh(u)

Spec == Init /\ [][Next]_vars

(***************************************************************************)
(* A process that is not killed goes on, and a phone that issued a write   *)
(* is online again at some time.                                           *)
(***************************************************************************)
FairSpec == Spec /\ \A c \in Calls : WF_vars(Continue(c))

-----------------------------------------------------------------------------
(***************************************************************************)
(* Consent: a match in anyone's matchedList, and a match anyone is told    *)
(* of, is between two users who each called chooseUser on the other,       *)
(* whatever the interleaving of the calls, stale reads and dead processes  *)
(* (chooseUser, selectUser).                                               *)
(***************************************************************************)
Mutual(p) == p \in chosen /\ Rev(p) \in chosen
Consent == \A p \in matchedList \cup notified : Mutual(p)

(***************************************************************************)
(* LikeImpliesChecked: who likes v is recorded as having decided about v,  *)
(* so that getUser cannot offer a liked user again: chooseUser awaits the  *)
(* checkedList write before it issues the selectedList write.              *)
(***************************************************************************)
LikeImpliesChecked ==
    \A p \in selectedList \cup cache : Rev(p) \in checkedList

(***************************************************************************)
(* LikeKept: a like that was acknowledged stays in the other user's        *)
(* selectedList until a match replaces it, in the database or in a queue   *)
(* that outlives the process: selectUser issues the delete and the first   *)
(* set together.                                                           *)
(***************************************************************************)
Met(p) == p \in matchedList \/ Pending(Match(p[1], p[2]))
Kept(p) == Rev(p) \in selectedList \/ Met(Rev(p))
LikeKept == \A p \in liked : Kept(p)

(***************************************************************************)
(* TileAnswersMatch: chooseUser called from a tile of the liked-by page    *)
(* takes the branch that answers false only when the like behind the tile  *)
(* has been turned into a match by another call.                           *)
(***************************************************************************)
TileAnswersMatch ==
    \A c \in Calls :
        call[c].tile /\ call[c].pc \in {"check", "like"} => Met(Decision(c))

(***************************************************************************)
(* OneSidedExplained: a match that only one of the two users sees is about *)
(* to be mirrored by a running selectUser or a queued write, or its        *)
(* process died between the two sets.                                      *)
(***************************************************************************)
Mirrored(p) ==
    \/ Met(Rev(p))
    \/ p \in torn
    \/ \E c \in Calls : call[c].pc = "match" /\ Decision(c) = p
OneSidedExplained == \A p \in matchedList : Mirrored(p)

(***************************************************************************)
(* PassMovesOn: the user getUser offers after passUser is not the one just *)
(* passed: the checkedList read follows the acknowledged write.  It says   *)
(* something from three users on, and is proved, not run: no page calls    *)
(* passUser at present.                                                    *)
(***************************************************************************)
PassMovesOn ==
    \A c \in Calls :
        call[c].offer # NoUser => call[c].offer \notin {call[c].cur, call[c].sel}

(***************************************************************************)
(* MatchesRefined: the two writes of selectUser, queued and interrupted,   *)
(* only ever show users matches the abstract service allows.               *)
(***************************************************************************)
Service == INSTANCE Matches WITH shown <- matchedList
MatchesRefined == Service!Spec

(***************************************************************************)
(* MatchBecomesMutual: a match one user sees is eventually seen by the     *)
(* other, unless the process that recorded it died between its two sets    *)
(* (selectUser awaits the first).                                          *)
(***************************************************************************)
MatchBecomesMutual ==
    \A a, b \in Users :
        <<a, b>> \in matchedList ~> <<b, a>> \in matchedList \/ <<a, b>> \in torn

(***************************************************************************)
(* AnnouncedMatchIsSeen: a user told "This is a match!"                    *)
(* (page_liked_by_people.dart) is matched on both sides at some time.      *)
(***************************************************************************)
AnnouncedMatchIsSeen ==
    \A a, b \in Users :
        <<a, b>> \in notified ~> {<<a, b>>, <<b, a>>} \subseteq matchedList

=============================================================================
