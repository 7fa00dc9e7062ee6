------------------------------- MODULE Chat -------------------------------
(***************************************************************************)
(* One chat between two matched users, each with ChatPage open on a phone  *)
(* (ui/threads/page_chat.dart): the messages, their isRead marks, and the  *)
(* document 'blocked' by which either of the two blocks the chat.          *)
(*                                                                         *)
(* A phone's writes are queued and reach Firestore in order, some time     *)
(* later.  What its listener shows of the document 'blocked' is the        *)
(* phone's own queued write if there is one, and otherwise what Firestore  *)
(* has sent it so far.                                                     *)
(***************************************************************************)
EXTENDS Naturals, FiniteSets, SequencesExt

CONSTANTS
    Users,      \* the two users of the chat
    MaxMsgs,    \* bound on the messages sent
    MaxYes      \* bound on the block dialogs answered with Yes

ASSUME UsersAssumption == IsFiniteSet(Users) /\ Cardinality(Users) = 2
ASSUME BoundsAssumption == MaxMsgs \in Nat /\ MaxYes \in Nat

VARIABLES
    log,        \* the messages on the server, oldest first
    blocked,    \* the document 'blocked'
    queue,      \* queue[u]: writes of u's phone the server has not applied
    news,       \* news[u]: versions of 'blocked' sent to u's phone, not shown
    view,       \* view[u]: isBlocked and blockedBy of u's page
    dialog,     \* dialog[u]: what the block dialog asks
    typed,      \* typed[u]: the text field is not blank
    isWritting, \* isWritting[u]: the send button is enabled
    uploads,    \* uploads[u]: images being uploaded
    sent,       \* messages and uploads started so far
    answers,    \* block dialogs answered with Yes so far
    wants,      \* history: users whose last write of 'blocked' was a block
    raced,      \* history: somebody decided on an outdated view
    heard       \* history: heard[u]: what the server has answered to the texts of
                \* u's page since its field last changed

pages == <<view, dialog, typed, isWritting>>
vars == <<log, blocked, queue, news, pages, uploads, sent, answers, wants, raced, heard>>

BlockDocs == [on : BOOLEAN, by : SUBSET Users]
Unblocked == [on |-> FALSE, by |-> {}]  \* the page's initial isBlocked, blockedBy

\* The writes: a message is added (button: a page's send button waits for it),
\* a message is marked read, 'blocked' is set.
Msg(u, button) == [op |-> "add", from |-> u, button |-> button]
Read(i) == [op |-> "read", index |-> i]
BlockNoAuthor(on, u) == [op |-> "block", doc |-> [on |-> on]]     \* mutant of Block
Block(on, u) == [op |-> "block", doc |-> [on |-> on, by |-> {u}]]
Writes ==
    [op : {"add"}, from : Users, button : BOOLEAN]
        \cup [op : {"read"}, index : Nat]
        \cup [op : {"block"}, doc : BlockDocs]

TypeOK ==
    /\ log \in Seq([from : Users, read : BOOLEAN])
    /\ blocked \in BlockDocs
    /\ queue \in [Users -> Seq(Writes)]
    /\ news \in [Users -> Seq(BlockDocs)]
    /\ view \in [Users -> BlockDocs]
    /\ dialog \in [Users -> {"none", "block", "unblock"}]
    /\ typed \in [Users -> BOOLEAN]
    /\ isWritting \in [Users -> BOOLEAN]
    /\ uploads \in [Users -> Nat]
    /\ sent \in 0 .. MaxMsgs
    /\ answers \in 0 .. MaxYes
    /\ wants \subseteq Users
    /\ raced \in BOOLEAN
    /\ heard \in [Users -> SUBSET {"added", "refused"}]

Init ==
    /\ log = << >>
    /\ blocked = Unblocked
    /\ queue = [u \in Users |-> << >>]
    /\ news = [u \in Users |-> << >>]
    /\ view = [u \in Users |-> Unblocked]
    /\ dialog = [u \in Users |-> "none"]
    /\ typed = [u \in Users |-> FALSE]
    /\ isWritting = [u \in Users |-> FALSE]
    /\ uploads = [u \in Users |-> 0]
    /\ sent = 0
    /\ answers = 0
    /\ wants = {}
    /\ raced = FALSE
    /\ heard = [u \in Users |-> {}]

Issue(u, w) == queue' = [queue EXCEPT ![u] = Append(@, w)]
Queued(u, op) == {i \in DOMAIN queue[u] : queue[u][i].op = op}
LastBlock(u) == queue[u][Max(Queued(u, "block"))]
BlocksInFlight == {u \in Users : Queued(u, "block") # {}}

(***************************************************************************)
(* The page of u.                                                          *)
(***************************************************************************)
\* The page is left and opened again: a new state object, whose listener
\* starts with the current document.  The old page's uploads go on; the old
\* page's pending texts no longer reset any button.
Reopen(u) ==
    /\ dialog[u] = "none"
    /\ view' = [view EXCEPT ![u] = Unblocked]
    /\ news' = [news EXCEPT ![u] = IF blocked = Unblocked THEN << >> ELSE <<blocked>>]
    /\ typed' = [typed EXCEPT ![u] = FALSE]
    /\ isWritting' = [isWritting EXCEPT ![u] = FALSE]
    /\ queue' = [queue EXCEPT ![u] =
          [i \in DOMAIN @ |-> IF @[i].op = "add" THEN Msg(u, FALSE) ELSE @[i]]]
    /\ heard' = [heard EXCEPT ![u] = {}]
    /\ UNCHANGED <<log, blocked, dialog, uploads, sent, answers, wants, raced>>

ShownIfOn(u, doc) == IF doc.on THEN doc ELSE view[u]                \* mutant of Shown
\* checkblock's listener takes isBlocked and blockedBy from the document.
Shown(u, doc) == doc

CheckBlock(u) ==
    /\ \/ /\ Queued(u, "block") # {}
          /\ view' = [view EXCEPT ![u] = Shown(u, LastBlock(u).doc)]
          /\ UNCHANGED news
       \/ /\ Queued(u, "block") = {}
          /\ news[u] # << >>
          /\ view' = [view EXCEPT ![u] = Shown(u, Head(news[u]))]
          /\ news' = [news EXCEPT ![u] = Tail(@)]
    /\ UNCHANGED <<log, blocked, queue, dialog, typed, isWritting, uploads,
                   sent, answers, wants, raced, heard>>

\* The menu entry opens the dialog; its question is fixed when it is built.
OpenDialog(u) ==
    /\ dialog[u] = "none"
    /\ answers < MaxYes
    /\ dialog' = [dialog EXCEPT ![u] = IF view[u].on THEN "unblock" ELSE "block"]
    /\ UNCHANGED <<log, blocked, queue, news, view, typed, isWritting, uploads,
                   sent, answers, wants, raced, heard>>

AnswerNo(u) ==
    /\ dialog[u] # "none"
    /\ dialog' = [dialog EXCEPT ![u] = "none"]
    /\ UNCHANGED <<log, blocked, queue, news, view, typed, isWritting, uploads,
                   sent, answers, wants, raced, heard>>

MayAlways(u) == TRUE                                                \* mutant of MayAnswer
\* Who may write 'blocked': anybody when the page shows the chat unblocked,
\* and only the user the page shows as blockedBy when it is blocked.
MayAnswer(u) == view[u].on => view[u].by = {u}

\* Yes negates the isBlocked the page has by now.
AnswerYes(u) ==
    /\ dialog[u] # "none"
    /\ answers < MaxYes
    /\ dialog' = [dialog EXCEPT ![u] = "none"]
    /\ answers' = answers + 1
    /\ IF MayAnswer(u)
       THEN /\ Issue(u, Block(~view[u].on, u))
            /\ wants' = IF view[u].on THEN wants \ {u} ELSE wants \cup {u}
            /\ raced' = (raced \/ view[u] # blocked \/ BlocksInFlight # {})
       ELSE UNCHANGED <<queue, wants, raced>>      \* "You can't unblock"
    /\ UNCHANGED <<log, blocked, news, view, typed, isWritting, uploads, sent, heard>>

\* The composer is shown unless the chat is blocked, and no dialog is over it.
Composer(u) == ~view[u].on /\ dialog[u] = "none"

\* onChanged of the text field: the text becomes blank, or not.
OnChanged(u) ==
    /\ Composer(u)
    /\ \E b \in BOOLEAN :
          /\ typed' = [typed EXCEPT ![u] = b]
          /\ isWritting' = [isWritting EXCEPT ![u] = b]
    /\ heard' = [heard EXCEPT ![u] = {}]
    /\ UNCHANGED <<log, blocked, queue, news, view, dialog, uploads, sent,
                   answers, wants, raced>>

\* The send button: the field is cleared, isWritting waits for the server.
SendText(u) ==
    /\ Composer(u)
    /\ isWritting[u]
    /\ sent < MaxMsgs
    /\ typed' = [typed EXCEPT ![u] = FALSE]
    /\ Issue(u, Msg(u, TRUE))
    /\ sent' = sent + 1
    /\ UNCHANGED <<log, blocked, news, view, dialog, isWritting, uploads,
                   answers, wants, raced, heard>>

\* The camera button: an image is picked and its upload starts.
PickImage(u) ==
    /\ Composer(u)
    /\ sent < MaxMsgs
    /\ uploads' = [uploads EXCEPT ![u] = @ + 1]
    /\ sent' = sent + 1
    /\ UNCHANGED <<log, blocked, queue, news, pages, answers, wants, raced, heard>>

\* The upload ends, well (_sendImage) or not (the exception ends the callback).
UploadEnds(u) ==
    /\ uploads[u] > 0
    /\ uploads' = [uploads EXCEPT ![u] = @ - 1]
    /\ Issue(u, Msg(u, FALSE)) \/ UNCHANGED queue
    /\ UNCHANGED <<log, blocked, news, pages, sent, answers, wants, raced, heard>>

\* The newest message u has received, 0 if there is none.
Received(u) == {i \in DOMAIN log : log[i].from # u}
Newest(u) == IF Received(u) = {} THEN 0 ELSE Max(Received(u))

\* The message drawn first; the list is ordered by time, descending.
DrawnOldest(u) == IF Received(u) = {} THEN 0 ELSE Min(Received(u))  \* mutant of Drawn
Drawn(u) == Newest(u)

\* The list is built, newest message first: the first received message is
\* marked read; drawing it throws, so the older ones are not reached.
GenerateMessages(u) ==
    LET i == Drawn(u) IN
    /\ i # 0
    /\ ~log[i].read
    /\ \A n \in Queued(u, "read") : queue[u][n].index # i
    /\ Issue(u, Read(i))
    /\ UNCHANGED <<log, blocked, news, pages, uploads, sent, answers, wants, raced, heard>>

(***************************************************************************)
(* The server answers the oldest write of u's phone.                       *)
(***************************************************************************)
\* A text's acknowledgement disables the button of the page that sent it.
AckIgnored(u, w) == isWritting                                      \* mutant of Acked
Acked(u, w) == IF w.button THEN [isWritting EXCEPT ![u] = FALSE] ELSE isWritting

Hears(u, w, answer) ==
    heard' = IF w.button THEN [heard EXCEPT ![u] = @ \cup {answer}] ELSE heard

ApplyAdd(u, w) ==
    /\ w.op = "add"
    /\ log' = Append(log, [from |-> u, read |-> FALSE])
    /\ isWritting' = Acked(u, w)
    /\ Hears(u, w, "added")
    /\ UNCHANGED <<blocked, news, wants>>

\* The server refuses a message: catchError drops the error of a text, and
\* nobody waits for that of an image; the button is left as it is.
RefuseAdd(u, w) ==
    /\ w.op = "add"
    /\ Hears(u, w, "refused")
    /\ UNCHANGED <<log, blocked, news, isWritting, wants>>

ApplyRead(w) ==
    /\ w.op = "read"
    /\ log' = [log EXCEPT ![w.index].read = TRUE]
    /\ UNCHANGED <<blocked, news, isWritting, wants, heard>>

\* Every phone is sent the document; u's is sent nothing older any more.
ApplyBlock(u, w) ==
    /\ w.op = "block"
    /\ blocked' = w.doc
    /\ news' = [v \in Users |-> IF v = u THEN <<w.doc>> ELSE Append(news[v], w.doc)]
    /\ UNCHANGED <<log, isWritting, wants, heard>>

Apply(u) ==
    /\ queue[u] # << >>
    /\ queue' = [queue EXCEPT ![u] = Tail(@)]
    /\ LET w == Head(queue[u])
       IN  ApplyAdd(u, w) \/ RefuseAdd(u, w) \/ ApplyRead(w) \/ ApplyBlock(u, w)
    /\ UNCHANGED <<view, dialog, typed, uploads, sent, answers, raced>>

Next == \E u \in Users :
    \/ Reopen(u) \/ CheckBlock(u)
    \/ OpenDialog(u) \/ AnswerNo(u) \/ AnswerYes(u)
    \/ OnChanged(u) \/ SendText(u) \/ PickImage(u) \/ UploadEnds(u)
    \/ GenerateMessages(u) \/ Apply(u)

Spec == Init /\ [][Next]_vars

\* A page that is open rebuilds when its listeners report, and a phone that
\* is online delivers its writes.
Fairness == \A u \in Users :
    WF_vars(GenerateMessages(u)) /\ WF_vars(Apply(u))

FairSpec == Spec /\ Fairness

(***************************************************************************)
(* Properties.                                                             *)
(***************************************************************************)
\* Nothing about 'blocked' is on its way to or from u.
Quiet(u) == news[u] = << >> /\ Queued(u, "block") = {}
Settled == \A u \in Users : Quiet(u)

\* However blocks and unblocks of the two users overlap, and however often the
\* page is reopened, a page with nothing left to be told shows the document
\* of the server (checkblock; the queued writes that hide it are the page's own).
ViewsAgree == \A u \in Users : Quiet(u) => view[u] = blocked

\* A block its author has not taken back is gone only after somebody answered
\* a dialog on an outdated page: the blockedBy test of the Yes button is enough
\* as long as nobody races.
BlockHolds == Settled /\ ~raced => \A u \in wants : blocked.on

(***************************************************************************)
(* WritingExplained: the send button and the text field part for two       *)
(* reasons only.  The button sends a blank text while a text of this page  *)
(* waits for the server, or after the server refused one (_sendText clears *)
(* the field at once, and catchError drops the error); the button is dead  *)
(* over a text because an earlier one was added meanwhile.  No image,      *)
(* block, reopened page or text of an old page does either.                *)
(***************************************************************************)
Waits(u) == \E n \in Queued(u, "add") : queue[u][n].button
WritingExplained == \A u \in Users :
    /\ isWritting[u] => "added" \notin heard[u]
    /\ isWritting[u] /\ ~typed[u] => Waits(u) \/ "refused" \in heard[u]
    /\ ~isWritting[u] /\ typed[u] => "added" \in heard[u]

\* While both pages stay open, the newest message each user has received is
\* marked read again and again: a mark that is queued or late never blocks the
\* mark of a later message.
NewestIsRead == \A u \in Users :
    []<>(Newest(u) # 0 => log[Newest(u)].read)

\* Only who blocked the chat can unblock it ("You can't unblock",
\* page_chat.dart:441): a block whose author has not lifted it stays.
NobodyElseUnblocks == Settled => \A u \in wants : blocked.on

\* The dialog asks whether to block or to unblock (page_chat.dart:419), and Yes
\* does what it asks.
DialogHonest == [][\A u \in Users :
    Len(queue'[u]) > Len(queue[u]) /\ Last(queue'[u]).op = "block" =>
        Last(queue'[u]).doc.on = (dialog[u] = "block")]_vars

=============================================================================
