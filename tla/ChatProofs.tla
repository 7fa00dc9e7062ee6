----------------------------- MODULE ChatProofs -----------------------------
(***************************************************************************)
(* Proofs about Chat for any bounds on messages and answers.  That the     *)
(* chat has two users is never needed: what is proved of the document      *)
(* 'blocked' holds of a chat of any number of users.                       *)
(***************************************************************************)
EXTENDS Chat, SequenceLemmas, SequenceTheorems, TLAPS

LEMMA WriteForms ==
    \A w \in Writes :
        \/ w.op = "add" /\ w.from \in Users /\ w.button \in BOOLEAN
        \/ w.op = "read" /\ w.index \in Nat
        \/ w.op = "block" /\ w.doc \in BlockDocs
BY DEF Writes

LEMMA WriteTypes ==
    ASSUME NEW u \in Users
    PROVE  /\ \A b \in BOOLEAN : Msg(u, b) \in Writes /\ Block(b, u) \in Writes
           /\ \A b \in BOOLEAN : Msg(u, b).op = "add" /\ Msg(u, b).button = b
           /\ \A b \in BOOLEAN : /\ Block(b, u).op = "block"
                                 /\ Block(b, u).doc = [on |-> b, by |-> {u}]
           /\ \A i \in Nat : /\ Read(i) \in Writes /\ Read(i).op = "read"
                             /\ Read(i).index = i
BY DEF Msg, Block, Read, Writes, BlockDocs

-----------------------------------------------------------------------------
(* The queue of a phone.                                                   *)

LEMMA Issued ==
    ASSUME TypeOK, NEW u \in Users, NEW w \in Writes, Issue(u, w)
    PROVE  /\ queue' \in [Users -> Seq(Writes)]
           /\ \A v \in Users : v # u => queue'[v] = queue[v]
           /\ DOMAIN queue'[u] = 1 .. Len(queue[u]) + 1
           /\ Len(queue[u]) \in Nat /\ DOMAIN queue[u] = 1 .. Len(queue[u])
           /\ \A n \in DOMAIN queue[u] : queue'[u][n] = queue[u][n]
           /\ queue'[u][Len(queue[u]) + 1] = w
<1>1. queue[u] \in Seq(Writes) /\ queue' = [queue EXCEPT ![u] = Append(queue[u], w)]
  BY DEF TypeOK, Issue
<1>2. queue'[u] = Append(queue[u], w) /\ queue' \in [Users -> Seq(Writes)]
      /\ \A v \in Users : v # u => queue'[v] = queue[v]
  BY <1>1, AppendFacts DEF TypeOK
<1>. QED  BY <1>1, <1>2, AppendFacts, SeqFacts

\* Which writes of a kind are queued after one more.
LEMMA QueuedIssued ==
    ASSUME TypeOK, NEW u \in Users, NEW w \in Writes, Issue(u, w), NEW op
    PROVE  /\ \A v \in Users : v # u => Queued(v, op)' = Queued(v, op)
           /\ Queued(u, op) \subseteq Queued(u, op)'
           /\ \A n \in Queued(u, op)' :
                 \/ n \in Queued(u, op) /\ queue'[u][n] = queue[u][n]
                 \/ queue'[u][n] = w /\ w.op = op
           /\ w.op = op => \E n \in Queued(u, op)' : queue'[u][n] = w
<1>1. /\ \A v \in Users : v # u => queue'[v] = queue[v]
      /\ DOMAIN queue'[u] = 1 .. Len(queue[u]) + 1
      /\ Len(queue[u]) \in Nat /\ DOMAIN queue[u] = 1 .. Len(queue[u])
      /\ \A n \in DOMAIN queue[u] : queue'[u][n] = queue[u][n]
      /\ queue'[u][Len(queue[u]) + 1] = w
  BY Issued
<1>2. \A n \in DOMAIN queue'[u] : n \in DOMAIN queue[u] \/ n = Len(queue[u]) + 1
  BY <1>1
<1>3. DOMAIN queue[u] \subseteq DOMAIN queue'[u] /\ Len(queue[u]) + 1 \in DOMAIN queue'[u]
  BY <1>1
<1>. QED  BY <1>1, <1>2, <1>3 DEF Queued

\* The oldest write leaves the queue; the others move up.
LEMMA Applied ==
    ASSUME TypeOK, NEW u \in Users, Apply(u)
    PROVE  /\ queue' \in [Users -> Seq(Writes)]
           /\ Head(queue[u]) \in Writes /\ Head(queue[u]) = queue[u][1]
           /\ 1 \in DOMAIN queue[u]
           /\ \A v \in Users : v # u => queue'[v] = queue[v]
           /\ \A n \in DOMAIN queue'[u] :
                 n + 1 \in DOMAIN queue[u] /\ queue'[u][n] = queue[u][n + 1]
           /\ \A n \in DOMAIN queue[u] : n # 1 =>
                 /\ n - 1 \in DOMAIN queue'[u]
                 /\ queue'[u][n - 1] = queue[u][n]
<1>1. /\ queue[u] \in Seq(Writes) /\ queue[u] # << >>
      /\ queue' = [queue EXCEPT ![u] = Tail(queue[u])]
  BY DEF TypeOK, Apply
<1>2. /\ queue'[u] = Tail(queue[u]) /\ queue' \in [Users -> Seq(Writes)]
      /\ \A v \in Users : v # u => queue'[v] = queue[v]
  BY <1>1, TailFacts DEF TypeOK
<1>3. /\ Len(queue[u]) \in Nat \ {0} /\ DOMAIN queue[u] = 1 .. Len(queue[u])
      /\ DOMAIN queue'[u] = 1 .. Len(queue[u]) - 1
      /\ \A i \in 1 .. Len(queue[u]) - 1 : queue'[u][i] = queue[u][i + 1]
  BY <1>1, <1>2, TailFacts, SeqFacts
<1>4. \A n \in DOMAIN queue'[u] :
          n + 1 \in DOMAIN queue[u] /\ queue'[u][n] = queue[u][n + 1]
  BY <1>3
<1>5. ASSUME NEW n \in DOMAIN queue[u], n # 1
      PROVE  n - 1 \in DOMAIN queue'[u] /\ queue'[u][n - 1] = queue[u][n]
  <2>1. n - 1 \in 1 .. Len(queue[u]) - 1 /\ (n - 1) + 1 = n
    BY <1>3, <1>5
  <2>. QED  BY <1>3, <2>1
<1>. QED  BY <1>1, <1>2, <1>4, <1>5, TailFacts

LEMMA QueuedApplied ==
    ASSUME TypeOK, NEW u \in Users, Apply(u), NEW op
    PROVE  /\ \A v \in Users : v # u => Queued(v, op)' = Queued(v, op)
           /\ \A n \in Queued(u, op)' :
                 n + 1 \in Queued(u, op) /\ queue'[u][n] = queue[u][n + 1]
           /\ \A n \in Queued(u, op) :
                 \/ n = 1 /\ Head(queue[u]).op = op
                 \/ n - 1 \in Queued(u, op)' /\ queue'[u][n - 1] = queue[u][n]
BY Applied DEF Queued

\* A page that is opened again changes no write but the texts of the old page.
LEMMA Reopened ==
    ASSUME TypeOK, NEW u \in Users, Reopen(u)
    PROVE  /\ queue' \in [Users -> Seq(Writes)]
           /\ \A v \in Users : v # u => queue'[v] = queue[v]
           /\ DOMAIN queue'[u] = DOMAIN queue[u]
           /\ \A n \in DOMAIN queue[u] :
                 IF queue[u][n].op = "add" THEN queue'[u][n] = Msg(u, FALSE)
                                           ELSE queue'[u][n] = queue[u][n]
           /\ \A v \in Users : \A op : Queued(v, op)' = Queued(v, op)
<1> DEFINE q == queue[u]
           r == [i \in DOMAIN q |-> IF q[i].op = "add" THEN Msg(u, FALSE) ELSE q[i]]
<1>1. q \in Seq(Writes) /\ Len(q) \in Nat /\ DOMAIN q = 1 .. Len(q)
      /\ \A i \in DOMAIN q : q[i] \in Writes
  BY SeqFacts DEF TypeOK
<1>2. Msg(u, FALSE) \in Writes /\ Msg(u, FALSE).op = "add"
  <2>1. \A b \in BOOLEAN : Msg(u, b) \in Writes /\ Msg(u, b).op = "add"
    BY WriteTypes
  <2>2. FALSE \in BOOLEAN
    OBVIOUS
  <2>. QED  BY <2>1, <2>2, Zenon
<1>3. r \in Seq(Writes)
  <2> DEFINE m == Msg(u, FALSE)
  <2>1. m \in Writes
    BY <1>2
  <2>. HIDE DEF m
  <2>2. [i \in DOMAIN q |-> IF q[i].op = "add" THEN m ELSE q[i]] \in [1 .. Len(q) -> Writes]
    BY <1>1, <2>1
  <2>3. [i \in DOMAIN q |-> IF q[i].op = "add" THEN m ELSE q[i]] \in Seq(Writes)
    BY <1>1, <2>2, SeqDef
  <2>. QED  BY <2>3, Zenon DEF m
<1>4. queue' = [queue EXCEPT ![u] = r]
  BY DEF Reopen
<1>5. /\ queue' \in [Users -> Seq(Writes)] /\ queue'[u] = r
      /\ \A v \in Users : v # u => queue'[v] = queue[v]
  BY <1>3, <1>4 DEF TypeOK
<1>6. /\ DOMAIN queue'[u] = DOMAIN q
      /\ \A n \in DOMAIN q :
            IF q[n].op = "add" THEN queue'[u][n] = Msg(u, FALSE)
                               ELSE queue'[u][n] = q[n]
  BY <1>5
<1>7. \A n \in DOMAIN q : queue'[u][n].op = q[n].op
  BY <1>2, <1>6
<1>. HIDE DEF r
<1>8. ASSUME NEW v \in Users, NEW op  PROVE Queued(v, op)' = Queued(v, op)
  <2>1. CASE v = u
    BY <1>6, <1>7, <2>1 DEF Queued
  <2>2. CASE v # u
    BY <1>5, <2>2 DEF Queued
  <2>. QED  BY <2>1, <2>2
<1>. QED  BY <1>5, <1>6, <1>8

-----------------------------------------------------------------------------
(***************************************************************************)
(* The inductive invariant.                                                *)
(***************************************************************************)
\* A queued mark is one of a message that is on the server.
ReadsOnLog ==
    \A u \in Users : \A n \in Queued(u, "read") : queue[u][n].index \in DOMAIN log

\* The last version on its way to a phone is the server's, and a phone with no
\* version or block under way shows it.
Told ==
    \A u \in Users :
        /\ news[u] # << >> => Last(news[u]) = blocked
        /\ Quiet(u) => view[u] = blocked

\* While nobody races there is one block under way at most, and the document
\* that it writes, or that is there, covers everybody who wants the block.
Covers(doc) == wants = {} \/ (doc.on /\ wants \subseteq doc.by)
Ruled ==
    ~raced =>
        /\ \A u, v \in Users : \A m \in Queued(u, "block"), n \in Queued(v, "block") :
              u = v /\ m = n
        /\ \A u \in Users : \A n \in Queued(u, "block") : Covers(queue[u][n].doc)
        /\ BlocksInFlight = {} => Covers(blocked)

ChatInv == TypeOK /\ ReadsOnLog /\ Told /\ WritingExplained /\ Ruled

LEMMA ChatInit == Init => ChatInv
<1>. SUFFICES ASSUME Init  PROVE ChatInv
  OBVIOUS
<1>1. MaxMsgs \in Nat /\ MaxYes \in Nat
  BY BoundsAssumption
<1>2. /\ Unblocked \in BlockDocs
      /\ \A S : << >> \in Seq(S)
  BY DEF Unblocked, BlockDocs
<1>3. /\ typed \in [Users -> BOOLEAN] /\ isWritting \in [Users -> BOOLEAN]
      /\ raced \in BOOLEAN /\ \A u \in Users : ~isWritting[u] /\ ~typed[u]
  BY Zenon DEF Init
<1>4. TypeOK
  BY <1>1, <1>2, <1>3 DEF Init, TypeOK
<1>5. \A u \in Users : \A op : Queued(u, op) = {}
  BY DEF Init, Queued
<1>6. ReadsOnLog
  BY <1>5 DEF ReadsOnLog
<1>9. WritingExplained
  BY <1>3 DEF Init, WritingExplained
<1>7. Told
  BY DEF Init, Told
<1>8. Ruled
  BY <1>5 DEF Init, Ruled, Covers
<1>. QED  BY <1>4, <1>6, <1>7, <1>8, <1>9 DEF ChatInv

\* The newest received message, if any, is on the server.
LEMMA NewestOnLog ==
    ASSUME TypeOK, NEW u \in Users, Drawn(u) # 0
    PROVE  Drawn(u) \in DOMAIN log /\ Drawn(u) \in Nat
<1>1. Len(log) \in Nat /\ DOMAIN log = 1 .. Len(log)
  BY SeqFacts DEF TypeOK
<1>2. Received(u) \in SUBSET (0 .. Len(log)) /\ Received(u) # {}
      /\ Drawn(u) = Max(Received(u))
  BY <1>1 DEF Drawn, Newest, Received
<1>3. Drawn(u) \in Received(u)
  BY <1>1, <1>2, LargestExists
<1>. QED  BY <1>1, <1>3 DEF Received

LEMMA LastBlockTyped ==
    ASSUME TypeOK, NEW u \in Users, Queued(u, "block") # {}
    PROVE  LastBlock(u).doc \in BlockDocs
<1>1. queue[u] \in Seq(Writes)
  BY DEF TypeOK
<1>2. Len(queue[u]) \in Nat /\ DOMAIN queue[u] = 1 .. Len(queue[u])
      /\ \A n \in DOMAIN queue[u] : queue[u][n] \in Writes
  BY <1>1, SeqFacts
<1>3. Queued(u, "block") \in SUBSET (0 .. Len(queue[u]))
  BY <1>2 DEF Queued
<1>4. Max(Queued(u, "block")) \in Queued(u, "block")
  BY <1>2, <1>3, LargestExists
<1>5. LastBlock(u) \in Writes /\ LastBlock(u).op = "block"
  BY <1>2, <1>4 DEF LastBlock, Queued
<1>. QED  BY <1>5, WriteForms

-----------------------------------------------------------------------------
(* Types, and the marks in the queues.                                     *)

\* What the server does with the oldest write of u's phone.
LEMMA ApplyCases ==
    ASSUME TypeOK, NEW u \in Users, Apply(u)
    PROVE  LET w == Head(queue[u]) IN
           \/ w.op = "add" /\ w.button \in BOOLEAN /\ (ApplyAdd(u, w) \/ RefuseAdd(u, w))
           \/ w.op = "read" /\ w.index \in Nat /\ ApplyRead(w)
           \/ w.op = "block" /\ w.doc \in BlockDocs /\ ApplyBlock(u, w)
<1>1. Head(queue[u]) \in Writes
  BY Applied
<1>2. \/ ApplyAdd(u, Head(queue[u])) \/ RefuseAdd(u, Head(queue[u]))
      \/ ApplyRead(Head(queue[u])) \/ ApplyBlock(u, Head(queue[u]))
  BY DEF Apply
<1>. QED  BY <1>1, <1>2, WriteForms DEF ApplyAdd, RefuseAdd, ApplyRead, ApplyBlock

LEMMA TypeStep == TypeOK /\ [Next]_vars => TypeOK'
<1>. SUFFICES ASSUME TypeOK, [Next]_vars  PROVE TypeOK'
  OBVIOUS
<1>1. MaxMsgs \in Nat /\ MaxYes \in Nat
  BY BoundsAssumption
<1>2. ASSUME NEW u \in Users, NEW w \in Writes, Issue(u, w)
      PROVE  queue' \in [Users -> Seq(Writes)]
  BY <1>2, Issued
<1>3. ASSUME NEW u \in Users, Reopen(u)  PROVE TypeOK'
  <2>1. queue' \in [Users -> Seq(Writes)]
    BY <1>3, Reopened
  <2>2. Unblocked \in BlockDocs /\ << >> \in Seq(BlockDocs) /\ <<blocked>> \in Seq(BlockDocs)
    BY DEF Unblocked, BlockDocs, TypeOK
  <2>3. view' \in [Users -> BlockDocs] /\ news' \in [Users -> Seq(BlockDocs)]
    BY <1>3, <2>2 DEF Reopen, TypeOK
  <2>4. typed' \in [Users -> BOOLEAN] /\ isWritting' \in [Users -> BOOLEAN]
    BY <1>3 DEF Reopen, TypeOK
  <2>5. heard' \in [Users -> SUBSET {"added", "refused"}]
    BY <1>3 DEF Reopen, TypeOK
  <2>. QED  BY <1>3, <2>1, <2>3, <2>4, <2>5 DEF Reopen, TypeOK
<1>4. ASSUME NEW u \in Users, CheckBlock(u)  PROVE TypeOK'
  <2>1. CASE /\ Queued(u, "block") # {} /\ UNCHANGED news
             /\ view' = [view EXCEPT ![u] = LastBlock(u).doc]
    <3>1. view' \in [Users -> BlockDocs]
      BY <2>1, LastBlockTyped DEF TypeOK
    <3>. QED  BY <1>4, <2>1, <3>1 DEF CheckBlock, TypeOK
  <2>2. CASE /\ news[u] # << >>
             /\ view' = [view EXCEPT ![u] = Head(news[u])]
             /\ news' = [news EXCEPT ![u] = Tail(@)]
    <3>1. Head(news[u]) \in BlockDocs /\ Tail(news[u]) \in Seq(BlockDocs)
      BY <2>2, TailFacts DEF TypeOK
    <3>2. view' \in [Users -> BlockDocs] /\ news' \in [Users -> Seq(BlockDocs)]
      BY <2>2, <3>1 DEF TypeOK
    <3>. QED  BY <1>4, <3>2 DEF CheckBlock, TypeOK
  <2>. QED  BY <1>4, <2>1, <2>2 DEF CheckBlock, Shown
<1>5. ASSUME NEW u \in Users, OpenDialog(u)  PROVE TypeOK'
  BY <1>5 DEF OpenDialog, TypeOK
<1>6. ASSUME NEW u \in Users, AnswerNo(u)  PROVE TypeOK'
  BY <1>6 DEF AnswerNo, TypeOK
<1>7. ASSUME NEW u \in Users, AnswerYes(u)  PROVE TypeOK'
  <2>1. view[u].on \in BOOLEAN
    BY DEF TypeOK, BlockDocs
  <2>2. (~view[u].on) \in BOOLEAN
    BY <2>1
  <2>3. \A b \in BOOLEAN : Block(b, u) \in Writes
    BY WriteTypes
  <2>4. Block(~view[u].on, u) \in Writes
    BY <2>2, <2>3, Zenon
  <2>5. queue' \in [Users -> Seq(Writes)]
    BY <1>2, <1>7, <2>4 DEF AnswerYes, TypeOK
  <2>6. wants' \subseteq Users
    BY <1>7 DEF AnswerYes, TypeOK
  <2>7. raced' \in BOOLEAN
    BY <1>7, Zenon DEF AnswerYes, TypeOK
  <2>8. answers' \in 0 .. MaxYes
    BY <1>1, <1>7 DEF AnswerYes, TypeOK
  <2>9. dialog' \in [Users -> {"none", "block", "unblock"}]
    BY <1>7 DEF AnswerYes, TypeOK
  <2>. QED  BY <1>7, <2>5, <2>6, <2>7, <2>8, <2>9 DEF AnswerYes, TypeOK
<1>8. ASSUME NEW u \in Users, OnChanged(u)  PROVE TypeOK'
  BY <1>8 DEF OnChanged, TypeOK
<1>9. ASSUME NEW u \in Users, SendText(u)  PROVE TypeOK'
  <2>1. \A b \in BOOLEAN : Msg(u, b) \in Writes
    BY WriteTypes
  <2>2. Msg(u, TRUE) \in Writes
    <3>1. TRUE \in BOOLEAN
      OBVIOUS
    <3>. QED  BY <2>1, <3>1, Zenon
  <2>3. queue' \in [Users -> Seq(Writes)]
    BY <1>2, <1>9, <2>2 DEF SendText
  <2>4. typed' \in [Users -> BOOLEAN] /\ sent' \in 0 .. MaxMsgs
    BY <1>1, <1>9 DEF SendText, TypeOK
  <2>. QED  BY <1>9, <2>3, <2>4 DEF SendText, TypeOK
<1>10. ASSUME NEW u \in Users, PickImage(u)  PROVE TypeOK'
  <2>1. uploads' \in [Users -> Nat] /\ sent' \in 0 .. MaxMsgs
    BY <1>1, <1>10 DEF PickImage, TypeOK
  <2>. QED  BY <1>10, <2>1 DEF PickImage, pages, TypeOK
<1>11. ASSUME NEW u \in Users, UploadEnds(u)  PROVE TypeOK'
  <2>1. \A b \in BOOLEAN : Msg(u, b) \in Writes
    BY WriteTypes
  <2>2. Msg(u, FALSE) \in Writes
    <3>1. FALSE \in BOOLEAN
      OBVIOUS
    <3>. QED  BY <2>1, <3>1, Zenon
  <2>3. queue' \in [Users -> Seq(Writes)]
    BY <1>2, <1>11, <2>2 DEF UploadEnds, TypeOK
  <2>4. uploads' \in [Users -> Nat]
    BY <1>11 DEF UploadEnds, TypeOK
  <2>. QED  BY <1>11, <2>3, <2>4 DEF UploadEnds, pages, TypeOK
<1>12. ASSUME NEW u \in Users, GenerateMessages(u)  PROVE TypeOK'
  <2>1. Read(Drawn(u)) \in Writes
    BY <1>12, NewestOnLog, WriteTypes DEF GenerateMessages
  <2>2. queue' \in [Users -> Seq(Writes)]
    BY <1>2, <1>12, <2>1 DEF GenerateMessages
  <2>. QED  BY <1>12, <2>2 DEF GenerateMessages, pages, TypeOK
<1>13. ASSUME NEW u \in Users, Apply(u)  PROVE TypeOK'
  <2> DEFINE w == Head(queue[u])
  <2>1. queue' \in [Users -> Seq(Writes)]
        /\ UNCHANGED <<view, dialog, typed, uploads, sent, answers, raced>>
    BY <1>13, Applied DEF Apply
  <2>2. CASE ApplyAdd(u, w) /\ w.button \in BOOLEAN
    <3>1. log' \in Seq([from : Users, read : BOOLEAN])
      <4>1. [from |-> u, read |-> FALSE] \in [from : Users, read : BOOLEAN]
        OBVIOUS
      <4>2. log' = Append(log, [from |-> u, read |-> FALSE])
        BY <2>2 DEF ApplyAdd
      <4>. QED  BY <4>1, <4>2, AppendFacts DEF TypeOK
    <3>2. isWritting' \in [Users -> BOOLEAN]
      BY <2>2 DEF ApplyAdd, Acked, TypeOK
    <3>3. heard' \in [Users -> SUBSET {"added", "refused"}]
      BY <2>2 DEF ApplyAdd, Hears, TypeOK
    <3>. QED  BY <2>1, <2>2, <3>1, <3>2, <3>3 DEF ApplyAdd, TypeOK
  <2>5. CASE RefuseAdd(u, w)
    <3>1. heard' \in [Users -> SUBSET {"added", "refused"}]
      BY <2>5 DEF RefuseAdd, Hears, TypeOK
    <3>. QED  BY <2>1, <2>5, <3>1 DEF RefuseAdd, TypeOK
  <2>3. CASE ApplyRead(w) /\ w.index \in Nat
    <3> DEFINE i == w.index
    <3>1. log' = [log EXCEPT ![i].read = TRUE]
      BY <2>3 DEF ApplyRead
    <3>2. Len(log) \in Nat /\ log \in [1 .. Len(log) -> [from : Users, read : BOOLEAN]]
      BY LenProperties DEF TypeOK
    <3>3. log' \in [1 .. Len(log) -> [from : Users, read : BOOLEAN]]
      BY <3>1, <3>2
    <3>4. log' \in Seq([from : Users, read : BOOLEAN])
      BY <3>2, <3>3, SeqDef
    <3>. QED  BY <2>1, <2>3, <3>4 DEF ApplyRead, TypeOK
  <2>4. CASE ApplyBlock(u, w) /\ w.doc \in BlockDocs
    <3>1. \A v \in Users : Append(news[v], w.doc) \in Seq(BlockDocs)
      BY <2>4, AppendFacts DEF TypeOK
    <3>2. news' \in [Users -> Seq(BlockDocs)]
      BY <2>4, <3>1 DEF ApplyBlock
    <3>. QED  BY <2>1, <2>4, <3>2 DEF ApplyBlock, TypeOK
  <2>. QED  BY <1>13, <2>2, <2>3, <2>4, <2>5, ApplyCases
<1>14. CASE UNCHANGED vars
  BY <1>14 DEF vars, pages, TypeOK
<1>. QED  BY <1>3, <1>4, <1>5, <1>6, <1>7, <1>8, <1>9, <1>10, <1>11, <1>12,
             <1>13, <1>14 DEF Next

\* What a step is for everything but the text field: a write of one of four
\* kinds is queued, a queued one applied, a page opened or told, or nothing.
Idle == UNCHANGED <<log, blocked, queue, news, view, wants, raced>>

LEMMA StepKinds ==
    ASSUME TypeOK, [Next]_vars
    PROVE  \/ Idle
           \/ \E u \in Users : Reopen(u) \/ CheckBlock(u) \/ GenerateMessages(u) \/ Apply(u)
           \/ \E u \in Users : AnswerYes(u) /\ MayAnswer(u)
           \/ \E u \in Users, b \in BOOLEAN :
                 /\ Issue(u, Msg(u, b))
                 /\ UNCHANGED <<log, blocked, news, view, wants, raced>>
<1>1. ASSUME NEW u \in Users, OpenDialog(u) \/ AnswerNo(u) \/ OnChanged(u) \/ PickImage(u)
      PROVE  Idle
  BY <1>1 DEF OpenDialog, AnswerNo, OnChanged, PickImage, pages, Idle
<1>2. ASSUME NEW u \in Users, AnswerYes(u), ~MayAnswer(u)  PROVE Idle
  BY <1>2 DEF AnswerYes, Idle
<1>3. ASSUME NEW u \in Users, SendText(u)
      PROVE  /\ Issue(u, Msg(u, TRUE))
             /\ UNCHANGED <<log, blocked, news, view, wants, raced>>
  BY <1>3, Zenon DEF SendText
<1>4. ASSUME NEW u \in Users, UploadEnds(u)
      PROVE  \/ Idle
             \/ /\ Issue(u, Msg(u, FALSE))
                /\ UNCHANGED <<log, blocked, news, view, wants, raced>>
  <2>1. UNCHANGED <<log, blocked, news, view, wants, raced>>
    BY <1>4 DEF UploadEnds, pages
  <2>2. Issue(u, Msg(u, FALSE)) \/ UNCHANGED queue
    BY <1>4, Zenon DEF UploadEnds
  <2>3. CASE Issue(u, Msg(u, FALSE))
    BY <2>1, <2>3, Zenon
  <2>4. CASE UNCHANGED queue
    <3>1. Idle
      BY <2>1, <2>4 DEF Idle
    <3>. QED  BY <3>1, Zenon
  <2>. QED  BY <2>2, <2>3, <2>4, Zenon
<1>5. ASSUME UNCHANGED vars  PROVE Idle
  BY <1>5 DEF vars, pages, Idle
<1>6. {TRUE, FALSE} \subseteq BOOLEAN
  OBVIOUS
<1>. QED  BY <1>1, <1>2, <1>3, <1>4, <1>5, <1>6, Zenon DEF Next

LEMMA ReadsStep == TypeOK /\ ReadsOnLog /\ [Next]_vars => ReadsOnLog'
<1>. SUFFICES ASSUME TypeOK, ReadsOnLog, [Next]_vars,
                     NEW v \in Users, NEW n \in Queued(v, "read")'
              PROVE  queue'[v][n].index \in DOMAIN log'
  BY DEF ReadsOnLog
<1>1. ASSUME NEW u \in Users, NEW w \in Writes, Issue(u, w), UNCHANGED log,
             w.op = "read" => w.index \in DOMAIN log
      PROVE  queue'[v][n].index \in DOMAIN log'
  <2>1. CASE v = u
    BY <1>1, <2>1, QueuedIssued DEF ReadsOnLog
  <2>2. CASE v # u
    <3>1. Queued(v, "read")' = Queued(v, "read")
      BY <1>1, <2>2, QueuedIssued
    <3>2. queue'[v] = queue[v]
      BY <1>1, <2>2, Issued
    <3>. QED  BY <1>1, <3>1, <3>2 DEF ReadsOnLog
  <2>. QED  BY <2>1, <2>2
<1>2. CASE Idle
  BY <1>2 DEF Idle, ReadsOnLog, Queued
<1>3. ASSUME NEW u \in Users, Reopen(u)  PROVE queue'[v][n].index \in DOMAIN log'
  <2>1. Queued(v, "read")' = Queued(v, "read") /\ UNCHANGED log
    BY <1>3, Reopened DEF Reopen
  <2>2. queue'[v][n] = queue[v][n]
    BY <1>3, <2>1, Reopened DEF Queued
  <2>. QED  BY <2>1, <2>2 DEF ReadsOnLog
<1>4. ASSUME NEW u \in Users, CheckBlock(u)  PROVE queue'[v][n].index \in DOMAIN log'
  BY <1>4 DEF CheckBlock, ReadsOnLog, Queued
<1>5. ASSUME NEW u \in Users, AnswerYes(u), MayAnswer(u)
      PROVE  queue'[v][n].index \in DOMAIN log'
  <2>1. view[u].on \in BOOLEAN
    BY DEF TypeOK, BlockDocs
  <2>2. PICK b \in BOOLEAN : b = ~view[u].on
    BY <2>1
  <2>3. Block(b, u) \in Writes /\ Block(b, u).op # "read"
    BY WriteTypes
  <2>4. Issue(u, Block(b, u)) /\ UNCHANGED log
    BY <1>5, <2>2, Zenon DEF AnswerYes
  <2>. QED  BY <1>1, <2>3, <2>4
<1>6. ASSUME NEW u \in Users, NEW b \in BOOLEAN, Issue(u, Msg(u, b)), UNCHANGED log
      PROVE  queue'[v][n].index \in DOMAIN log'
  BY <1>1, <1>6, WriteTypes
<1>7. ASSUME NEW u \in Users, GenerateMessages(u)  PROVE queue'[v][n].index \in DOMAIN log'
  <2> DEFINE i == Drawn(u)
  <2>1. i \in DOMAIN log /\ i \in Nat
    BY <1>7, NewestOnLog DEF GenerateMessages
  <2>2. Read(i) \in Writes /\ Read(i).index = i
    BY <2>1, WriteTypes
  <2>3. Issue(u, Read(i)) /\ UNCHANGED log
    BY <1>7 DEF GenerateMessages
  <2>. QED  BY <1>1, <2>1, <2>2, <2>3
<1>8. ASSUME NEW u \in Users, Apply(u)  PROVE queue'[v][n].index \in DOMAIN log'
  <2>1. DOMAIN log \subseteq DOMAIN log'
    <3>1. Len(log) \in Nat /\ DOMAIN log = 1 .. Len(log)
      BY SeqFacts DEF TypeOK
    <3>2. [from |-> u, read |-> FALSE] \in [from : Users, read : BOOLEAN]
      OBVIOUS
    <3>3. ApplyAdd(u, Head(queue[u])) => DOMAIN log' = 1 .. Len(log) + 1
      BY <3>2, AppendFacts DEF ApplyAdd, TypeOK
    <3>4. CASE ApplyAdd(u, Head(queue[u]))
      BY <3>1, <3>3, <3>4
    <3>5. CASE \/ RefuseAdd(u, Head(queue[u])) \/ ApplyRead(Head(queue[u]))
               \/ ApplyBlock(u, Head(queue[u]))
      BY <3>5 DEF RefuseAdd, ApplyRead, ApplyBlock
    <3>. QED  BY <1>8, <3>4, <3>5, ApplyCases
  <2>2. CASE v = u
    BY <1>8, <2>1, <2>2, QueuedApplied DEF ReadsOnLog
  <2>3. CASE v # u
    <3>1. Queued(v, "read")' = Queued(v, "read") /\ queue'[v] = queue[v]
      BY <1>8, <2>3, QueuedApplied, Applied
    <3>. QED  BY <2>1, <3>1 DEF ReadsOnLog
  <2>. QED  BY <2>2, <2>3
<1>. QED  BY <1>2, <1>3, <1>4, <1>5, <1>6, <1>7, <1>8, StepKinds

-----------------------------------------------------------------------------
(* What the pages show of 'blocked'.                                       *)

LEMMA ToldStep == TypeOK /\ Told /\ [Next]_vars => Told'
<1>. SUFFICES ASSUME TypeOK, Told, [Next]_vars, NEW v \in Users
              PROVE  /\ news'[v] # << >> => Last(news'[v]) = blocked'
                     /\ Quiet(v)' => view'[v] = blocked'
  BY DEF Told
<1>1. /\ news \in [Users -> Seq(BlockDocs)] /\ view \in [Users -> BlockDocs]
      /\ blocked \in BlockDocs
      /\ news[v] # << >> => Last(news[v]) = blocked
      /\ Quiet(v) => view[v] = blocked
  BY DEF TypeOK, Told
\* More writes in the queue: nothing else about 'blocked' has changed.
<1>2. ASSUME NEW u \in Users, NEW w \in Writes, Issue(u, w), UNCHANGED <<blocked, news, view>>
      PROVE  /\ news'[v] # << >> => Last(news'[v]) = blocked'
             /\ Quiet(v)' => view'[v] = blocked'
  <2>1. Queued(v, "block") \subseteq Queued(v, "block")'
    BY <1>2, QueuedIssued
  <2>. QED  BY <1>1, <1>2, <2>1 DEF Quiet
<1>3. CASE Idle
  BY <1>1, <1>3 DEF Idle, Quiet, Queued
<1>4. ASSUME NEW u \in Users, Reopen(u)
      PROVE  /\ news'[v] # << >> => Last(news'[v]) = blocked'
             /\ Quiet(v)' => view'[v] = blocked'
  <2>1. UNCHANGED blocked /\ Queued(v, "block")' = Queued(v, "block")
    BY <1>4, Reopened DEF Reopen
  <2>2. CASE v = u
    <3>1. /\ view'[v] = Unblocked
          /\ news'[v] = IF blocked = Unblocked THEN << >> ELSE <<blocked>>
      BY <1>1, <1>4, <2>2 DEF Reopen
    <3>2. Len(<<blocked>>) = 1 /\ <<blocked>>[1] = blocked
      OBVIOUS
    <3>. QED  BY <2>1, <3>1, <3>2 DEF Quiet, Last
  <2>3. CASE v # u
    BY <1>1, <1>4, <2>1, <2>3 DEF Reopen, Quiet
  <2>. QED  BY <2>2, <2>3
<1>5. ASSUME NEW u \in Users, CheckBlock(u)
      PROVE  /\ news'[v] # << >> => Last(news'[v]) = blocked'
             /\ Quiet(v)' => view'[v] = blocked'
  <2>1. UNCHANGED <<blocked, queue>> /\ Queued(v, "block")' = Queued(v, "block")
    BY <1>5 DEF CheckBlock, Queued
  <2>2. CASE v # u
    BY <1>1, <1>5, <2>1, <2>2 DEF CheckBlock, Quiet
  <2>3. CASE v = u /\ Queued(u, "block") # {} /\ UNCHANGED news
    BY <1>1, <2>1, <2>3 DEF Quiet
  <2>4. CASE v = u /\ news[u] # << >> /\ view' = [view EXCEPT ![u] = Head(news[u])]
             /\ news' = [news EXCEPT ![u] = Tail(@)]
    <3>1. view'[v] = Head(news[v]) /\ news'[v] = Tail(news[v])
      BY <1>1, <2>4
    <3>2. /\ Tail(news[v]) # << >> => Last(Tail(news[v])) = Last(news[v])
          /\ Tail(news[v]) = << >> => Last(news[v]) = Head(news[v])
      BY <1>1, <2>4, TailFacts
    <3>. QED  BY <1>1, <2>1, <2>4, <3>1, <3>2 DEF Quiet
  <2>. QED  BY <1>5, <2>2, <2>3, <2>4 DEF CheckBlock, Shown
<1>6. ASSUME NEW u \in Users, AnswerYes(u), MayAnswer(u)
      PROVE  /\ news'[v] # << >> => Last(news'[v]) = blocked'
             /\ Quiet(v)' => view'[v] = blocked'
  <2>1. view[u].on \in BOOLEAN
    BY DEF TypeOK, BlockDocs
  <2>2. PICK b \in BOOLEAN : b = ~view[u].on
    BY <2>1
  <2>3. Block(b, u) \in Writes
    BY WriteTypes
  <2>4. Issue(u, Block(b, u)) /\ UNCHANGED <<blocked, news, view>>
    BY <1>6, <2>2, Zenon DEF AnswerYes
  <2>. QED  BY <1>2, <2>3, <2>4
<1>7. ASSUME NEW u \in Users, NEW b \in BOOLEAN, Issue(u, Msg(u, b)),
             UNCHANGED <<blocked, news, view>>
      PROVE  /\ news'[v] # << >> => Last(news'[v]) = blocked'
             /\ Quiet(v)' => view'[v] = blocked'
  <2>1. Msg(u, b) \in Writes
    BY WriteTypes
  <2>. QED  BY <1>2, <1>7, <2>1
<1>8. ASSUME NEW u \in Users, GenerateMessages(u)
      PROVE  /\ news'[v] # << >> => Last(news'[v]) = blocked'
             /\ Quiet(v)' => view'[v] = blocked'
  <2>1. Read(Drawn(u)) \in Writes
    BY <1>8, NewestOnLog, WriteTypes DEF GenerateMessages
  <2>. QED  BY <1>2, <1>8, <2>1 DEF GenerateMessages, pages
<1>9. ASSUME NEW u \in Users, Apply(u)
      PROVE  /\ news'[v] # << >> => Last(news'[v]) = blocked'
             /\ Quiet(v)' => view'[v] = blocked'
  <2> DEFINE w == Head(queue[u])
  <2>0. UNCHANGED view
    BY <1>9 DEF Apply
  <2>1. CASE w.op # "block" /\ UNCHANGED <<blocked, news>>
    <3>1. Queued(v, "block")' = {} => Queued(v, "block") = {}
      BY <1>9, <2>1, QueuedApplied
    <3>. QED  BY <1>1, <2>0, <2>1, <3>1 DEF Quiet
  <2>2. CASE w.doc \in BlockDocs /\ ApplyBlock(u, w)
    <3>1. /\ blocked' = w.doc
          /\ news'[v] = IF v = u THEN <<w.doc>> ELSE Append(news[v], w.doc)
      BY <2>2 DEF ApplyBlock
    <3>2. news'[v] # << >> /\ Last(news'[v]) = w.doc
      <4>1. Len(<<w.doc>>) = 1 /\ <<w.doc>>[1] = w.doc /\ <<w.doc>> # << >>
        OBVIOUS
      <4>2. Append(news[v], w.doc) # << >> /\ Last(Append(news[v], w.doc)) = w.doc
        BY <1>1, <2>2, AppendFacts
      <4>. QED  BY <3>1, <4>1, <4>2 DEF Last
    <3>. QED  BY <3>1, <3>2 DEF Quiet
  <2>. QED  BY <1>9, <2>1, <2>2, ApplyCases DEF ApplyAdd, RefuseAdd, ApplyRead
<1>. QED  BY <1>3, <1>4, <1>5, <1>6, <1>7, <1>8, <1>9, StepKinds

-----------------------------------------------------------------------------
(* The send button.                                                        *)

LEMMA WritingFacts ==
    ASSUME TypeOK, WritingExplained, NEW v \in Users
    PROVE  /\ heard \in [Users -> SUBSET {"added", "refused"}]
           /\ isWritting \in [Users -> BOOLEAN] /\ typed \in [Users -> BOOLEAN]
           /\ isWritting[v] => "added" \notin heard[v]
           /\ ~isWritting[v] /\ typed[v] => "added" \in heard[v]
           /\ isWritting[v] /\ ~typed[v] => Waits(v) \/ "refused" \in heard[v]
BY DEF TypeOK, WritingExplained

\* What the page has heard of, and the button: an enabled one has heard of no
\* added text since the field changed, and only an added one disables it.
LEMMA HeardStep ==
    ASSUME TypeOK, WritingExplained, [Next]_vars, NEW v \in Users
    PROVE  /\ isWritting'[v] => "added" \notin heard'[v]
           /\ ~isWritting'[v] /\ typed'[v] => "added" \in heard'[v]
<1> DEFINE Goal == /\ isWritting'[v] => "added" \notin heard'[v]
                   /\ ~isWritting'[v] /\ typed'[v] => "added" \in heard'[v]
<1>1. ASSUME UNCHANGED <<typed[v], isWritting[v], heard[v]>>
      PROVE  Goal
  BY <1>1, WritingFacts
\* The field changes, or is a new one: the button is enabled as it has a text.
<1>2. ASSUME NEW u \in Users, OnChanged(u) \/ Reopen(u)
      PROVE  Goal
  <2>1. PICK b \in BOOLEAN : /\ typed' = [typed EXCEPT ![u] = b]
                             /\ isWritting' = [isWritting EXCEPT ![u] = b]
                             /\ heard' = [heard EXCEPT ![u] = {}]
    <3>1. CASE OnChanged(u)
      BY <3>1 DEF OnChanged
    <3>2. CASE Reopen(u)
      <4>1. PICK b \in BOOLEAN : b = FALSE
        OBVIOUS
      <4>. QED  BY <3>2, <4>1, Zenon DEF Reopen
    <3>. QED  BY <1>2, <3>1, <3>2
  <2>2. CASE v = u
    <3>1. (typed'[v] <=> b) /\ (isWritting'[v] <=> b)
      BY <2>1, <2>2, WritingFacts, Zenon
    <3>2. heard'[v] = {}
      BY <2>1, <2>2, WritingFacts
    <3>. QED  BY <3>1, <3>2
  <2>3. CASE v # u
    <3>1. UNCHANGED <<typed[v], isWritting[v], heard[v]>>
      BY <2>1, <2>3, WritingFacts
    <3>. QED  BY <1>1, <3>1
  <2>. QED  BY <2>2, <2>3
<1>3. ASSUME NEW u \in Users, SendText(u)
      PROVE  Goal
  <2>1. /\ UNCHANGED <<isWritting, heard>>
        /\ v # u => typed'[v] = typed[v]
        /\ v = u => ~typed'[v]
    <3>1. typed' = [typed EXCEPT ![u] = FALSE] /\ UNCHANGED <<isWritting, heard>>
      BY <1>3 DEF SendText
    <3>2. v = u => ~typed'[v]
      BY <3>1, WritingFacts, Zenon
    <3>3. v # u => typed'[v] = typed[v]
      BY <3>1, WritingFacts
    <3>. QED  BY <3>1, <3>2, <3>3
  <2>. QED  BY <2>1, WritingFacts
<1>4. ASSUME NEW u \in Users, Apply(u)
      PROVE  Goal
  <2> DEFINE w == Head(queue[u])
  <2>1. UNCHANGED typed
    BY <1>4 DEF Apply
  <2>2. CASE ApplyRead(w) \/ ApplyBlock(u, w)
    BY <1>1, <2>1, <2>2 DEF ApplyRead, ApplyBlock
  <2>3. CASE v # u \/ ~w.button
    <3>1. CASE ApplyAdd(u, w) \/ RefuseAdd(u, w)
      <4>1. UNCHANGED <<isWritting[v], heard[v]>>
        BY <2>3, <3>1, WritingFacts DEF ApplyAdd, RefuseAdd, Acked, Hears
      <4>. QED  BY <1>1, <2>1, <4>1
    <3>. QED  BY <1>4, <2>2, <3>1, ApplyCases
  <2>4. CASE v = u /\ w.button /\ ApplyAdd(u, w)
    <3>1. isWritting' = [isWritting EXCEPT ![u] = FALSE] /\ "added" \in heard'[v]
      BY <2>4, WritingFacts DEF ApplyAdd, Acked, Hears
    <3>2. ~isWritting'[v]
      BY <2>4, <3>1, WritingFacts, Zenon
    <3>. QED  BY <3>1, <3>2
  <2>5. CASE v = u /\ w.button /\ RefuseAdd(u, w)
    <3>1. UNCHANGED isWritting /\ ("added" \in heard'[v] <=> "added" \in heard[v])
      BY <2>5, WritingFacts DEF RefuseAdd, Hears
    <3>. QED  BY <2>1, <3>1, WritingFacts
  <2>. QED  BY <1>4, <2>2, <2>3, <2>4, <2>5, ApplyCases
<1>5. ASSUME NEW u \in Users,
             \/ CheckBlock(u) \/ OpenDialog(u) \/ AnswerNo(u) \/ AnswerYes(u)
             \/ PickImage(u) \/ UploadEnds(u) \/ GenerateMessages(u)
      PROVE  Goal
  BY <1>1, <1>5 DEF CheckBlock, OpenDialog, AnswerNo, AnswerYes, PickImage, UploadEnds,
                    GenerateMessages, pages
<1>6. CASE UNCHANGED vars
  BY <1>1, <1>6 DEF vars, pages
<1>7. CASE Next
  <2>1. PICK u \in Users :
           \/ OnChanged(u) \/ Reopen(u) \/ SendText(u) \/ Apply(u)
           \/ CheckBlock(u) \/ OpenDialog(u) \/ AnswerNo(u) \/ AnswerYes(u)
           \/ PickImage(u) \/ UploadEnds(u) \/ GenerateMessages(u)
    BY <1>7 DEF Next
  <2>2. CASE OnChanged(u) \/ Reopen(u)
    BY <1>2, <2>2
  <2>3. CASE SendText(u)
    BY <1>3, <2>3
  <2>4. CASE Apply(u)
    BY <1>4, <2>4
  <2>5. CASE \/ CheckBlock(u) \/ OpenDialog(u) \/ AnswerNo(u) \/ AnswerYes(u)
             \/ PickImage(u) \/ UploadEnds(u) \/ GenerateMessages(u)
    BY <1>5, <2>5
  <2>. QED  BY <2>1, <2>2, <2>3, <2>4, <2>5
<1>. QED  BY <1>6, <1>7

LEMMA WaitingStep ==
    ASSUME TypeOK, WritingExplained, [Next]_vars, NEW v \in Users,
           isWritting'[v], ~typed'[v]
    PROVE  Waits(v)' \/ "refused" \in heard'[v]
<1> DEFINE Goal == Waits(v)' \/ "refused" \in heard'[v]
<1>0. /\ isWritting \in [Users -> BOOLEAN] /\ typed \in [Users -> BOOLEAN]
      /\ heard \in [Users -> SUBSET {"added", "refused"}]
      /\ isWritting[v] /\ ~typed[v] => Waits(v) \/ "refused" \in heard[v]
  BY WritingFacts
<1>1. ASSUME UNCHANGED <<queue[v], typed[v], isWritting[v], heard[v]>>
      PROVE  Goal
  BY <1>0, <1>1 DEF Waits, Queued
\* One more write, and the field as it was.
<1>2. ASSUME NEW u \in Users, NEW w \in Writes, Issue(u, w),
             UNCHANGED <<typed, isWritting, heard>>
      PROVE  Goal
  <2>1. CASE "refused" \in heard[v]
    BY <1>2, <2>1
  <2>2. CASE Waits(v)
    <3>1. PICK n \in Queued(v, "add") : queue[v][n].button
      BY <2>2 DEF Waits
    <3>2. n \in DOMAIN queue[v]
      BY DEF Queued
    <3>3. queue'[v][n] = queue[v][n]
      BY <1>2, <3>2, Issued
    <3>4. n \in Queued(v, "add")'
      BY <1>2, QueuedIssued
    <3>. QED  BY <3>1, <3>3, <3>4 DEF Waits
  <2>. QED  BY <1>0, <1>2, <2>1, <2>2
<1>3. ASSUME NEW u \in Users, Reopen(u)
      PROVE  Goal
  <2>1. v # u
    BY <1>0, <1>3, Zenon DEF Reopen
  <2>2. UNCHANGED <<typed[v], isWritting[v], queue[v], heard[v]>>
    BY <1>0, <1>3, <2>1, Reopened DEF Reopen
  <2>. QED  BY <1>1, <2>2
<1>4. ASSUME NEW u \in Users,
             \/ CheckBlock(u) \/ OpenDialog(u) \/ AnswerNo(u) \/ PickImage(u)
      PROVE  Goal
  BY <1>1, <1>4 DEF CheckBlock, OpenDialog, AnswerNo, PickImage, pages
<1>5. ASSUME NEW u \in Users, AnswerYes(u)
      PROVE  Goal
  <2>1. view[u].on \in BOOLEAN
    BY DEF TypeOK, BlockDocs
  <2>2. PICK b \in BOOLEAN : b = ~view[u].on
    BY <2>1
  <2>3. Block(b, u) \in Writes
    BY WriteTypes
  <2>4. /\ UNCHANGED <<typed, isWritting, heard>>
        /\ Issue(u, Block(b, u)) \/ UNCHANGED queue
    BY <1>5, <2>2, Zenon DEF AnswerYes
  <2>. QED  BY <1>1, <1>2, <2>3, <2>4
<1>6. ASSUME NEW u \in Users, OnChanged(u)
      PROVE  Goal
  <2>1. PICK b \in BOOLEAN : /\ typed' = [typed EXCEPT ![u] = b]
                             /\ isWritting' = [isWritting EXCEPT ![u] = b]
    BY <1>6 DEF OnChanged
  <2>2. v # u
    BY <1>0, <2>1, Zenon
  <2>3. UNCHANGED <<typed[v], isWritting[v], queue[v], heard[v]>>
    BY <1>0, <1>6, <2>1, <2>2 DEF OnChanged
  <2>. QED  BY <1>1, <2>3
<1>7. ASSUME NEW u \in Users, SendText(u)
      PROVE  Goal
  <2>1. PICK b \in BOOLEAN : b = TRUE
    OBVIOUS
  <2>2. /\ Msg(u, b) \in Writes /\ Msg(u, b).op = "add" /\ Msg(u, b).button = b
    BY WriteTypes
  <2>3. /\ Issue(u, Msg(u, b)) /\ UNCHANGED <<isWritting, heard>>
        /\ typed' = [typed EXCEPT ![u] = FALSE]
    BY <1>7, <2>1, Zenon DEF SendText
  <2>4. CASE v = u
    <3>1. \E n \in Queued(u, "add")' : queue'[u][n] = Msg(u, b)
      BY <2>2, <2>3, QueuedIssued
    <3>. QED  BY <2>1, <2>2, <2>4, <3>1 DEF Waits
  <2>5. CASE v # u
    <3>1. UNCHANGED <<typed[v], isWritting, heard>>
      BY <1>0, <2>3, <2>5
    <3>2. queue'[v] = queue[v]
      BY <2>2, <2>3, <2>5, Issued
    <3>. QED  BY <1>1, <3>1, <3>2
  <2>. QED  BY <2>4, <2>5
<1>8. ASSUME NEW u \in Users, UploadEnds(u)
      PROVE  Goal
  <2>1. PICK b \in BOOLEAN : b = FALSE
    OBVIOUS
  <2>2. Msg(u, b) \in Writes
    BY WriteTypes
  <2>3. /\ UNCHANGED <<typed, isWritting, heard>>
        /\ Issue(u, Msg(u, b)) \/ UNCHANGED queue
    BY <1>8, <2>1, Zenon DEF UploadEnds, pages
  <2>. QED  BY <1>1, <1>2, <2>2, <2>3
<1>9. ASSUME NEW u \in Users, GenerateMessages(u)
      PROVE  Goal
  <2>1. Read(Drawn(u)) \in Writes
    BY <1>9, NewestOnLog, WriteTypes DEF GenerateMessages
  <2>. QED  BY <1>2, <1>9, <2>1 DEF GenerateMessages, pages
\* A text that is answered is refused, or its button disabled; others wait on.
<1>10. ASSUME NEW u \in Users, Apply(u)
       PROVE  Goal
  <2> DEFINE w == Head(queue[u])
  <2>1. UNCHANGED typed
    BY <1>10 DEF Apply
  <2>2. CASE v # u
    <3>1. queue'[v] = queue[v]
      BY <1>10, <2>2, Applied
    <3>2. UNCHANGED <<isWritting[v], heard[v]>>
      BY <1>0, <1>10, <2>2, ApplyCases
         DEF ApplyAdd, RefuseAdd, ApplyRead, ApplyBlock, Acked, Hears
    <3>. QED  BY <1>1, <2>1, <3>1, <3>2
  <2>3. CASE v = u
    <3>1. CASE RefuseAdd(u, w) /\ w.button
      BY <1>0, <2>3, <3>1 DEF RefuseAdd, Hears
    <3>2. CASE ~(RefuseAdd(u, w) /\ w.button)
      <4>1. isWritting[v] /\ ~(w.op = "add" /\ w.button) /\ heard'[v] = heard[v]
        <5>1. CASE ApplyAdd(u, w)
          BY <1>0, <2>3, <5>1 DEF ApplyAdd, Acked, Hears
        <5>2. CASE RefuseAdd(u, w)
          BY <1>0, <2>3, <3>2, <5>2 DEF RefuseAdd, Hears
        <5>3. CASE ApplyRead(w) \/ ApplyBlock(u, w)
          BY <1>0, <2>3, <5>3 DEF ApplyRead, ApplyBlock
        <5>. QED  BY <1>10, <5>1, <5>2, <5>3, ApplyCases
      <4>2. CASE "refused" \in heard[v]
        BY <4>1, <4>2
      <4>3. CASE Waits(v)
        <5>1. PICK n \in Queued(u, "add") : queue[u][n].button
          BY <2>3, <4>3 DEF Waits
        <5>2. n # 1
          <6>1. w = queue[u][1] /\ queue[u][n].op = "add"
            BY <1>10, Applied DEF Queued
          <6>. QED  BY <4>1, <5>1, <6>1
        <5>3. n - 1 \in Queued(u, "add")' /\ queue'[u][n - 1] = queue[u][n]
          BY <1>10, <5>2, QueuedApplied
        <5>. QED  BY <2>3, <5>1, <5>3 DEF Waits
      <4>. QED  BY <1>0, <2>1, <4>1, <4>2, <4>3
    <3>. QED  BY <3>1, <3>2
  <2>. QED  BY <2>2, <2>3
<1>11. CASE UNCHANGED vars
  BY <1>1, <1>11 DEF vars, pages
<1>12. CASE Next
  <2>1. PICK u \in Users :
           \/ Reopen(u) \/ CheckBlock(u)
           \/ OpenDialog(u) \/ AnswerNo(u) \/ AnswerYes(u)
           \/ OnChanged(u) \/ SendText(u) \/ PickImage(u) \/ UploadEnds(u)
           \/ GenerateMessages(u) \/ Apply(u)
    BY <1>12 DEF Next
  <2>2. CASE Reopen(u)
    BY <1>3, <2>2
  <2>3. CASE \/ CheckBlock(u) \/ OpenDialog(u) \/ AnswerNo(u) \/ PickImage(u)
    BY <1>4, <2>3
  <2>4. CASE AnswerYes(u)
    BY <1>5, <2>4
  <2>5. CASE OnChanged(u)
    BY <1>6, <2>5
  <2>6. CASE SendText(u)
    BY <1>7, <2>6
  <2>7. CASE UploadEnds(u)
    BY <1>8, <2>7
  <2>8. CASE GenerateMessages(u)
    BY <1>9, <2>8
  <2>9. CASE Apply(u)
    BY <1>10, <2>9
  <2>. QED  BY <2>1, <2>2, <2>3, <2>4, <2>5, <2>6, <2>7, <2>8, <2>9
<1>. QED  BY <1>11, <1>12

LEMMA WritingStep == TypeOK /\ WritingExplained /\ [Next]_vars => WritingExplained'
BY HeardStep, WaitingStep DEF WritingExplained

-----------------------------------------------------------------------------
(* Who rules the chat while nobody races.                                  *)

LEMMA RuledStep == TypeOK /\ Ruled /\ [Next]_vars => Ruled'
<1>. SUFFICES ASSUME TypeOK, Ruled, [Next]_vars, ~raced'
              PROVE  /\ \A u, v \in Users :
                           \A m \in Queued(u, "block")', n \in Queued(v, "block")' :
                              u = v /\ m = n
                     /\ \A u \in Users : \A n \in Queued(u, "block")' :
                           Covers(queue[u][n].doc)'
                     /\ BlocksInFlight' = {} => Covers(blocked)'
  BY DEF Ruled
<1>0. ~raced /\ raced \in BOOLEAN
  <2>1. raced' = raced \/ \E u \in Users : AnswerYes(u)
    BY DEF Next, vars, pages, Reopen, CheckBlock, OpenDialog, AnswerNo, OnChanged, SendText,
           PickImage, UploadEnds, GenerateMessages, Apply
  <2>2. (\E u \in Users : AnswerYes(u)) => (raced => raced')
    BY Zenon DEF AnswerYes
  <2>. QED  BY <2>1, <2>2, Zenon DEF TypeOK
<1>1. /\ \A u, v \in Users : \A m \in Queued(u, "block"), n \in Queued(v, "block") :
            u = v /\ m = n
      /\ \A u \in Users : \A n \in Queued(u, "block") : Covers(queue[u][n].doc)
      /\ BlocksInFlight = {} => Covers(blocked)
  BY <1>0 DEF Ruled
<1> DEFINE Goal == /\ \A u, v \in Users :
                         \A m \in Queued(u, "block")', n \in Queued(v, "block")' :
                            u = v /\ m = n
                   /\ \A u \in Users : \A n \in Queued(u, "block")' :
                         Covers(queue[u][n].doc)'
                   /\ BlocksInFlight' = {} => Covers(blocked)'
\* The blocks that are queued, and the document, are as before.
<1>2. ASSUME UNCHANGED <<blocked, wants>>,
             \A u \in Users : /\ Queued(u, "block")' = Queued(u, "block")
                              /\ \A n \in Queued(u, "block") : queue'[u][n] = queue[u][n]
      PROVE  Goal
  <2>1. BlocksInFlight' = BlocksInFlight
    BY <1>2 DEF BlocksInFlight
  <2>. QED  BY <1>1, <1>2, <2>1 DEF Covers
<1>3. ASSUME NEW u \in Users, NEW w \in Writes, w.op # "block", Issue(u, w),
             UNCHANGED <<blocked, wants>>
      PROVE  Goal
  <2>1. ASSUME NEW v \in Users
        PROVE  /\ Queued(v, "block")' = Queued(v, "block")
               /\ \A n \in Queued(v, "block") : queue'[v][n] = queue[v][n]
    <3>1. CASE v # u
      <4>1. queue'[v] = queue[v]
        BY <1>3, <3>1, Issued
      <4>. QED  BY <4>1 DEF Queued
    <3>2. CASE v = u
      <4>1. \A n \in Queued(u, "block") : queue'[u][n] = queue[u][n]
        BY <1>3, Issued DEF Queued
      <4>2. /\ Queued(u, "block") \subseteq Queued(u, "block")'
            /\ \A n \in Queued(u, "block")' : n \in Queued(u, "block")
        BY <1>3, QueuedIssued
      <4>. QED  BY <3>2, <4>1, <4>2
    <3>. QED  BY <3>1, <3>2
  <2>. QED  BY <1>2, <1>3, <2>1
<1>4. ASSUME Idle  PROVE Goal
  <2>1. UNCHANGED <<blocked, wants, queue>>
    BY <1>4 DEF Idle
  <2>. QED  BY <1>2, <2>1 DEF Queued
<1>5. ASSUME NEW u \in Users, Reopen(u)  PROVE Goal
  <2>1. UNCHANGED <<blocked, wants>>
    BY <1>5 DEF Reopen
  <2>2. ASSUME NEW v \in Users
        PROVE  /\ Queued(v, "block")' = Queued(v, "block")
               /\ \A n \in Queued(v, "block") : queue'[v][n] = queue[v][n]
    BY <1>5, Reopened DEF Queued
  <2>. QED  BY <1>2, <2>1, <2>2
<1>6. ASSUME NEW u \in Users, CheckBlock(u)  PROVE Goal
  <2>1. UNCHANGED <<blocked, wants, queue>>
    BY <1>6 DEF CheckBlock
  <2>. QED  BY <1>2, <2>1 DEF Queued
<1>7. ASSUME NEW u \in Users, GenerateMessages(u)  PROVE Goal
  <2>1. Read(Drawn(u)) \in Writes /\ Read(Drawn(u)).op # "block"
    BY <1>7, NewestOnLog, WriteTypes DEF GenerateMessages
  <2>. QED  BY <1>3, <1>7, <2>1 DEF GenerateMessages
<1>8. ASSUME NEW u \in Users, NEW b \in BOOLEAN, Issue(u, Msg(u, b)),
             UNCHANGED <<blocked, wants>>
      PROVE  Goal
  <2>1. Msg(u, b) \in Writes /\ Msg(u, b).op # "block"
    BY WriteTypes
  <2>. QED  BY <1>3, <1>8, <2>1
\* No block is under way and u sees the document: a block of u finds nobody
\* who wants one, and an unblock of u finds at most u.
<1>9. ASSUME NEW u \in Users, AnswerYes(u), MayAnswer(u)  PROVE Goal
  <2>1. view[u] = blocked /\ BlocksInFlight = {}
    BY <1>9, Zenon DEF AnswerYes
  <2>2. Covers(blocked) /\ \A v \in Users : Queued(v, "block") = {}
    BY <1>1, <2>1 DEF BlocksInFlight
  <2>3. view[u].on \in BOOLEAN
    BY DEF TypeOK, BlockDocs
  <2>4. PICK b \in BOOLEAN : b = ~view[u].on
    BY <2>3
  <2>5. /\ Block(b, u) \in Writes /\ Block(b, u).op = "block"
        /\ Block(b, u).doc = [on |-> b, by |-> {u}]
    BY WriteTypes
  <2>6. Issue(u, Block(b, u))
    BY <1>9, <2>4, Zenon DEF AnswerYes
  <2>7. wants' = IF view[u].on THEN wants \ {u} ELSE wants \cup {u}
    BY <1>9, Zenon DEF AnswerYes
  <2>8. wants' = {} \/ (b /\ wants' \subseteq {u})
    <3>1. CASE view[u].on
      <4>1. wants \subseteq {u}
        BY <1>9, <2>1, <2>2, <3>1 DEF Covers, MayAnswer
      <4>. QED  BY <2>7, <3>1, <4>1
    <3>2. CASE ~view[u].on
      <4>1. wants = {}
        BY <2>1, <2>2, <3>2 DEF Covers
      <4>. QED  BY <2>4, <2>7, <3>2, <4>1
    <3>. QED  BY <3>1, <3>2
  <2>9. \A v \in Users : v # u => Queued(v, "block")' = {}
    BY <2>2, <2>5, <2>6, QueuedIssued
  <2>10. \A n \in Queued(u, "block")' :
            n = Len(queue[u]) + 1 /\ queue'[u][n] = Block(b, u)
    BY <2>2, <2>5, <2>6, Issued DEF Queued
  <2>11. BlocksInFlight' # {}
    <3>1. \E n \in Queued(u, "block")' : queue'[u][n] = Block(b, u)
      BY <2>5, <2>6, QueuedIssued
    <3>. QED  BY <3>1 DEF BlocksInFlight
  <2>12. ASSUME NEW v \in Users, NEW n \in Queued(v, "block")'
         PROVE  Covers(queue[v][n].doc)'
    <3>1. queue'[v][n] = Block(b, u)
      BY <2>9, <2>10
    <3>2. queue'[v][n].doc.on = b /\ queue'[v][n].doc.by = {u}
      BY <2>5, <3>1
    <3>. QED  BY <2>8, <3>2 DEF Covers
  <2>. QED  BY <2>9, <2>10, <2>11, <2>12
<1>10. ASSUME NEW u \in Users, Apply(u)  PROVE Goal
  <2> DEFINE w == Head(queue[u])
  <2>1. UNCHANGED wants
    BY <1>10, ApplyCases DEF ApplyAdd, RefuseAdd, ApplyRead, ApplyBlock
  <2>2. \A v \in Users : v # u => queue'[v] = queue[v]
    BY <1>10, Applied
  <2>3. \A v \in Users : v # u => Queued(v, "block")' = Queued(v, "block")
    BY <2>2 DEF Queued
  <2>4. \A n \in Queued(u, "block")' :
            n + 1 \in Queued(u, "block") /\ queue'[u][n] = queue[u][n + 1]
    BY <1>10, QueuedApplied
  <2>5. Queued(u, "block")' \subseteq Nat
    <3>1. queue'[u] \in Seq(Writes)
      BY <1>10, Applied
    <3>. QED  BY <3>1, SeqFacts DEF Queued
  <2>6. ASSUME NEW x \in Users, NEW y \in Users,
               NEW m \in Queued(x, "block")', NEW n \in Queued(y, "block")'
        PROVE  x = y /\ m = n
    <3>1. CASE x = u /\ y = u
      <4>1. m + 1 = n + 1
        BY <1>1, <2>4, <3>1
      <4>. QED  BY <2>5, <3>1, <4>1
    <3>2. CASE x # u \/ y # u
      BY <1>1, <2>3, <2>4, <3>2
    <3>. QED  BY <3>1, <3>2
  <2>7. ASSUME NEW v \in Users, NEW n \in Queued(v, "block")'
        PROVE  Covers(queue[v][n].doc)'
    <3>1. CASE v = u
      BY <1>1, <2>1, <2>4, <3>1 DEF Covers
    <3>2. CASE v # u
      BY <1>1, <2>1, <2>2, <2>3, <3>2 DEF Covers
    <3>. QED  BY <3>1, <3>2
  <2>8. ASSUME BlocksInFlight' = {}  PROVE Covers(blocked)'
    <3>1. CASE w.op # "block" /\ UNCHANGED blocked
      <4>1. ASSUME NEW v \in Users  PROVE Queued(v, "block") = {}
        <5>1. Queued(v, "block")' = {}
          BY <2>8 DEF BlocksInFlight
        <5>2. CASE v = u
          BY <1>10, <3>1, <5>1, <5>2, QueuedApplied
        <5>3. CASE v # u
          BY <2>3, <5>1, <5>3
        <5>. QED  BY <5>2, <5>3
      <4>2. BlocksInFlight = {}
        BY <4>1 DEF BlocksInFlight
      <4>. QED  BY <1>1, <2>1, <3>1, <4>2 DEF Covers
    <3>2. CASE ApplyBlock(u, w)
      <4>1. 1 \in Queued(u, "block") /\ queue[u][1] = w
        BY <1>10, <3>2, Applied DEF ApplyBlock, Queued
      <4>2. Covers(w.doc)
        BY <1>1, <4>1
      <4>. QED  BY <2>1, <3>2, <4>2 DEF ApplyBlock, Covers
    <3>. QED  BY <1>10, <3>1, <3>2, ApplyCases DEF ApplyAdd, RefuseAdd, ApplyRead
  <2>. QED  BY <2>6, <2>7, <2>8
<1>. HIDE DEF Goal
<1>11. Goal
  <2>1. ASSUME NEW u \in Users, NEW b \in BOOLEAN, Issue(u, Msg(u, b)),
               UNCHANGED <<log, blocked, news, view, wants, raced>>
        PROVE  Goal
    BY <1>8, <2>1
  <2>. QED  BY <1>4, <1>5, <1>6, <1>7, <1>9, <1>10, <2>1, StepKinds, Zenon
<1>. QED  BY <1>11 DEF Goal

-----------------------------------------------------------------------------
LEMMA ChatInvariant == Spec => []ChatInv
<1>1. ChatInv /\ [Next]_vars => ChatInv'
  BY TypeStep, ReadsStep, ToldStep, WritingStep, RuledStep DEF ChatInv
<1>. QED  BY ChatInit, <1>1, PTL DEF Spec

\* The variables keep their types; in particular a phone only ever marks a
\* message that is on the server, and no write is ever malformed.
THEOREM TypeCorrect == Spec => []TypeOK
<1>1. ChatInv => TypeOK
  BY DEF ChatInv
<1>. QED  BY ChatInvariant, <1>1, PTL

\* However blocks, unblocks and reopened pages overlap, a page with nothing
\* about 'blocked' on its way to or from it shows the server's document.
THEOREM PagesAgree == Spec => []ViewsAgree
<1>1. ChatInv => ViewsAgree
  BY DEF ChatInv, Told, ViewsAgree
<1>. QED  BY ChatInvariant, <1>1, PTL

\* As long as nobody answers a dialog on an outdated page, a block is there
\* until its author takes it back: the blockedBy test of the Yes button is
\* enough without races, whatever the number of answers.
THEOREM BlockIsKept == Spec => []BlockHolds
<1>1. ChatInv => BlockHolds
  <2>. SUFFICES ASSUME ChatInv, Settled, ~raced, NEW u \in wants  PROVE blocked.on
    BY DEF BlockHolds
  <2>1. BlocksInFlight = {}
    BY DEF Settled, Quiet, BlocksInFlight
  <2>2. Covers(blocked)
    BY <2>1 DEF ChatInv, Ruled
  <2>. QED  BY <2>2 DEF Covers
<1>. QED  BY ChatInvariant, <1>1, PTL

\* A send button that is enabled over a blank field waits for a text of this
\* page, or the server has refused one; one that is dead over a text has heard
\* that an earlier text was added (_sendText, page_chat.dart:577-593).
THEOREM ButtonExplained == Spec => []WritingExplained
<1>1. ChatInv => WritingExplained
  BY DEF ChatInv
<1>. QED  BY ChatInvariant, <1>1, PTL

=============================================================================
