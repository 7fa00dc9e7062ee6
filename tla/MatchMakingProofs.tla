------------------------- MODULE MatchMakingProofs -------------------------
(***************************************************************************)
(* Proofs about MatchMaking for any sets of users and processes.           *)
(***************************************************************************)
EXTENDS MatchMaking, TLAPS

-----------------------------------------------------------------------------
(* The queues.                                                             *)

\* Issue adds exactly the writes it names, to the queue of its process.
LEMMA QueueIssue ==
    ASSUME TypeOK, NEW c \in Calls, NEW ws \in Seq(Writes), Issue(c, ws)
    PROVE  /\ queue' \in [Calls -> Seq(Writes)]
           /\ \A d \in Calls : \A w : Queued(d, w)' <=>
                 Queued(d, w) \/ (d = c /\ \E i \in 1 .. Len(ws) : ws[i] = w)
<1> DEFINE q == queue[c]
<1>1. q \in Seq(Writes) /\ q \o ws \in Seq(Writes)
  BY DEF TypeOK
<1>2. queue' = [queue EXCEPT ![c] = q \o ws]
  BY DEF Issue
<1>3. queue' \in [Calls -> Seq(Writes)]
  BY <1>1, <1>2 DEF TypeOK
<1>4. ASSUME NEW d \in Calls, NEW w
      PROVE  Queued(d, w)' <=>
               Queued(d, w) \/ (d = c /\ \E i \in 1 .. Len(ws) : ws[i] = w)
  <2>1. CASE d # c
    <3>1. queue'[d] = queue[d]
      BY <2>1, <1>2 DEF TypeOK
    <3> QED BY <3>1, <2>1 DEF Queued
  <2>2. CASE d = c
    <3>1. queue'[d] = q \o ws
      BY <2>2, <1>2 DEF TypeOK
    <3>2. /\ DOMAIN (q \o ws) = 1 .. (Len(q) + Len(ws))
          /\ DOMAIN q = 1 .. Len(q)
          /\ Len(q) \in Nat /\ Len(ws) \in Nat
      BY <1>1
    <3>3. ASSUME NEW i \in DOMAIN (q \o ws), (q \o ws)[i] = w
          PROVE  Queued(c, w) \/ \E j \in 1 .. Len(ws) : ws[j] = w
      <4>1. CASE i <= Len(q)
        BY <4>1, <3>2, <3>3, <1>1 DEF Queued
      <4>2. CASE i > Len(q)
        <5>1. i - Len(q) \in 1 .. Len(ws) /\ ws[i - Len(q)] = w
          BY <4>2, <3>2, <3>3, <1>1
        <5> QED BY <5>1
      <4> QED BY <4>1, <4>2, <3>2
    <3>4. ASSUME NEW i \in DOMAIN q, q[i] = w
          PROVE  i \in DOMAIN (q \o ws) /\ (q \o ws)[i] = w
      BY <3>4, <3>2, <1>1
    <3>5. ASSUME NEW j \in 1 .. Len(ws), ws[j] = w
          PROVE  /\ Len(q) + j \in DOMAIN (q \o ws)
                 /\ (q \o ws)[Len(q) + j] = w
      BY <3>5, <3>2, <1>1
    <3> QED BY <3>1, <3>3, <3>4, <3>5, <2>2 DEF Queued
  <2> QED BY <2>1, <2>2
<1> QED BY <1>3, <1>4

\* Apply takes the oldest write out of the queue of its process.
LEMMA QueueApply ==
    ASSUME TypeOK, NEW c \in Calls, Apply(c)
    PROVE  /\ queue' \in [Calls -> Seq(Writes)]
           /\ Head(queue[c]) \in Writes
           /\ Queued(c, Head(queue[c]))
           /\ \A d \in Calls : \A w : Queued(d, w)' => Queued(d, w)
           /\ \A d \in Calls : \A w :
                 Queued(d, w) => Queued(d, w)' \/ (d = c /\ w = Head(queue[c]))
<1> DEFINE q == queue[c]
<1>1. q \in Seq(Writes) /\ q # << >> /\ queue' = [queue EXCEPT ![c] = Tail(q)]
  BY DEF TypeOK, Apply, Acked
<1>2. /\ Tail(q) \in Seq(Writes) /\ Head(q) \in Writes /\ Head(q) = q[1]
      /\ Len(q) \in Nat \ {0} /\ DOMAIN q = 1 .. Len(q)
      /\ DOMAIN Tail(q) = 1 .. (Len(q) - 1)
      /\ \A i \in 1 .. (Len(q) - 1) : Tail(q)[i] = q[i + 1]
  BY <1>1
<1>3. queue' \in [Calls -> Seq(Writes)]
  BY <1>1, <1>2 DEF TypeOK
<1>4. Queued(c, Head(q))
  BY <1>2 DEF Queued
<1>5. ASSUME NEW d \in Calls, NEW w
      PROVE  /\ Queued(d, w)' => Queued(d, w)
             /\ Queued(d, w) => Queued(d, w)' \/ (d = c /\ w = Head(q))
  <2>1. CASE d # c
    <3>1. queue'[d] = queue[d]
      BY <2>1, <1>1 DEF TypeOK
    <3> QED BY <3>1 DEF Queued
  <2>2. CASE d = c
    <3>1. queue'[d] = Tail(q)
      BY <2>2, <1>1 DEF TypeOK
    <3>2. ASSUME NEW i \in DOMAIN Tail(q), Tail(q)[i] = w
          PROVE  i + 1 \in DOMAIN q /\ q[i + 1] = w
      BY <3>2, <1>2
    <3>3. ASSUME NEW i \in DOMAIN q, q[i] = w, w # Head(q)
          PROVE  i - 1 \in DOMAIN Tail(q) /\ Tail(q)[i - 1] = w
      BY <3>3, <1>2
    <3> QED BY <3>1, <3>2, <3>3, <2>2 DEF Queued
  <2> QED BY <2>1, <2>2
<1> QED BY <1>2, <1>3, <1>4, <1>5

-----------------------------------------------------------------------------
(* Types.                                                                  *)

LEMMA IssuedWrites ==
    ASSUME NEW u \in Users, NEW v \in Users
    PROVE  /\ <<Check(u, v)>> \in Seq(Writes)
           /\ <<Like(u, v)>> \in Seq(Writes)
           /\ <<Match(u, v)>> \in Seq(Writes)
           /\ <<Unselect(u, v), Match(u, v)>> \in Seq(Writes)
<1>1. /\ Check(u, v) \in Writes /\ Like(u, v) \in Writes
      /\ Match(u, v) \in Writes /\ Unselect(u, v) \in Writes
  BY DEF Check, Like, Match, Unselect, Writes, Kinds, Pairs
<1> QED BY <1>1

LEMMA RunningUsers ==
    ASSUME TypeOK, NEW c \in Calls, call[c].pc # "idle"
    PROVE  call[c].cur \in Users /\ call[c].sel \in Users
BY DEF TypeOK, Decision, Pairs

LEMMA TypeInit == Init => TypeOK
BY DEF Init, TypeOK, NoCall, PCs

\* The calls, as TypeOK has them.
CallsTyped ==
    /\ call \in [Calls -> [pc : PCs, cur : Users \cup {NoUser},
                           sel : Users \cup {NoUser}, tile : BOOLEAN,
                           offer : Users \cup {NoUser}]]
    /\ \A c \in Calls : call[c].pc # "idle" => Decision(c) \in Pairs

LEMMA GotoTyped ==
    ASSUME TypeOK, NEW c \in Calls, NEW s \in PCs, call[c].pc # "idle", Goto(c, s)
    PROVE  CallsTyped'
BY DEF TypeOK, Goto, CallsTyped, Decision

LEMMA FinishTyped ==
    ASSUME TypeOK, NEW c \in Calls, Finish(c)
    PROVE  CallsTyped'
BY DEF TypeOK, Finish, NoCall, PCs, CallsTyped, Decision

LEMMA BeginTyped ==
    ASSUME TypeOK, NEW c \in Calls, NEW s \in PCs, NEW u \in Users, NEW v \in Users,
           Begin(c, s, u, v)
    PROVE  CallsTyped'
<1>1. (s = "read" /\ <<u, v>> \in cache) \in BOOLEAN
  OBVIOUS
<1> QED  BY <1>1 DEF TypeOK, Begin, CallsTyped, Decision, Pairs

LEMMA GetUserTyped ==
    ASSUME TypeOK, NEW c \in Calls, GetUser(c)
    PROVE  CallsTyped'
<1>1. PICK w \in Users \cup {NoUser} :
         call' = [call EXCEPT ![c].pc = "idle", ![c].offer = w]
  BY DEF GetUser, Unchecked
<1> DEFINE r == [call[c] EXCEPT !.pc = "idle", !.offer = w]
           R == [pc : PCs, cur : Users \cup {NoUser}, sel : Users \cup {NoUser},
                 tile : BOOLEAN, offer : Users \cup {NoUser}]
<1>2. call[c] \in R /\ call \in [Calls -> R]
  BY DEF TypeOK
<1>3. r \in R /\ r.pc = "idle"
  BY <1>1, <1>2 DEF PCs
<1>4. call' = [call EXCEPT ![c] = r]
  BY <1>1
<1> HIDE DEF r, R
<1>5. /\ call' \in [Calls -> R] /\ call'[c].pc = "idle"
      /\ \A d \in Calls \ {c} : call'[d] = call[d]
  BY <1>2, <1>3, <1>4
<1> QED  BY <1>5 DEF TypeOK, CallsTyped, Decision, R

LEMMA TypeStep == TypeOK /\ [Next]_vars => TypeOK'
<1> SUFFICES ASSUME TypeOK, [Next]_vars PROVE TypeOK'
  OBVIOUS
<1>a. {"read", "check", "like", "match", "mirror", "pass", "list"} \subseteq PCs
  BY DEF PCs
<1>1. ASSUME NEW c \in Calls, NEW u \in Users, NEW v \in Users,
             ChooseUser(c, u, v)
      PROVE  TypeOK'
  <2>1. CallsTyped'
    BY <1>1, <1>a, BeginTyped DEF ChooseUser
  <2> QED  BY <1>1, <2>1 DEF ChooseUser, TypeOK, CallsTyped, lists, Pairs
<1>2. ASSUME NEW c \in Calls, NEW u \in Users, NEW v \in Users,
             PassUser(c, u, v)
      PROVE  TypeOK'
  <2>1. queue' \in [Calls -> Seq(Writes)]
    BY <1>2, QueueIssue, IssuedWrites DEF PassUser
  <2>2. CallsTyped'
    BY <1>2, <1>a, BeginTyped DEF PassUser
  <2> QED  BY <1>2, <2>1, <2>2 DEF PassUser, TypeOK, CallsTyped, lists, history
<1>3. ASSUME NEW c \in Calls, SelectUser(c)
      PROVE  TypeOK'
  <2>1. queue' \in [Calls -> Seq(Writes)]
    BY <1>3, QueueIssue, IssuedWrites, RunningUsers DEF SelectUser, SelectWrites
  <2>2. CallsTyped'
    BY <1>3, <1>a, GotoTyped DEF SelectUser
  <2>3. notified' \subseteq Pairs
    BY <1>3, RunningUsers DEF SelectUser, TypeOK, Pairs
  <2> QED  BY <1>3, <2>1, <2>2, <2>3 DEF SelectUser, TypeOK, CallsTyped, lists
<1>4. ASSUME NEW c \in Calls, MirrorMatch(c)
      PROVE  TypeOK'
  <2>1. queue' \in [Calls -> Seq(Writes)]
    BY <1>4, QueueIssue, IssuedWrites, RunningUsers DEF MirrorMatch, MirrorWrites
  <2>2. CallsTyped'
    BY <1>4, <1>a, GotoTyped DEF MirrorMatch
  <2> QED  BY <1>4, <2>1, <2>2 DEF MirrorMatch, TypeOK, CallsTyped, lists, history
<1>5. ASSUME NEW c \in Calls, MatchDone(c)
      PROVE  TypeOK'
  BY <1>5, FinishTyped DEF MatchDone, TypeOK, CallsTyped, lists, history
<1>6. ASSUME NEW c \in Calls, CheckUser(c)
      PROVE  TypeOK'
  <2>1. queue' \in [Calls -> Seq(Writes)]
    BY <1>6, QueueIssue, IssuedWrites, RunningUsers DEF CheckUser
  <2>2. CallsTyped'
    BY <1>6, <1>a, GotoTyped DEF CheckUser
  <2> QED  BY <1>6, <2>1, <2>2 DEF CheckUser, TypeOK, CallsTyped, lists, history
<1>7. ASSUME NEW c \in Calls, LikeUser(c)
      PROVE  TypeOK'
  <2>1. queue' \in [Calls -> Seq(Writes)]
    BY <1>7, QueueIssue, IssuedWrites, RunningUsers DEF LikeUser
  <2>2. CallsTyped'
    BY <1>7, <1>a, GotoTyped DEF LikeUser
  <2> QED  BY <1>7, <2>1, <2>2 DEF LikeUser, TypeOK, CallsTyped, lists, history
<1>8. ASSUME NEW c \in Calls, LikeDone(c)
      PROVE  TypeOK'
  <2>1. Decision(c) \in Pairs
    BY <1>8 DEF LikeDone, TypeOK
  <2> QED  BY <1>8, <2>1, FinishTyped DEF LikeDone, TypeOK, CallsTyped, lists
<1>9. ASSUME NEW c \in Calls, PassDone(c)
      PROVE  TypeOK'
  <2>1. CallsTyped'
    BY <1>9, <1>a, GotoTyped DEF PassDone
  <2> QED  BY <1>9, <2>1 DEF PassDone, TypeOK, CallsTyped, lists, history
<1>10. ASSUME NEW c \in Calls, GetUser(c)
       PROVE  TypeOK'
  BY <1>10, GetUserTyped DEF GetUser, TypeOK, CallsTyped, lists, history
<1>11. ASSUME NEW c \in Calls, Apply(c)
       PROVE  TypeOK'
  <2>1. queue' \in [Calls -> Seq(Writes)] /\ Head(queue[c]).doc \in Pairs
    BY <1>11, QueueApply DEF Writes
  <2> QED
    BY <1>11, <2>1 DEF Apply, TypeOK, history, Decision
<1>12. ASSUME NEW c \in Calls, Kill(c)
       PROVE  TypeOK'
  <2>1. Decision(c) \in Pairs
    BY <1>12 DEF Kill, TypeOK
  <2> QED  BY <1>12, <2>1, FinishTyped DEF Kill, TypeOK, CallsTyped, lists
<1>13. ASSUME NEW u \in Users, Refresh(u)
       PROVE  TypeOK'
  BY <1>13 DEF Refresh, TypeOK, lists, history, Decision
<1>14. CASE UNCHANGED vars
  BY <1>14 DEF vars, lists, history, TypeOK, Decision
<1> QED
  BY <1>1, <1>2, <1>3, <1>4, <1>5, <1>6, <1>7, <1>8, <1>9, <1>10, <1>11,
     <1>12, <1>13, <1>14
  DEF Next, Continue

\* Type correctness of the likes, the matches, the queues and the calls.
THEOREM TypeCorrect == Spec => []TypeOK
BY TypeInit, TypeStep, PTL DEF Spec

-----------------------------------------------------------------------------
(* What the helper actions do, in the terms of the invariants.             *)

LEMMA WriteForms ==
    ASSUME NEW w \in Writes
    PROVE  \E u, v \in Users :
              w \in {Check(u, v), Like(u, v), Unselect(u, v), Match(u, v)}
<1>1. PICK u \in Users, v \in Users : w.doc = <<u, v>>
  BY DEF Writes, Pairs
<1>2. w.kind \in Kinds /\ w = [kind |-> w.kind, doc |-> <<u, v>>]
  BY <1>1 DEF Writes
<1>3. w \in {Check(u, v), Like(v, u), Unselect(u, v), Match(u, v)}
  BY <1>2 DEF Kinds, Check, Like, Unselect, Match
<1> QED BY <1>3

LEMMA DistinctWrites ==
    ASSUME NEW a, NEW b, NEW u, NEW v
    PROVE  /\ (Like(a, b) = Like(u, v)) <=> (a = u /\ b = v)
           /\ (Match(a, b) = Match(u, v)) <=> (a = u /\ b = v)
           /\ (Unselect(a, b) = Unselect(u, v)) <=> (a = u /\ b = v)
           /\ Like(a, b) \notin {Check(u, v), Match(u, v), Unselect(u, v)}
           /\ Match(a, b) \notin {Check(u, v), Like(u, v), Unselect(u, v)}
           /\ Unselect(a, b) \notin {Check(u, v), Like(u, v), Match(u, v)}
BY DEF Check, Like, Match, Unselect

LEMMA IssueOne ==
    ASSUME TypeOK, NEW c \in Calls, NEW x, <<x>> \in Seq(Writes), Issue(c, <<x>>)
    PROVE  /\ Queued(c, x)'
           /\ \A w : Pending(w)' <=> Pending(w) \/ w = x
<1>1. \A d \in Calls : \A w : Queued(d, w)' <=>
         Queued(d, w) \/ (d = c /\ \E i \in 1 .. Len(<<x>>) : <<x>>[i] = w)
  BY QueueIssue
<1>2. \A w : (\E i \in 1 .. Len(<<x>>) : <<x>>[i] = w) <=> w = x
  OBVIOUS
<1>3. \A d \in Calls : \A w : Queued(d, w)' <=> Queued(d, w) \/ (d = c /\ w = x)
  BY <1>1, <1>2
<1> QED BY <1>3 DEF Pending

LEMMA IssueTwo ==
    ASSUME TypeOK, NEW c \in Calls, NEW x, NEW y, <<x, y>> \in Seq(Writes),
           Issue(c, <<x, y>>)
    PROVE  /\ Queued(c, x)' /\ Queued(c, y)'
           /\ \A w : Pending(w)' <=> Pending(w) \/ w = x \/ w = y
<1>1. \A d \in Calls : \A w : Queued(d, w)' <=>
         Queued(d, w) \/ (d = c /\ \E i \in 1 .. Len(<<x, y>>) : <<x, y>>[i] = w)
  BY QueueIssue
<1>2. \A w : (\E i \in 1 .. Len(<<x, y>>) : <<x, y>>[i] = w) <=> w = x \/ w = y
  <2>1. Len(<<x, y>>) = 2 /\ 1 .. 2 = {1, 2}
    OBVIOUS
  <2> QED BY <2>1
<1>3. \A d \in Calls : \A w :
         Queued(d, w)' <=> Queued(d, w) \/ (d = c /\ (w = x \/ w = y))
  BY <1>1, <1>2
<1> QED BY <1>3 DEF Pending

LEMMA GotoEffect ==
    ASSUME TypeOK, NEW c \in Calls, NEW s \in PCs, Goto(c, s)
    PROVE  /\ call'[c].pc = s /\ call'[c].tile = call[c].tile
           /\ Decision(c)' = Decision(c)
           /\ \A d \in Calls \ {c} :
                 call'[d] = call[d] /\ Decision(d)' = Decision(d)
BY DEF TypeOK, Goto, Decision

LEMMA FinishEffect ==
    ASSUME TypeOK, NEW c \in Calls, Finish(c)
    PROVE  /\ call'[c].pc = "idle"
           /\ \A d \in Calls \ {c} :
                 call'[d] = call[d] /\ Decision(d)' = Decision(d)
BY DEF TypeOK, Finish, NoCall, Decision

LEMMA BeginEffect ==
    ASSUME TypeOK, NEW c \in Calls, NEW s \in PCs, NEW u \in Users,
           NEW v \in Users, Begin(c, s, u, v)
    PROVE  /\ call'[c].pc = s
           /\ call'[c].tile <=> s = "read" /\ <<u, v>> \in cache
           /\ Decision(c)' = <<u, v>>
           /\ \A d \in Calls \ {c} :
                 call'[d] = call[d] /\ Decision(d)' = Decision(d)
BY DEF TypeOK, Begin, Decision

LEMMA GetUserEffect ==
    ASSUME TypeOK, NEW c \in Calls, GetUser(c)
    PROVE  /\ call'[c].pc = "idle"
           /\ \A d \in Calls \ {c} :
                 call'[d] = call[d] /\ Decision(d)' = Decision(d)
<1>1. PICK w : call' = [call EXCEPT ![c].pc = "idle", ![c].offer = w]
  BY DEF GetUser
<1> QED BY <1>1 DEF TypeOK, Decision

\* The four writes the server can find at the head of a queue.
Effect(c, u, v) ==
    \/ /\ Head(queue[c]) = Check(u, v)
       /\ checkedList' = checkedList \cup {<<u, v>>}
       /\ UNCHANGED <<selectedList, matchedList>>
    \/ /\ Head(queue[c]) = Like(u, v)
       /\ selectedList' = selectedList \cup {<<v, u>>}
       /\ UNCHANGED <<checkedList, matchedList>>
    \/ /\ Head(queue[c]) = Unselect(u, v)
       /\ selectedList' = selectedList \ {<<u, v>>}
       /\ UNCHANGED <<checkedList, matchedList>>
    \/ /\ Head(queue[c]) = Match(u, v)
       /\ matchedList' = matchedList \cup {<<u, v>>}
       /\ UNCHANGED <<checkedList, selectedList>>

LEMMA ApplyEffect ==
    ASSUME TypeOK, NEW c \in Calls, Apply(c)
    PROVE  \E u, v \in Users : Effect(c, u, v)
<1>1. PICK u \in Users, v \in Users : Head(queue[c]) \in
         {Check(u, v), Like(u, v), Unselect(u, v), Match(u, v)}
  BY QueueApply, WriteForms
<1> DEFINE w == Head(queue[c])
<1>2. /\ checkedList' = IF w.kind = "check" THEN checkedList \cup {w.doc}
                        ELSE checkedList
      /\ matchedList' = IF w.kind = "match" THEN matchedList \cup {w.doc}
                        ELSE matchedList
      /\ selectedList' = IF w.kind = "unselect" THEN selectedList \ {w.doc}
                         ELSE IF w.kind = "like" THEN selectedList \cup {w.doc}
                         ELSE selectedList
  BY DEF Apply
<1>3. CASE w = Check(u, v)
  BY <1>2, <1>3 DEF Effect, Check
<1>4. CASE w = Like(u, v)
  BY <1>2, <1>4 DEF Effect, Like
<1>5. CASE w = Unselect(u, v)
  BY <1>2, <1>5 DEF Effect, Unselect
<1>6. CASE w = Match(u, v)
  BY <1>2, <1>6 DEF Effect, Match
<1> QED BY <1>1, <1>3, <1>4, <1>5, <1>6

LEMMA ApplyPending ==
    ASSUME TypeOK, NEW c \in Calls, Apply(c)
    PROVE  /\ Pending(Head(queue[c]))
           /\ \A w : Pending(w)' => Pending(w)
           /\ \A w : Pending(w) => Pending(w)' \/ w = Head(queue[c])
BY QueueApply DEF Pending

-----------------------------------------------------------------------------
(* Consent: every trace of a like or a match, in the lists, the phones'    *)
(* caches, the queues and the running calls, comes from choices made.      *)

ConsentInv ==
    /\ \A p \in selectedList \cup cache : Rev(p) \in chosen
    /\ \A u, v \in Users : Pending(Like(u, v)) => <<u, v>> \in chosen
    /\ \A u, v \in Users :
          Pending(Match(u, v)) => <<u, v>> \in chosen /\ <<v, u>> \in chosen
    /\ \A c \in Calls :
          call[c].pc \in {"read", "check", "like", "match", "mirror"} =>
             Decision(c) \in chosen
    /\ \A c \in Calls :
          call[c].pc \in {"match", "mirror"} => Rev(Decision(c)) \in chosen
    /\ Consent

LEMMA ConsentInit == Init => ConsentInv
BY DEF Init, ConsentInv, Consent, Pending, Queued, NoCall

LEMMA ConsentStep == TypeOK /\ ConsentInv /\ [Next]_vars => ConsentInv'
<1> SUFFICES ASSUME TypeOK, ConsentInv, [Next]_vars PROVE ConsentInv'
  OBVIOUS
<1> USE DEF PCs
<1>1. ASSUME NEW c \in Calls, NEW u \in Users, NEW v \in Users,
             ChooseUser(c, u, v)
      PROVE  ConsentInv'
  <2>1. /\ chosen' = chosen \cup {<<u, v>>}
        /\ UNCHANGED <<lists, cache, queue, liked, notified, torn>>
    BY <1>1 DEF ChooseUser
  <2>2. /\ call'[c].pc = "read" /\ Decision(c)' = <<u, v>>
        /\ \A d \in Calls \ {c} :
              call'[d] = call[d] /\ Decision(d)' = Decision(d)
    BY <1>1, BeginEffect DEF ChooseUser
  <2>3. \A w : Pending(w)' <=> Pending(w)
    BY <2>1 DEF Pending, Queued
  <2>4. Consent'
    BY <2>1 DEF ConsentInv, Consent, Mutual, Rev, lists
  <2> QED
    BY <2>1, <2>2, <2>3, <2>4 DEF ConsentInv, Rev, lists
<1>2. ASSUME NEW c \in Calls, NEW u \in Users, NEW v \in Users,
             PassUser(c, u, v)
      PROVE  ConsentInv'
  <2>1. \A w : Pending(w)' <=> Pending(w) \/ w = Check(u, v)
    BY <1>2, IssueOne, IssuedWrites DEF PassUser
  <2> QED
    BY <1>2, <2>1, BeginEffect, DistinctWrites
    DEF PassUser, ConsentInv, Consent, Mutual, Rev, lists, history
<1>3. ASSUME NEW c \in Calls, SelectUser(c)
      PROVE  ConsentInv'
  <2>1. PICK u \in Users, v \in Users : u = call[c].cur /\ v = call[c].sel
    BY <1>3, RunningUsers DEF SelectUser
  <2>2. \A w : Pending(w)' <=> Pending(w) \/ w = Unselect(u, v) \/ w = Match(u, v)
    <3>1. Issue(c, <<Unselect(u, v), Match(u, v)>>)
      BY <1>3, <2>1 DEF SelectUser, SelectWrites
    <3> QED BY <3>1, IssueTwo, IssuedWrites
  <2>3. <<u, v>> \in chosen /\ <<v, u>> \in chosen /\ Decision(c) = <<u, v>>
    BY <1>3, <2>1 DEF SelectUser, FindsLike, ConsentInv, Decision, Rev
  <2>4. /\ call'[c].pc = "match" /\ Decision(c)' = <<u, v>>
        /\ \A d \in Calls \ {c} :
              call'[d] = call[d] /\ Decision(d)' = Decision(d)
    BY <1>3, <2>3, GotoEffect DEF SelectUser
  <2>5. /\ UNCHANGED <<selectedList, matchedList, cache, chosen>>
        /\ notified' = notified \cup {<<u, v>>}
    BY <1>3, <2>1 DEF SelectUser, lists
  <2>6. \A a, b \in Users :
           /\ Pending(Like(a, b))' => Pending(Like(a, b))
           /\ Pending(Match(a, b))' => Pending(Match(a, b)) \/ <<a, b>> = <<u, v>>
    BY <2>2, DistinctWrites
  <2>7. Consent'
    <3>1. Rev(<<u, v>>) = <<v, u>>
      BY DEF Rev
    <3>2. \A p \in matchedList' \cup notified' :
             p \in matchedList \cup notified \/ p = <<u, v>>
      BY <2>5
    <3> QED BY <3>1, <3>2, <2>3, <2>5 DEF ConsentInv, Consent, Mutual
  <2>8. ASSUME NEW d \in Calls
        PROVE  /\ call'[d].pc \in {"read", "check", "like", "match", "mirror"} =>
                    Decision(d)' \in chosen'
               /\ call'[d].pc \in {"match", "mirror"} => Rev(Decision(d))' \in chosen'
    <3>1. CASE d = c
      BY <3>1, <2>3, <2>4, <2>5 DEF Rev
    <3>2. CASE d # c
      BY <3>2, <2>4, <2>5 DEF ConsentInv, Rev
    <3> QED BY <3>1, <3>2
  <2> QED
    BY <2>3, <2>5, <2>6, <2>7, <2>8 DEF ConsentInv, Rev
<1>4. ASSUME NEW c \in Calls, MirrorMatch(c)
      PROVE  ConsentInv'
  <2> DEFINE u == call[c].cur
             v == call[c].sel
  <2>1. u \in Users /\ v \in Users
    BY <1>4, RunningUsers DEF MirrorMatch
  <2>2. \A w : Pending(w)' <=> Pending(w) \/ w = Match(v, u)
    BY <1>4, <2>1, IssueOne, IssuedWrites DEF MirrorMatch, MirrorWrites
  <2>3. <<u, v>> \in chosen /\ <<v, u>> \in chosen /\ Decision(c) = <<u, v>>
    BY <1>4 DEF MirrorMatch, ConsentInv, Decision, Rev
  <2>4. /\ call'[c].pc = "mirror" /\ Decision(c)' = <<u, v>>
        /\ \A d \in Calls \ {c} :
              call'[d] = call[d] /\ Decision(d)' = Decision(d)
    BY <1>4, <2>3, GotoEffect DEF MirrorMatch
  <2>5. UNCHANGED <<selectedList, matchedList, cache, chosen, notified>>
    BY <1>4 DEF MirrorMatch, lists, history
  <2>6. \A a, b \in Users :
           /\ Pending(Like(a, b))' => Pending(Like(a, b))
           /\ Pending(Match(a, b))' => Pending(Match(a, b)) \/ <<a, b>> = <<v, u>>
    BY <2>2, DistinctWrites
  <2>7. Consent'
    BY <2>5 DEF ConsentInv, Consent, Mutual, Rev
  <2> QED
    BY <2>3, <2>4, <2>5, <2>6, <2>7 DEF ConsentInv, Rev
<1>5. ASSUME NEW c \in Calls, MatchDone(c)
      PROVE  ConsentInv'
  BY <1>5, FinishEffect
  DEF MatchDone, ConsentInv, Consent, Mutual, Rev, lists, history, Pending, Queued
<1>6. ASSUME NEW c \in Calls, CheckUser(c)
      PROVE  ConsentInv'
  <2> DEFINE u == call[c].cur
             v == call[c].sel
  <2>1. u \in Users /\ v \in Users
    BY <1>6, RunningUsers DEF CheckUser
  <2>2. \A w : Pending(w)' <=> Pending(w) \/ w = Check(u, v)
    BY <1>6, <2>1, IssueOne, IssuedWrites DEF CheckUser
  <2> QED
    BY <1>6, <2>2, GotoEffect, DistinctWrites
    DEF CheckUser, ConsentInv, Consent, Mutual, Rev, lists, history
<1>7. ASSUME NEW c \in Calls, LikeUser(c)
      PROVE  ConsentInv'
  <2> DEFINE u == call[c].cur
             v == call[c].sel
  <2>1. u \in Users /\ v \in Users
    BY <1>7, RunningUsers DEF LikeUser
  <2>2. \A w : Pending(w)' <=> Pending(w) \/ w = Like(u, v)
    BY <1>7, <2>1, IssueOne, IssuedWrites DEF LikeUser
  <2>3. <<u, v>> \in chosen
    BY <1>7 DEF LikeUser, ConsentInv, Decision
  <2>4. /\ call'[c].pc = "like" /\ Decision(c)' = <<u, v>>
        /\ \A d \in Calls \ {c} :
              call'[d] = call[d] /\ Decision(d)' = Decision(d)
    BY <1>7, GotoEffect DEF LikeUser, Decision
  <2>5. UNCHANGED <<selectedList, matchedList, cache, chosen, notified>>
    BY <1>7 DEF LikeUser, lists, history
  <2>6. \A a, b \in Users :
           /\ Pending(Like(a, b))' => Pending(Like(a, b)) \/ <<a, b>> = <<u, v>>
           /\ Pending(Match(a, b))' => Pending(Match(a, b))
    BY <2>2, DistinctWrites
  <2>7. Consent'
    BY <2>5 DEF ConsentInv, Consent, Mutual, Rev
  <2> QED
    BY <2>3, <2>4, <2>5, <2>6, <2>7 DEF ConsentInv, Rev
<1>8. ASSUME NEW c \in Calls, LikeDone(c)
      PROVE  ConsentInv'
  BY <1>8, FinishEffect
  DEF LikeDone, ConsentInv, Consent, Mutual, Rev, lists, Pending, Queued
<1>9. ASSUME NEW c \in Calls, PassDone(c)
      PROVE  ConsentInv'
  BY <1>9, GotoEffect
  DEF PassDone, ConsentInv, Consent, Mutual, Rev, lists, history, Pending, Queued
<1>10. ASSUME NEW c \in Calls, GetUser(c)
       PROVE  ConsentInv'
  <2>1. UNCHANGED <<lists, cache, queue, history>>
    BY <1>10 DEF GetUser
  <2> QED
    BY <1>10, <2>1, GetUserEffect
    DEF ConsentInv, Consent, Mutual, Rev, lists, history, Pending, Queued
<1>11. ASSUME NEW c \in Calls, Apply(c)
       PROVE  ConsentInv'
  <2>1. PICK u \in Users, v \in Users : Effect(c, u, v)
    BY <1>11, ApplyEffect
  <2>2. UNCHANGED <<cache, call, history>>
    BY <1>11 DEF Apply
  <2>3. /\ Pending(Head(queue[c]))
        /\ \A w : Pending(w)' => Pending(w)
    BY <1>11, ApplyPending
  <2> QED
    BY <2>1, <2>2, <2>3
    DEF Effect, ConsentInv, Consent, Mutual, Rev, history, Decision
<1>12. ASSUME NEW c \in Calls, Kill(c)
       PROVE  ConsentInv'
  BY <1>12, FinishEffect
  DEF Kill, ConsentInv, Consent, Mutual, Rev, lists, Pending, Queued
<1>13. ASSUME NEW u \in Users, Refresh(u)
       PROVE  ConsentInv'
  BY <1>13
  DEF Refresh, ConsentInv, Consent, Mutual, Rev, lists, history, Pending, Queued,
      Decision
<1>14. CASE UNCHANGED vars
  BY <1>14
  DEF vars, lists, history, ConsentInv, Consent, Mutual, Rev, Pending, Queued,
      Decision
<1> QED
  BY <1>1, <1>2, <1>3, <1>4, <1>5, <1>6, <1>7, <1>8, <1>9, <1>10, <1>11,
     <1>12, <1>13, <1>14
  DEF Next, Continue

\* No match is recorded, or announced, unless both users chose each other.
THEOREM ConsentHolds == Spec => []Consent
<1>1. ConsentInv => Consent
  BY DEF ConsentInv
<1> QED
  BY <1>1, ConsentInit, ConsentStep, TypeCorrect, PTL DEF Spec

-----------------------------------------------------------------------------
(* Refinement: a step that applies a match write is a Show of the abstract *)
(* service, a call of chooseUser is a Choose, the rest stutters.           *)

LEMMA ServiceStep ==
    TypeOK /\ ConsentInv /\ [Next]_vars => [Service!Next]_<<chosen, matchedList>>
<1> SUFFICES ASSUME TypeOK, ConsentInv, [Next]_vars
             PROVE  [Service!Next]_<<chosen, matchedList>>
  OBVIOUS
<1>1. ASSUME NEW c \in Calls, NEW u \in Users, NEW v \in Users,
             ChooseUser(c, u, v)
      PROVE  Service!Choose(u, v)
  BY <1>1 DEF ChooseUser, Begin, Service!Choose, lists
<1>2. ASSUME NEW c \in Calls, Apply(c)
      PROVE  [Service!Next]_<<chosen, matchedList>>
  <2>1. PICK u \in Users, v \in Users : Effect(c, u, v)
    BY <1>2, ApplyEffect
  <2>2. UNCHANGED chosen /\ Pending(Head(queue[c]))
    BY <1>2, ApplyPending DEF Apply, history
  <2>3. CASE Head(queue[c]) = Match(u, v)
    <3>1. matchedList' = matchedList \cup {<<u, v>>}
      BY <2>1, <2>3, DistinctWrites DEF Effect
    <3>2. Service!Show(u, v)
      BY <2>2, <2>3, <3>1 DEF ConsentInv, Service!Show
    <3> QED BY <3>2 DEF Service!Next
  <2>4. CASE Head(queue[c]) # Match(u, v)
    BY <2>1, <2>2, <2>4 DEF Effect
  <2> QED BY <2>3, <2>4
<1>3. ASSUME NEW c \in Calls,
             \/ SelectUser(c) \/ MirrorMatch(c) \/ MatchDone(c)
             \/ CheckUser(c) \/ LikeUser(c) \/ LikeDone(c)
             \/ PassDone(c) \/ GetUser(c) \/ Kill(c)
             \/ \E u, v \in Users : PassUser(c, u, v)
             \/ \E u \in Users : Refresh(u)
      PROVE  UNCHANGED <<chosen, matchedList>>
  BY <1>3
  DEF SelectUser, MirrorMatch, MatchDone, CheckUser, LikeUser, LikeDone,
      PassDone, GetUser, Kill, PassUser, Refresh, lists, history
<1>4. ASSUME NEW u \in Users, Refresh(u)
      PROVE  UNCHANGED <<chosen, matchedList>>
  BY <1>4 DEF Refresh, lists, history
<1>5. CASE UNCHANGED vars
  BY <1>5 DEF vars, lists, history
<1> QED
  BY <1>1, <1>2, <1>3, <1>4, <1>5 DEF Next, Continue, Service!Next

\* MatchMaking implements the abstract service of module Matches.
THEOREM MatchMakingRefines == Spec => MatchesRefined
<1>1. Init => Service!Init
  BY DEF Init, Service!Init
<1>2. QED
  BY <1>1, ServiceStep, ConsentInit, ConsentStep, TypeCorrect, PTL
  DEF Spec, MatchesRefined, Service!Spec

-----------------------------------------------------------------------------
(* No like is lost: what replaces a like outlives the process replacing it *)

KeptInv ==
    /\ \A u, v \in Users : Pending(Unselect(u, v)) => Met(<<u, v>>)
    /\ \A c \in Calls : call[c].pc = "like" =>
          \/ Queued(c, Like(call[c].cur, call[c].sel))
          \/ Kept(<<call[c].cur, call[c].sel>>)
    /\ \A c \in Calls : call[c].pc = "match" =>
          \/ Queued(c, Match(call[c].cur, call[c].sel))
          \/ <<call[c].cur, call[c].sel>> \in matchedList
    /\ \A u, v \in Users : <<u, v>> \in liked => Kept(<<u, v>>)
    /\ \A u, v \in Users : <<u, v>> \in cache =>
          <<u, v>> \in selectedList \/ Met(<<u, v>>)
    /\ \A c \in Calls : call[c].tile /\ call[c].pc = "read" =>
          \/ <<call[c].cur, call[c].sel>> \in cache
          \/ Met(<<call[c].cur, call[c].sel>>)
    /\ \A c \in Calls : call[c].tile /\ call[c].pc \in {"check", "like"} =>
          Met(<<call[c].cur, call[c].sel>>)
    /\ \A u, v \in Users : Met(<<u, v>>) => Mirrored(<<u, v>>)

LEMMA MetPair ==
    ASSUME NEW u, NEW v
    PROVE  /\ Met(<<u, v>>) <=> <<u, v>> \in matchedList \/ Pending(Match(u, v))
           /\ Kept(<<u, v>>) <=> <<v, u>> \in selectedList \/ Met(<<v, u>>)
           /\ Mirrored(<<u, v>>) <=>
                 \/ Met(<<v, u>>)
                 \/ <<u, v>> \in torn
                 \/ \E c \in Calls :
                       call[c].pc = "match" /\ call[c].cur = u /\ call[c].sel = v
BY DEF Met, Kept, Mirrored, Rev, Decision

\* Outside Apply the lists stay and the queues only grow.
LEMMA QuietStep ==
    ASSUME TypeOK, [Next]_vars, \A c \in Calls : ~Apply(c)
    PROVE  /\ UNCHANGED lists
           /\ \A d \in Calls : \A w : Queued(d, w) => Queued(d, w)'
<1>1. ASSUME UNCHANGED queue
      PROVE  \A d \in Calls : \A w : Queued(d, w) => Queued(d, w)'
  BY <1>1 DEF Queued
<1>2. ASSUME NEW c \in Calls, NEW ws \in Seq(Writes), Issue(c, ws)
      PROVE  \A d \in Calls : \A w : Queued(d, w) => Queued(d, w)'
  BY <1>2, QueueIssue
<1>3. ASSUME NEW c \in Calls, NEW u \in Users, NEW v \in Users, PassUser(c, u, v)
      PROVE  \A d \in Calls : \A w : Queued(d, w) => Queued(d, w)'
  BY <1>2, <1>3, IssuedWrites DEF PassUser
<1>4. ASSUME NEW c \in Calls,
             SelectUser(c) \/ MirrorMatch(c) \/ CheckUser(c) \/ LikeUser(c)
      PROVE  \A d \in Calls : \A w : Queued(d, w) => Queued(d, w)'
  <2>1. call[c].cur \in Users /\ call[c].sel \in Users
    BY <1>4, RunningUsers DEF SelectUser, MirrorMatch, CheckUser, LikeUser
  <2> QED
    BY <1>2, <1>4, <2>1, IssuedWrites
    DEF SelectUser, SelectWrites, MirrorMatch, MirrorWrites, CheckUser, LikeUser
<1>5. UNCHANGED lists
  BY DEF Next, Continue, ChooseUser, SelectUser, MirrorMatch, MatchDone,
     CheckUser, LikeUser, LikeDone, PassUser, PassDone, GetUser, Kill, Refresh,
     vars
<1> QED
  BY <1>1, <1>3, <1>4, <1>5
  DEF Next, Continue, ChooseUser, MatchDone, LikeDone, PassDone, GetUser, Kill,
      Refresh, vars

\* Matches, kept likes and queued likes and matches are not lost by any step.
LEMMA Stability ==
    ASSUME TypeOK, KeptInv, [Next]_vars
    PROVE  /\ matchedList \subseteq matchedList'
           /\ \A c \in Calls, u, v \in Users : Queued(c, Match(u, v)) =>
                 Queued(c, Match(u, v))' \/ <<u, v>> \in matchedList'
           /\ \A u, v \in Users : Met(<<u, v>>) => Met(<<u, v>>)'
           /\ \A u, v \in Users : Kept(<<u, v>>) => Kept(<<u, v>>)'
           /\ \A c \in Calls, u, v \in Users : Queued(c, Like(u, v)) =>
                 Queued(c, Like(u, v))' \/ Kept(<<u, v>>)'
<1>1. CASE \A c \in Calls : ~Apply(c)
  <2>1. /\ UNCHANGED <<selectedList, matchedList>>
        /\ \A d \in Calls : \A w : Queued(d, w) => Queued(d, w)'
    BY <1>1, QuietStep DEF lists
  <2>2. \A w : Pending(w) => Pending(w)'
    BY <2>1 DEF Pending
  <2> QED BY <2>1, <2>2 DEF Met, Kept, Rev
<1>2. ASSUME NEW c \in Calls, Apply(c)
      PROVE  /\ matchedList \subseteq matchedList'
             /\ \A d \in Calls, u, v \in Users : Queued(d, Match(u, v)) =>
                   Queued(d, Match(u, v))' \/ <<u, v>> \in matchedList'
             /\ \A u, v \in Users : Met(<<u, v>>) => Met(<<u, v>>)'
             /\ \A u, v \in Users : Kept(<<u, v>>) => Kept(<<u, v>>)'
             /\ \A d \in Calls, u, v \in Users : Queued(d, Like(u, v)) =>
                   Queued(d, Like(u, v))' \/ Kept(<<u, v>>)'
  <2>1. PICK a \in Users, b \in Users : Effect(c, a, b)
    BY <1>2, ApplyEffect
  <2>2. /\ \A d \in Calls : \A w :
              Queued(d, w) => Queued(d, w)' \/ w = Head(queue[c])
        /\ \A w : Pending(w) => Pending(w)' \/ w = Head(queue[c])
        /\ Pending(Head(queue[c]))
    BY <1>2, QueueApply, ApplyPending
  <2>3. matchedList \subseteq matchedList'
    BY <2>1 DEF Effect
  <2>4. ASSUME NEW u \in Users, NEW v \in Users, Match(u, v) = Head(queue[c])
        PROVE  <<u, v>> \in matchedList'
    BY <2>1, <2>4, DistinctWrites DEF Effect
  <2>5. ASSUME NEW u \in Users, NEW v \in Users, Met(<<u, v>>)
        PROVE  Met(<<u, v>>)'
    BY <2>2, <2>3, <2>4, <2>5 DEF Met
  <2>6. ASSUME NEW u \in Users, NEW v \in Users, Like(u, v) = Head(queue[c])
        PROVE  <<v, u>> \in selectedList'
    BY <2>1, <2>6, DistinctWrites DEF Effect
  <2>7. ASSUME NEW u \in Users, NEW v \in Users, Kept(<<u, v>>)
        PROVE  Kept(<<u, v>>)'
    <3>1. CASE Met(<<v, u>>)
      BY <2>5, <3>1 DEF Kept, Rev
    <3>2. CASE <<v, u>> \in selectedList /\ <<v, u>> \notin selectedList'
      <4>1. Head(queue[c]) = Unselect(v, u)
        BY <2>1, <3>2 DEF Effect
      <4>2. Met(<<v, u>>)
        BY <4>1, <2>2 DEF KeptInv
      <4> QED BY <4>2, <2>5 DEF Kept, Rev
    <3>3. CASE <<v, u>> \in selectedList'
      BY <3>3 DEF Kept, Rev
    <3> QED BY <2>7, <3>1, <3>2, <3>3 DEF Kept, Rev
  <2> QED BY <2>2, <2>3, <2>4, <2>5, <2>6, <2>7 DEF Kept, Rev
<1> QED BY <1>1, <1>2

LEMMA KeptInit == Init => KeptInv
BY DEF Init, KeptInv, Pending, Queued, NoCall, Met, Kept, Mirrored

LEMMA KeptStep == TypeOK /\ KeptInv /\ [Next]_vars => KeptInv'
<1> SUFFICES ASSUME TypeOK, KeptInv, [Next]_vars PROVE KeptInv'
  OBVIOUS
<1> USE DEF PCs
<1>a. /\ matchedList \subseteq matchedList'
      /\ \A c \in Calls, u, v \in Users : Queued(c, Match(u, v)) =>
            Queued(c, Match(u, v))' \/ <<u, v>> \in matchedList'
      /\ \A u, v \in Users : Met(<<u, v>>) => Met(<<u, v>>)'
      /\ \A u, v \in Users : Kept(<<u, v>>) => Kept(<<u, v>>)'
      /\ \A c \in Calls, u, v \in Users : Queued(c, Like(u, v)) =>
            Queued(c, Like(u, v))' \/ Kept(<<u, v>>)'
  BY Stability
<1>b. \A c \in Calls : call[c].pc # "idle" =>
         call[c].cur \in Users /\ call[c].sel \in Users
  BY RunningUsers
<1>1. ASSUME NEW c \in Calls, NEW u \in Users, NEW v \in Users,
             ChooseUser(c, u, v)
      PROVE  KeptInv'
  <2>1. UNCHANGED <<selectedList, matchedList, cache, queue, liked, torn>>
    BY <1>1 DEF ChooseUser, lists
  <2>2. /\ call'[c].pc = "read" /\ call'[c].cur = u /\ call'[c].sel = v
        /\ call'[c].tile => <<u, v>> \in cache
        /\ call[c].pc = "idle"
        /\ \A d \in Calls \ {c} : call'[d] = call[d]
    BY <1>1 DEF ChooseUser, Begin, TypeOK
  <2> QED
    BY <2>1, <2>2
    DEF KeptInv, Met, Kept, Mirrored, Pending, Queued, Rev, Decision
<1>2. ASSUME NEW c \in Calls, NEW u \in Users, NEW v \in Users,
             PassUser(c, u, v)
      PROVE  KeptInv'
  <2>1. UNCHANGED <<selectedList, matchedList, cache, liked, torn>>
    BY <1>2 DEF PassUser, lists, history
  <2>2. /\ call'[c].pc = "pass" /\ call[c].pc = "idle"
        /\ \A d \in Calls \ {c} : call'[d] = call[d]
    BY <1>2 DEF PassUser, Begin, TypeOK
  <2>3. \A w : Pending(w)' <=> Pending(w) \/ w = Check(u, v)
    BY <1>2, IssueOne, IssuedWrites DEF PassUser
  <2>4. \A a, b \in Users :
           /\ Pending(Match(a, b))' <=> Pending(Match(a, b))
           /\ Pending(Unselect(a, b))' <=> Pending(Unselect(a, b))
    BY <2>3, DistinctWrites
  <2>5. \A a, b \in Users :
           /\ Met(<<a, b>>)' <=> Met(<<a, b>>)
           /\ Mirrored(<<a, b>>) => Mirrored(<<a, b>>)'
    BY <2>1, <2>2, <2>4 DEF Met, Mirrored, Rev, Decision
  <2> QED
    BY <1>a, <1>b, <2>1, <2>2, <2>4, <2>5 DEF KeptInv
<1>3. ASSUME NEW c \in Calls, SelectUser(c)
      PROVE  KeptInv'
  <2>1. PICK u \in Users, v \in Users : u = call[c].cur /\ v = call[c].sel
    BY <1>3, <1>b DEF SelectUser
  <2>2. UNCHANGED <<selectedList, matchedList, cache, liked, torn>>
    BY <1>3 DEF SelectUser, lists
  <2>3. /\ call'[c].pc = "match" /\ call'[c].cur = u /\ call'[c].sel = v
        /\ call[c].pc = "read"
        /\ \A d \in Calls \ {c} : call'[d] = call[d]
    BY <1>3, <2>1 DEF SelectUser, Goto, TypeOK
  <2>4. /\ Queued(c, Match(u, v))'
        /\ \A w : Pending(w)' <=> Pending(w) \/ w = Unselect(u, v) \/ w = Match(u, v)
    BY <1>3, <2>1, IssueTwo, IssuedWrites DEF SelectUser, SelectWrites
  <2>5. \A a, b \in Users :
           /\ Pending(Match(a, b))' <=> Pending(Match(a, b)) \/ <<a, b>> = <<u, v>>
           /\ Pending(Unselect(a, b))' <=>
                 Pending(Unselect(a, b)) \/ <<a, b>> = <<u, v>>
    BY <2>4, DistinctWrites
  <2>6. \A a, b \in Users : Met(<<a, b>>)' <=> Met(<<a, b>>) \/ <<a, b>> = <<u, v>>
    BY <2>2, <2>5 DEF Met
  <2>7. ASSUME NEW a \in Users, NEW b \in Users,
               Mirrored(<<a, b>>) \/ <<a, b>> = <<u, v>>
        PROVE  Mirrored(<<a, b>>)'
    BY <2>2, <2>3, <2>6, <2>7 DEF Mirrored, Rev, Decision
  <2>8. \A a, b \in Users :
           /\ Pending(Unselect(a, b))' => Met(<<a, b>>)'
           /\ Met(<<a, b>>)' => Mirrored(<<a, b>>)'
    BY <2>5, <2>6, <2>7 DEF KeptInv
  <2>9. \A d \in Calls \ {c} :
           /\ call[d].pc = "like" =>
                 \/ Queued(d, Like(call[d].cur, call[d].sel))'
                 \/ Kept(<<call[d].cur, call[d].sel>>)'
           /\ call[d].pc = "match" =>
                 \/ Queued(d, Match(call[d].cur, call[d].sel))'
                 \/ <<call[d].cur, call[d].sel>> \in matchedList'
    BY <1>a, <1>b, <2>3 DEF KeptInv
  <2>10. \A d \in Calls \ {c} :
           /\ call[d].tile /\ call[d].pc = "read" =>
                 \/ <<call[d].cur, call[d].sel>> \in cache'
                 \/ Met(<<call[d].cur, call[d].sel>>)'
           /\ call[d].tile /\ call[d].pc \in {"check", "like"} =>
                 Met(<<call[d].cur, call[d].sel>>)'
    BY <1>a, <1>b, <2>2, <2>3 DEF KeptInv
  <2>11. \A a, b \in Users :
           /\ <<a, b>> \in liked' => Kept(<<a, b>>)'
           /\ <<a, b>> \in cache' => <<a, b>> \in selectedList' \/ Met(<<a, b>>)'
    BY <1>a, <2>2 DEF KeptInv
  <2> QED
    BY <2>3, <2>4, <2>8, <2>9, <2>10, <2>11 DEF KeptInv
<1>4. ASSUME NEW c \in Calls, MirrorMatch(c)
      PROVE  KeptInv'
  <2>1. PICK u \in Users, v \in Users : u = call[c].cur /\ v = call[c].sel
    BY <1>4, <1>b DEF MirrorMatch
  <2>2. UNCHANGED <<selectedList, matchedList, cache, liked, torn>>
    BY <1>4 DEF MirrorMatch, lists, history
  <2>3. /\ call'[c].pc = "mirror" /\ call[c].pc = "match" /\ queue[c] = << >>
        /\ \A d \in Calls \ {c} : call'[d] = call[d]
    BY <1>4 DEF MirrorMatch, Goto, Acked, TypeOK
  <2>4. \A w : Pending(w)' <=> Pending(w) \/ w = Match(v, u)
    BY <1>4, <2>1, IssueOne, IssuedWrites DEF MirrorMatch, MirrorWrites
  <2>5. \A a, b \in Users :
           /\ Pending(Match(a, b))' <=> Pending(Match(a, b)) \/ <<a, b>> = <<v, u>>
           /\ Pending(Unselect(a, b))' <=> Pending(Unselect(a, b))
    BY <2>4, DistinctWrites
  <2>6. \A a, b \in Users : Met(<<a, b>>)' <=> Met(<<a, b>>) \/ <<a, b>> = <<v, u>>
    BY <2>2, <2>5 DEF Met
  <2>7. <<u, v>> \in matchedList
    BY <2>1, <2>3 DEF KeptInv, Queued
  <2>8. ASSUME NEW a \in Users, NEW b \in Users,
               Mirrored(<<a, b>>) \/ <<a, b>> = <<v, u>>
        PROVE  Mirrored(<<a, b>>)'
    <3>1. CASE <<a, b>> = <<v, u>>
      BY <3>1, <2>2, <2>7, MetPair DEF Met, Mirrored, Rev
    <3>2. CASE <<a, b>> = <<u, v>>
      BY <3>2, <2>6 DEF Mirrored, Rev
    <3>3. CASE <<a, b>> # <<u, v>> /\ Mirrored(<<a, b>>)
      BY <3>3, <2>1, <2>2, <2>3, <2>6 DEF Mirrored, Rev, Decision
    <3> QED BY <2>8, <3>1, <3>2, <3>3
  <2>9. \A a, b \in Users :
           /\ Pending(Unselect(a, b))' => Met(<<a, b>>)'
           /\ Met(<<a, b>>)' => Mirrored(<<a, b>>)'
    BY <1>a, <2>5, <2>6, <2>8 DEF KeptInv
  <2>10. \A d \in Calls \ {c} :
           /\ call[d].pc = "like" =>
                 \/ Queued(d, Like(call[d].cur, call[d].sel))'
                 \/ Kept(<<call[d].cur, call[d].sel>>)'
           /\ call[d].pc = "match" =>
                 \/ Queued(d, Match(call[d].cur, call[d].sel))'
                 \/ <<call[d].cur, call[d].sel>> \in matchedList'
    BY <1>a, <1>b, <2>3 DEF KeptInv
  <2>11. \A d \in Calls \ {c} :
           /\ call[d].tile /\ call[d].pc = "read" =>
                 \/ <<call[d].cur, call[d].sel>> \in cache'
                 \/ Met(<<call[d].cur, call[d].sel>>)'
           /\ call[d].tile /\ call[d].pc \in {"check", "like"} =>
                 Met(<<call[d].cur, call[d].sel>>)'
    BY <1>a, <1>b, <2>2, <2>3 DEF KeptInv
  <2>12. \A a, b \in Users :
           /\ <<a, b>> \in liked' => Kept(<<a, b>>)'
           /\ <<a, b>> \in cache' => <<a, b>> \in selectedList' \/ Met(<<a, b>>)'
    BY <1>a, <2>2 DEF KeptInv
  <2> QED
    BY <2>3, <2>9, <2>10, <2>11, <2>12 DEF KeptInv
<1>5. ASSUME NEW c \in Calls,
             MatchDone(c) \/ PassDone(c) \/ GetUser(c)
      PROVE  KeptInv'
  <2>1. UNCHANGED <<selectedList, matchedList, cache, queue, liked, torn>>
    BY <1>5 DEF MatchDone, PassDone, GetUser, lists, history
  <2>2. /\ call'[c].pc \in {"idle", "list"} /\ call[c].pc # "match"
        /\ \A d \in Calls \ {c} : call'[d] = call[d]
    BY <1>5, GotoEffect, FinishEffect, GetUserEffect
    DEF MatchDone, PassDone, GetUser
  <2> QED
    BY <2>1, <2>2
    DEF KeptInv, Met, Kept, Mirrored, Pending, Queued, Rev, Decision
<1>6. ASSUME NEW c \in Calls, CheckUser(c)
      PROVE  KeptInv'
  <2>1. PICK u \in Users, v \in Users : u = call[c].cur /\ v = call[c].sel
    BY <1>6, <1>b DEF CheckUser
  <2>2. UNCHANGED <<selectedList, matchedList, cache, liked, torn>>
    BY <1>6 DEF CheckUser, lists, history
  <2>3. /\ call'[c].pc = "check" /\ call'[c].cur = u /\ call'[c].sel = v
        /\ call[c].pc = "read" /\ call'[c].tile = call[c].tile
        /\ \A d \in Calls \ {c} : call'[d] = call[d]
    BY <1>6, <2>1 DEF CheckUser, Goto, TypeOK
  <2>4. \A w : Pending(w)' <=> Pending(w) \/ w = Check(u, v)
    BY <1>6, <2>1, IssueOne, IssuedWrites DEF CheckUser
  <2>5. \A a, b \in Users :
           /\ Pending(Match(a, b))' <=> Pending(Match(a, b))
           /\ Pending(Unselect(a, b))' <=> Pending(Unselect(a, b))
    BY <2>4, DistinctWrites
  <2>6. \A a, b \in Users :
           /\ Met(<<a, b>>)' <=> Met(<<a, b>>)
           /\ Mirrored(<<a, b>>) => Mirrored(<<a, b>>)'
    BY <2>2, <2>3, <2>5 DEF Met, Mirrored, Rev, Decision
  <2>7. call[c].tile => Met(<<u, v>>)
    BY <1>6, <2>1, <2>3 DEF CheckUser, MissesLike, Decision, KeptInv
  <2> QED
    BY <1>a, <1>b, <2>2, <2>3, <2>5, <2>6, <2>7 DEF KeptInv
<1>7. ASSUME NEW c \in Calls, LikeUser(c)
      PROVE  KeptInv'
  <2>1. PICK u \in Users, v \in Users : u = call[c].cur /\ v = call[c].sel
    BY <1>7, <1>b DEF LikeUser
  <2>2. UNCHANGED <<selectedList, matchedList, cache, liked, torn>>
    BY <1>7 DEF LikeUser, lists, history
  <2>3. /\ call'[c].pc = "like" /\ call'[c].cur = u /\ call'[c].sel = v
        /\ call[c].pc = "check" /\ call'[c].tile = call[c].tile
        /\ \A d \in Calls \ {c} : call'[d] = call[d]
    BY <1>7, <2>1 DEF LikeUser, Goto, TypeOK
  <2>4. /\ Queued(c, Like(u, v))'
        /\ \A w : Pending(w)' <=> Pending(w) \/ w = Like(u, v)
    BY <1>7, <2>1, IssueOne, IssuedWrites DEF LikeUser
  <2>5. \A a, b \in Users :
           /\ Pending(Match(a, b))' <=> Pending(Match(a, b))
           /\ Pending(Unselect(a, b))' <=> Pending(Unselect(a, b))
    BY <2>4, DistinctWrites
  <2>6. \A a, b \in Users :
           /\ Met(<<a, b>>)' <=> Met(<<a, b>>)
           /\ Mirrored(<<a, b>>) => Mirrored(<<a, b>>)'
    BY <2>2, <2>3, <2>5 DEF Met, Mirrored, Rev, Decision
  <2>7. call[c].tile => Met(<<u, v>>)
    BY <2>1, <2>3 DEF KeptInv
  <2> QED
    BY <1>a, <1>b, <2>2, <2>3, <2>4, <2>5, <2>6, <2>7 DEF KeptInv
<1>8. ASSUME NEW c \in Calls, LikeDone(c)
      PROVE  KeptInv'
  <2>1. PICK u \in Users, v \in Users : u = call[c].cur /\ v = call[c].sel
    BY <1>8, <1>b DEF LikeDone
  <2>2. /\ UNCHANGED <<selectedList, matchedList, cache, queue, torn>>
        /\ liked' = liked \cup {<<u, v>>}
    BY <1>8, <2>1 DEF LikeDone, lists, Decision
  <2>3. /\ call'[c].pc = "idle" /\ call[c].pc = "like" /\ queue[c] = << >>
        /\ \A d \in Calls \ {c} : call'[d] = call[d]
    BY <1>8, FinishEffect DEF LikeDone, Acked
  <2>4. Kept(<<u, v>>)
    BY <2>1, <2>3 DEF KeptInv, Queued
  <2> QED
    BY <2>2, <2>3, <2>4
    DEF KeptInv, Met, Kept, Mirrored, Pending, Queued, Rev, Decision
<1>9. ASSUME NEW c \in Calls, Apply(c)
      PROVE  KeptInv'
  <2>1. PICK a \in Users, b \in Users : Effect(c, a, b)
    BY <1>9, ApplyEffect
  <2>2. UNCHANGED <<cache, call, liked, torn>>
    BY <1>9 DEF Apply, history
  <2>3. /\ \A w : Pending(w)' => Pending(w)
        /\ Pending(Head(queue[c]))
    BY <1>9, ApplyPending
  <2>4. \A u, v \in Users : Met(<<u, v>>)' => Met(<<u, v>>)
    BY <2>1, <2>3 DEF Effect, Met
  <2>5. \A u, v \in Users : Mirrored(<<u, v>>) => Mirrored(<<u, v>>)'
    BY <1>a, <2>2 DEF Mirrored, Rev, Decision
  <2>6. ASSUME NEW u \in Users, NEW v \in Users, <<u, v>> \in cache
        PROVE  <<u, v>> \in selectedList' \/ Met(<<u, v>>)'
    <3>1. CASE Met(<<u, v>>)
      BY <3>1, <1>a
    <3>2. CASE <<u, v>> \in selectedList
      <4>1. Kept(<<v, u>>)'
        BY <3>2, <1>a DEF Kept, Rev
      <4> QED BY <4>1 DEF Kept, Rev
    <3> QED BY <3>1, <3>2, <2>6 DEF KeptInv
  <2> QED
    BY <1>a, <1>b, <2>2, <2>3, <2>4, <2>5, <2>6 DEF KeptInv
<1>10. ASSUME NEW c \in Calls, Kill(c)
       PROVE  KeptInv'
  <2>1. UNCHANGED <<selectedList, matchedList, cache, queue, liked>>
    BY <1>10 DEF Kill, lists
  <2>2. /\ call'[c].pc = "idle"
        /\ torn \subseteq torn'
        /\ call[c].pc = "match" => Decision(c) \in torn'
        /\ \A d \in Calls \ {c} : call'[d] = call[d]
    BY <1>10, FinishEffect DEF Kill
  <2>3. \A a, b \in Users :
           /\ Met(<<a, b>>)' <=> Met(<<a, b>>)
           /\ Kept(<<a, b>>)' <=> Kept(<<a, b>>)
           /\ Mirrored(<<a, b>>) => Mirrored(<<a, b>>)'
    BY <2>1, <2>2 DEF Met, Kept, Mirrored, Pending, Queued, Rev, Decision
  <2> QED
    BY <1>a, <1>b, <2>1, <2>2, <2>3 DEF KeptInv, Pending, Queued
<1>11. ASSUME NEW r \in Users, Refresh(r)
       PROVE  KeptInv'
  <2>1. /\ UNCHANGED <<selectedList, matchedList, call, queue, liked, torn>>
        /\ cache' \subseteq cache \cup selectedList
        /\ \A p \in cache : p \in cache' \/ p \notin selectedList
    BY <1>11 DEF Refresh, lists, history
  <2>2. \A a, b \in Users :
           /\ Met(<<a, b>>)' <=> Met(<<a, b>>)
           /\ Kept(<<a, b>>)' <=> Kept(<<a, b>>)
           /\ Mirrored(<<a, b>>)' <=> Mirrored(<<a, b>>)
    BY <2>1 DEF Met, Kept, Mirrored, Pending, Queued, Rev, Decision
  <2> QED
    BY <1>b, <2>1, <2>2 DEF KeptInv, Pending, Queued
<1>12. CASE UNCHANGED vars
  BY <1>12
  DEF vars, lists, history, KeptInv, Met, Kept, Mirrored, Pending, Queued, Rev,
      Decision
<1> QED
  BY <1>1, <1>2, <1>3, <1>4, <1>5, <1>6, <1>7, <1>8, <1>9, <1>10, <1>11, <1>12
  DEF Next, Continue

LEMMA KeptInvariant == Spec => [](TypeOK /\ KeptInv)
BY TypeInit, TypeStep, KeptInit, KeptStep, PTL DEF Spec

\* An acknowledged like is open or has become a match.
THEOREM LikesAreKept == Spec => []LikeKept
<1>1. TypeOK /\ KeptInv => LikeKept
  <2> SUFFICES ASSUME TypeOK, KeptInv, NEW p \in liked PROVE Kept(p)
    BY DEF LikeKept
  <2>1. PICK u \in Users, v \in Users : p = <<u, v>>
    BY DEF TypeOK, Pairs
  <2> QED BY <2>1 DEF KeptInv
<1> QED BY <1>1, KeptInvariant, PTL

\* A call made from a tile answers false only to a pair already met.
THEOREM TilesAnswerMatch == Spec => []TileAnswersMatch
<1>1. KeptInv => TileAnswersMatch
  BY DEF KeptInv, TileAnswersMatch, Decision
<1> QED BY <1>1, KeptInvariant, PTL

\* A one-sided match is being mirrored, or its process died.
THEOREM OneSidedIsExplained == Spec => []OneSidedExplained
<1>1. TypeOK /\ KeptInv => OneSidedExplained
  <2> SUFFICES ASSUME TypeOK, KeptInv, NEW p \in matchedList PROVE Mirrored(p)
    BY DEF OneSidedExplained
  <2>1. PICK u \in Users, v \in Users : p = <<u, v>>
    BY DEF TypeOK, Pairs
  <2> QED BY <2>1, MetPair DEF KeptInv
<1> QED BY <1>1, KeptInvariant, PTL

-----------------------------------------------------------------------------
(* Decisions: a process that goes on after an awaited set in checkedList   *)
(* finds it there, whatever other processes write meanwhile.               *)

DecidedBy(c) ==
    /\ call[c].pc \in {"check", "pass"} =>
          \/ Decision(c) \in checkedList
          \/ Queued(c, Check(call[c].cur, call[c].sel))
    /\ call[c].pc = "list" => Decision(c) \in checkedList
    /\ call[c].offer # NoUser => call[c].offer \notin {call[c].cur, call[c].sel}

DecidedInv ==
    /\ LikeImpliesChecked
    /\ \A u, v \in Users : Pending(Like(u, v)) => <<u, v>> \in checkedList
    /\ \A c \in Calls : DecidedBy(c)

LEMMA DecidedInit == Init => DecidedInv
BY DEF Init, DecidedInv, DecidedBy, LikeImpliesChecked, Pending, Queued, NoCall

\* What the other processes do leaves a decision recorded, or on its way.
LEMMA StaysDecided ==
    ASSUME NEW d \in Calls, DecidedBy(d), call'[d] = call[d],
           checkedList \subseteq checkedList',
           \A u, v : Queued(d, Check(u, v)) =>
                        Queued(d, Check(u, v))' \/ <<u, v>> \in checkedList'
    PROVE  DecidedBy(d)'
BY DEF DecidedBy, Decision

\* Nothing is queued by a process whose writes are all acknowledged.
LEMMA AckedQueue ==
    ASSUME NEW c \in Calls, Acked(c), NEW w
    PROVE  ~Queued(c, w)
BY DEF Acked, Queued

LEMMA DecidedStep == TypeOK /\ DecidedInv /\ [Next]_vars => DecidedInv'
<1> SUFFICES ASSUME TypeOK, DecidedInv, [Next]_vars PROVE DecidedInv'
  OBVIOUS
<1> USE DEF PCs
<1>a. /\ LikeImpliesChecked
      /\ \A u, v \in Users : Pending(Like(u, v)) => <<u, v>> \in checkedList
      /\ \A c \in Calls : DecidedBy(c)
  BY DEF DecidedInv
\* A step of one call that changes no list and queues no like.
<1>b. ASSUME NEW c \in Calls, UNCHANGED <<lists, cache>>,
             \A u, v \in Users : Pending(Like(u, v))' => Pending(Like(u, v)),
             \A d \in Calls \ {c} : call'[d] = call[d],
             \A d \in Calls \ {c} : \A w : Queued(d, w) => Queued(d, w)',
             DecidedBy(c)'
      PROVE  DecidedInv'
  <2>1. LikeImpliesChecked'
    BY <1>a, <1>b DEF LikeImpliesChecked, lists
  <2>2. ASSUME NEW d \in Calls PROVE DecidedBy(d)'
    <3>1. CASE d # c
      BY <1>a, <1>b, <3>1, StaysDecided DEF lists
    <3> QED BY <1>b, <3>1
  <2> QED BY <1>a, <1>b, <2>1, <2>2 DEF DecidedInv, lists
<1>c. ASSUME UNCHANGED queue
      PROVE  /\ \A w : Pending(w)' <=> Pending(w)
             /\ \A d \in Calls : \A w : Queued(d, w)' <=> Queued(d, w)
  BY <1>c DEF Pending, Queued
<1>d. ASSUME NEW c \in Calls, NEW ws \in Seq(Writes), Issue(c, ws)
      PROVE  \A d \in Calls : \A w : Queued(d, w) => Queued(d, w)'
  BY <1>d, QueueIssue
<1>1. ASSUME NEW c \in Calls, NEW u \in Users, NEW v \in Users, ChooseUser(c, u, v)
      PROVE  DecidedInv'
  <2>1. UNCHANGED <<lists, cache, queue>>
    BY <1>1 DEF ChooseUser
  <2>2. /\ \A d \in Calls \ {c} : call'[d] = call[d]
        /\ call'[c].pc = "read" /\ call'[c].offer = NoUser
    BY <1>1 DEF ChooseUser, Begin, TypeOK
  <2>3. DecidedBy(c)'
    BY <2>2 DEF DecidedBy
  <2> QED BY <1>b, <1>c, <2>1, <2>2, <2>3
<1>2. ASSUME NEW c \in Calls, NEW u \in Users, NEW v \in Users, PassUser(c, u, v)
      PROVE  DecidedInv'
  <2>1. UNCHANGED <<lists, cache>> /\ Issue(c, <<Check(u, v)>>)
    BY <1>2 DEF PassUser
  <2>2. /\ \A d \in Calls \ {c} : call'[d] = call[d]
        /\ call'[c].pc = "pass" /\ call'[c].offer = NoUser
        /\ call'[c].cur = u /\ call'[c].sel = v
    BY <1>2 DEF PassUser, Begin, TypeOK
  <2>3. Queued(c, Check(u, v))' /\ \A w : Pending(w)' <=> Pending(w) \/ w = Check(u, v)
    BY <2>1, IssueOne, IssuedWrites
  <2>4. DecidedBy(c)'
    BY <2>2, <2>3 DEF DecidedBy
  <2>5. \A d \in Calls : \A w : Queued(d, w) => Queued(d, w)'
    BY <1>d, <2>1, IssuedWrites
  <2>6. \A a, b \in Users : Pending(Like(a, b))' => Pending(Like(a, b))
    BY <2>3, DistinctWrites
  <2> QED BY <1>b, <2>1, <2>2, <2>3, <2>4, <2>5, <2>6
<1>3. ASSUME NEW c \in Calls, SelectUser(c)
      PROVE  DecidedInv'
  <2>1. PICK u \in Users, v \in Users : u = call[c].cur /\ v = call[c].sel
    BY <1>3, RunningUsers DEF SelectUser
  <2>2. UNCHANGED <<lists, cache>> /\ Issue(c, <<Unselect(u, v), Match(u, v)>>)
    BY <1>3, <2>1 DEF SelectUser, SelectWrites
  <2>3. /\ \A d \in Calls \ {c} : call'[d] = call[d]
        /\ call'[c].pc = "match" /\ call'[c].offer = call[c].offer
        /\ call'[c].cur = call[c].cur /\ call'[c].sel = call[c].sel
    BY <1>3 DEF SelectUser, Goto, TypeOK
  <2>4. \A w : Pending(w)' <=> Pending(w) \/ w = Unselect(u, v) \/ w = Match(u, v)
    BY <2>2, IssueTwo, IssuedWrites
  <2>5. DecidedBy(c)'
    BY <1>a, <2>3 DEF DecidedBy
  <2>6. \A d \in Calls : \A w : Queued(d, w) => Queued(d, w)'
    BY <1>d, <2>2, IssuedWrites
  <2>7. \A a, b \in Users : Pending(Like(a, b))' => Pending(Like(a, b))
    BY <2>4, DistinctWrites
  <2> QED BY <1>b, <2>2, <2>3, <2>4, <2>5, <2>6, <2>7
<1>4. ASSUME NEW c \in Calls, MirrorMatch(c)
      PROVE  DecidedInv'
  <2>1. PICK u \in Users, v \in Users : u = call[c].cur /\ v = call[c].sel
    BY <1>4, RunningUsers DEF MirrorMatch
  <2>2. UNCHANGED <<lists, cache>> /\ Issue(c, <<Match(v, u)>>)
    BY <1>4, <2>1 DEF MirrorMatch, MirrorWrites
  <2>3. /\ \A d \in Calls \ {c} : call'[d] = call[d]
        /\ call'[c].pc = "mirror" /\ call'[c].offer = call[c].offer
        /\ call'[c].cur = call[c].cur /\ call'[c].sel = call[c].sel
    BY <1>4 DEF MirrorMatch, Goto, TypeOK
  <2>4. \A w : Pending(w)' <=> Pending(w) \/ w = Match(v, u)
    BY <2>2, IssueOne, IssuedWrites
  <2>5. DecidedBy(c)'
    BY <1>a, <2>3 DEF DecidedBy
  <2>6. \A d \in Calls : \A w : Queued(d, w) => Queued(d, w)'
    BY <1>d, <2>2, IssuedWrites
  <2>7. \A a, b \in Users : Pending(Like(a, b))' => Pending(Like(a, b))
    BY <2>4, DistinctWrites
  <2> QED BY <1>b, <2>2, <2>3, <2>4, <2>5, <2>6, <2>7
<1>5. ASSUME NEW c \in Calls, MatchDone(c) \/ LikeDone(c) \/ Kill(c)
      PROVE  DecidedInv'
  <2>1. UNCHANGED <<lists, cache, queue>> /\ Finish(c)
    BY <1>5 DEF MatchDone, LikeDone, Kill, history
  <2>2. /\ \A d \in Calls \ {c} : call'[d] = call[d]
        /\ call'[c].pc = "idle" /\ call'[c].offer = NoUser
    BY <2>1 DEF Finish, NoCall, TypeOK
  <2>3. DecidedBy(c)'
    BY <2>2 DEF DecidedBy
  <2> QED BY <1>b, <1>c, <2>1, <2>2, <2>3
<1>6. ASSUME NEW c \in Calls, CheckUser(c)
      PROVE  DecidedInv'
  <2>1. PICK u \in Users, v \in Users : u = call[c].cur /\ v = call[c].sel
    BY <1>6, RunningUsers DEF CheckUser
  <2>2. UNCHANGED <<lists, cache>> /\ Issue(c, <<Check(u, v)>>)
    BY <1>6, <2>1 DEF CheckUser
  <2>3. /\ \A d \in Calls \ {c} : call'[d] = call[d]
        /\ call'[c].pc = "check" /\ call'[c].offer = call[c].offer
        /\ call'[c].cur = call[c].cur /\ call'[c].sel = call[c].sel
    BY <1>6 DEF CheckUser, Goto, TypeOK
  <2>4. Queued(c, Check(u, v))' /\ \A w : Pending(w)' <=> Pending(w) \/ w = Check(u, v)
    BY <2>2, IssueOne, IssuedWrites
  <2>5. DecidedBy(c)'
    BY <1>a, <2>1, <2>3, <2>4 DEF DecidedBy
  <2>6. \A d \in Calls : \A w : Queued(d, w) => Queued(d, w)'
    BY <1>d, <2>2, IssuedWrites
  <2>7. \A a, b \in Users : Pending(Like(a, b))' => Pending(Like(a, b))
    BY <2>4, DistinctWrites
  <2> QED BY <1>b, <2>2, <2>3, <2>4, <2>5, <2>6, <2>7
\* The set in checkedList is acknowledged before the like is issued.
<1>7. ASSUME NEW c \in Calls, LikeUser(c)
      PROVE  DecidedInv'
  <2>1. PICK u \in Users, v \in Users : u = call[c].cur /\ v = call[c].sel
    BY <1>7, RunningUsers DEF LikeUser
  <2>2. UNCHANGED <<lists, cache>> /\ Issue(c, <<Like(u, v)>>)
    BY <1>7, <2>1 DEF LikeUser
  <2>3. /\ \A d \in Calls \ {c} : call'[d] = call[d]
        /\ call'[c].pc = "like" /\ call'[c].offer = call[c].offer
        /\ call'[c].cur = call[c].cur /\ call'[c].sel = call[c].sel
    BY <1>7 DEF LikeUser, Goto, TypeOK
  <2>4. \A w : Pending(w)' <=> Pending(w) \/ w = Like(u, v)
    BY <2>2, IssueOne, IssuedWrites
  <2>5. <<u, v>> \in checkedList
    BY <1>7, <1>a, <2>1, AckedQueue DEF LikeUser, DecidedBy, Decision
  <2>6. LikeImpliesChecked'
    BY <1>a, <2>2 DEF LikeImpliesChecked, lists
  <2>7. \A a, b \in Users : Pending(Like(a, b))' => <<a, b>> \in checkedList'
    BY <1>a, <2>2, <2>4, <2>5, DistinctWrites DEF lists
  <2>8. ASSUME NEW d \in Calls PROVE DecidedBy(d)'
    <3>1. CASE d = c
      BY <1>a, <2>3, <3>1 DEF DecidedBy
    <3>2. CASE d # c
      BY <1>a, <1>d, <2>2, <2>3, <3>2, IssuedWrites, StaysDecided DEF lists
    <3> QED BY <3>1, <3>2
  <2> QED BY <2>6, <2>7, <2>8 DEF DecidedInv
<1>8. ASSUME NEW c \in Calls, PassDone(c)
      PROVE  DecidedInv'
  <2>1. UNCHANGED <<lists, cache, queue>>
    BY <1>8 DEF PassDone
  <2>2. /\ \A d \in Calls \ {c} : call'[d] = call[d]
        /\ call'[c].pc = "list" /\ call'[c].offer = call[c].offer
        /\ call'[c].cur = call[c].cur /\ call'[c].sel = call[c].sel
    BY <1>8 DEF PassDone, Goto, TypeOK
  <2>3. Decision(c) \in checkedList
    BY <1>8, <1>a, AckedQueue DEF PassDone, DecidedBy
  <2>4. DecidedBy(c)'
    BY <1>a, <2>1, <2>2, <2>3 DEF DecidedBy, Decision, lists
  <2> QED BY <1>b, <1>c, <2>1, <2>2, <2>4
\* The read finds the decision, and the offer is somebody it does not find.
<1>9. ASSUME NEW c \in Calls, GetUser(c)
      PROVE  DecidedInv'
  <2>1. UNCHANGED <<lists, cache, queue>> /\ Decision(c) \in checkedList
    BY <1>9, <1>a DEF GetUser, DecidedBy
  <2>2. PICK w \in Unchecked(call[c].cur) \cup {NoUser} :
           call' = [call EXCEPT ![c].pc = "idle", ![c].offer = w]
    BY <1>9 DEF GetUser
  <2>3. w # NoUser => w \notin {call[c].cur, call[c].sel}
    BY <2>1, <2>2 DEF Unchecked, Decision
  <2>4. /\ \A d \in Calls \ {c} : call'[d] = call[d]
        /\ call'[c].pc = "idle" /\ call'[c].offer = w
        /\ call'[c].cur = call[c].cur /\ call'[c].sel = call[c].sel
    BY <2>2 DEF TypeOK
  <2>5. DecidedBy(c)'
    BY <2>3, <2>4 DEF DecidedBy
  <2> QED BY <1>b, <1>c, <2>1, <2>4, <2>5
<1>10. ASSUME NEW c \in Calls, Apply(c)
       PROVE  DecidedInv'
  <2>1. UNCHANGED <<cache, call>>
    BY <1>10 DEF Apply
  <2>2. checkedList \subseteq checkedList'
    BY <1>10 DEF Apply
  <2>3. /\ \A w : Pending(w)' => Pending(w)
        /\ Pending(Head(queue[c]))
        /\ \A d \in Calls : \A w :
              Queued(d, w) => Queued(d, w)' \/ w = Head(queue[c])
    BY <1>10, ApplyPending, QueueApply
  <2>4. \A u, v : Head(queue[c]) = Check(u, v) => <<u, v>> \in checkedList'
    BY <1>10 DEF Apply, Check
  <2>5. \A p \in selectedList' : p \in selectedList \/ Rev(p) \in checkedList
    <3>1. PICK u \in Users, v \in Users : Effect(c, u, v)
      BY <1>10, ApplyEffect
    <3>2. CASE Head(queue[c]) = Like(u, v)
      <4>1. selectedList' = selectedList \cup {<<v, u>>}
        BY <3>1, <3>2, DistinctWrites DEF Effect
      <4>2. Rev(<<v, u>>) = <<u, v>>
        BY DEF Rev
      <4> QED BY <1>a, <2>3, <3>2, <4>1, <4>2
    <3>3. CASE Head(queue[c]) # Like(u, v)
      BY <3>1, <3>3 DEF Effect
    <3> QED BY <3>2, <3>3
  <2>6. LikeImpliesChecked'
    BY <1>a, <2>1, <2>2, <2>5 DEF LikeImpliesChecked
  <2>7. ASSUME NEW d \in Calls PROVE DecidedBy(d)'
    BY <1>a, <2>1, <2>2, <2>3, <2>4, StaysDecided
  <2> QED BY <1>a, <2>2, <2>3, <2>6, <2>7 DEF DecidedInv
<1>11. ASSUME NEW r \in Users, Refresh(r)
       PROVE  DecidedInv'
  <2>1. /\ UNCHANGED <<lists, call, queue>>
        /\ cache' \subseteq cache \cup selectedList
    BY <1>11 DEF Refresh
  <2>2. LikeImpliesChecked'
    BY <1>a, <2>1 DEF LikeImpliesChecked, lists
  <2> QED
    BY <1>a, <1>c, <2>1, <2>2, StaysDecided DEF DecidedInv, lists
<1>12. CASE UNCHANGED vars
  <2>1. UNCHANGED <<lists, cache, call, queue>>
    BY <1>12 DEF vars
  <2>2. LikeImpliesChecked'
    BY <1>a, <2>1 DEF LikeImpliesChecked, lists
  <2> QED
    BY <1>a, <1>c, <2>1, <2>2, StaysDecided DEF DecidedInv, lists
<1> QED
  BY <1>1, <1>2, <1>3, <1>4, <1>5, <1>6, <1>7, <1>8, <1>9, <1>10, <1>11, <1>12
  DEF Next, Continue

LEMMA DecidedInvariant == Spec => [](TypeOK /\ DecidedInv)
BY TypeInit, TypeStep, DecidedInit, DecidedStep, PTL DEF Spec

\* Who likes somebody has decided about them: getUser cannot offer them again.
THEOREM LikesAreChecked == Spec => []LikeImpliesChecked
<1>1. DecidedInv => LikeImpliesChecked
  BY DEF DecidedInv
<1> QED BY <1>1, DecidedInvariant, PTL

\* The user offered after passUser is neither the passed one nor the asking
\* one, however many users are left to offer (firestore_database.dart:245-252).
THEOREM PassOffersAnother == Spec => []PassMovesOn
<1>1. DecidedInv => PassMovesOn
  BY DEF DecidedInv, DecidedBy, PassMovesOn
<1> QED BY <1>1, DecidedInvariant, PTL

=============================================================================
