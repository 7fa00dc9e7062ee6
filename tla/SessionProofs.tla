--------------------------- MODULE SessionProofs ---------------------------
(***************************************************************************)
(* Proofs about Session for any set of accounts, any bound on the reads,   *)
(* and any wizard that begins with the gender and asks for nothing twice.  *)
(***************************************************************************)
EXTENDS Session, SequenceTheorems, TLAPS

-----------------------------------------------------------------------------
(***************************************************************************)
(* The inductive invariant.                                                *)
(***************************************************************************)
Entered == Fields \cup {"home"}

\* The screens before the sign-in lie below those after it, the code is only
\* entered for an account, and a start-up has nothing else under way.
Routes ==
    /\ \A k \in DOMAIN stack : stack[k] = "start" => Len(stack) = 1
    /\ \A k, l \in DOMAIN stack :
          k < l /\ stack[k] \in Entered => stack[l] \in Entered
    /\ \A k \in DOMAIN stack : stack[k] = "confirm" => number \in Accounts
    /\ Top = "start" => number = NoUser /\ incoming = {}

\* A read whose page is still there is that of the account that signed in; a
\* read saw a document that is still there, and complete.
Reading ==
    \A r \in reads :
        /\ r.live => /\ Top = "confirm" /\ r.uid = number /\ signedIn # NoUser
                     /\ signedIn = number \/ stray # {}
        /\ Registered(r.seen) => Registered(docs[r.uid])
        /\ r.uid \in stray \/ r.seen \in {NoDoc, Fields}

\* Every screen after the sign-in, not only the top one, has a model, and no
\* sign-in of another account is still to come but a stray one.
Owner ==
    \A k \in DOMAIN stack : stack[k] \in Entered =>
        /\ currentUser # NoUser
        /\ \/ stray # {}
           \/ /\ currentUser.uid = signedIn
              /\ number = signedIn \/ (number = NoUser /\ incoming = {})

\* Home, and the save that leads there, come after the document.
Stored ==
    /\ saving => Top = "photo" /\ (Registered(docs[currentUser.uid]) \/ stray # {})
    /\ \A k \in DOMAIN stack :
          stack[k] = "home" => Registered(docs[currentUser.uid]) \/ stray # {}

\* A page of the wizard, wherever it is in the stack, comes after the fields
\* of the pages before it.
Wizard ==
    \A k \in DOMAIN stack : \A i \in DOMAIN Forms :
        stack[k] \in {Forms[i], "photo"} =>
            \/ currentUser.uid \in stray
            \/ \A j \in DOMAIN Forms :
                  j < i \/ stack[k] = "photo" => Forms[j] \in currentUser.filled

\* A sign-in is only followed by a sign-out in the queue when the location
\* that its event would need is gone.
Undelivered ==
    signedIn = NoUser /\ location =>
        \A i \in DOMAIN events : events[i] = NoUser

SessionInv ==
    /\ TypeOK /\ Routes /\ Reading /\ Owner /\ Stored /\ Wizard
    /\ CompleteProfiles /\ Undelivered /\ SignedOutForgotten

-----------------------------------------------------------------------------
(* The screens and the wizard's fields.                                    *)

LEMMA FormFacts ==
    /\ Len(Forms) \in Nat \ {0} /\ DOMAIN Forms = 1 .. Len(Forms)
    /\ Forms[1] = "gender" /\ 1 \in DOMAIN Forms
    /\ \A i \in DOMAIN Forms : Forms[i] \in Fields /\ Forms[i] # "photo"
    /\ "photo" \in Fields
    /\ \A f \in Fields : f # "photo" => \E i \in DOMAIN Forms : f = Forms[i]
    /\ \A s \in Entered : s \notin {"start", "blank", "landing", "login", "confirm"}
    /\ "home" \notin Fields
    /\ Entered \subseteq Screens
    /\ \A m : FirstScreen(m) \in {"home", "gender"}
    /\ \A m : FirstScreen(m) = "home" => "gender" \in m.filled
<1> DEFINE S == {"gender", "name", "birth", "languages", "height"}
<1>1. Forms \in Seq(S) /\ Forms # << >> /\ Forms[1] = "gender"
  BY FormsAssumption
<1>2. /\ Len(Forms) \in Nat \ {0} /\ DOMAIN Forms = 1 .. Len(Forms)
      /\ \A i \in DOMAIN Forms : Forms[i] \in S
  BY <1>1
<1>3. \A i \in DOMAIN Forms : Forms[i] # "photo" /\ Forms[i] # "home"
                              /\ Forms[i] \notin {"start", "blank", "landing",
                                                  "login", "confirm"}
  BY <1>2
<1>4. 1 \in DOMAIN Forms
  BY <1>2
<1>. QED  BY <1>1, <1>2, <1>3, <1>4
          DEF Fields, Entered, Screens, FirstScreen, HasGender

-----------------------------------------------------------------------------
(* The stack.                                                              *)

LEMMA TopRoute ==
    ASSUME TypeOK
    PROVE  /\ stack \in Seq(Screens) /\ Len(stack) \in Nat \ {0}
           /\ DOMAIN stack = 1 .. Len(stack)
           /\ Len(stack) \in DOMAIN stack /\ stack[Len(stack)] = Top
<1>1. stack \in Seq(Screens) /\ stack # << >>
  BY DEF TypeOK
<1>. QED  BY <1>1 DEF Top

LEMMA OneRoute ==
    ASSUME NEW s \in Screens, stack' = <<s>>
    PROVE  /\ stack' \in Seq(Screens) /\ stack' # << >>
           /\ Len(stack') = 1 /\ DOMAIN stack' = {1}
           /\ stack'[1] = s /\ Top' = s
BY DEF Top

LEMMA PushRoute ==
    ASSUME TypeOK, NEW s \in Screens, Push(s)
    PROVE  /\ stack' \in Seq(Screens) /\ stack' # << >>
           /\ Len(stack') = Len(stack) + 1
           /\ DOMAIN stack' = 1 .. Len(stack) + 1
           /\ \A k \in DOMAIN stack : stack'[k] = stack[k]
           /\ stack'[Len(stack) + 1] = s /\ Top' = s
<1>1. stack \in Seq(Screens) /\ stack' = Append(stack, s)
  BY DEF TypeOK, Push
<1>. QED  BY <1>1 DEF Top

LEMMA PopRoute ==
    ASSUME TypeOK, Len(stack) > 1, stack' = Popped
    PROVE  /\ stack' \in Seq(Screens) /\ stack' # << >>
           /\ Len(stack') = Len(stack) - 1
           /\ DOMAIN stack' = 1 .. Len(stack) - 1
           /\ \A k \in DOMAIN stack' : k \in DOMAIN stack /\ stack'[k] = stack[k]
           /\ Len(stack) - 1 \in DOMAIN stack
           /\ Top' = stack[Len(stack) - 1]
<1>1. stack \in Seq(Screens) /\ Len(stack) \in Nat \ {0}
      /\ DOMAIN stack = 1 .. Len(stack)
  BY TopRoute
<1>2. /\ Popped \in Seq(Screens) /\ Len(Popped) = Len(stack) - 1
      /\ \A k \in 1 .. Len(stack) - 1 : Popped[k] = stack[k]
  BY <1>1 DEF Popped
<1>3. DOMAIN stack' = 1 .. Len(stack) - 1
  BY <1>2
<1>4. Top' = stack[Len(stack) - 1]
  BY <1>1, <1>2, <1>3 DEF Top
<1>5. stack' # << >>
  BY <1>1, <1>2
<1>. QED  BY <1>1, <1>2, <1>3, <1>4, <1>5

LEMMA ReplaceRoute ==
    ASSUME TypeOK, NEW s \in Screens, stack' = Append(Popped, s)
    PROVE  /\ stack' \in Seq(Screens) /\ stack' # << >>
           /\ Len(stack') = Len(stack) /\ DOMAIN stack' = DOMAIN stack
           /\ \A k \in DOMAIN stack : k < Len(stack) => stack'[k] = stack[k]
           /\ stack'[Len(stack)] = s /\ Top' = s
<1>1. stack \in Seq(Screens) /\ Len(stack) \in Nat \ {0}
      /\ DOMAIN stack = 1 .. Len(stack)
  BY TopRoute
<1>2. /\ Popped \in Seq(Screens) /\ Len(Popped) = Len(stack) - 1
      /\ \A k \in 1 .. Len(stack) - 1 : Popped[k] = stack[k]
  BY <1>1 DEF Popped
<1>3. /\ stack' \in Seq(Screens) /\ stack' # << >> /\ Len(stack') = Len(stack)
      /\ \A k \in 1 .. Len(stack) - 1 : stack'[k] = stack[k]
      /\ stack'[Len(stack)] = s
  <2> DEFINE p == Popped
  <2>1. /\ Append(p, s) \in Seq(Screens) /\ Append(p, s) # << >>
        /\ Len(Append(p, s)) = Len(p) + 1
        /\ \A k \in 1 .. Len(p) : Append(p, s)[k] = p[k]
        /\ Append(p, s)[Len(p) + 1] = s
    BY <1>2, AppendProperties
  <2>2. Len(p) + 1 = Len(stack) /\ \A k \in 1 .. Len(p) : p[k] = stack[k]
    BY <1>1, <1>2
  <2>. HIDE DEF p
  <2>3. stack' = Append(p, s) /\ Len(p) = Len(stack) - 1
    BY <1>2 DEF p
  <2>. QED  BY <2>1, <2>2, <2>3
<1>4. DOMAIN stack' = DOMAIN stack
  BY <1>1, <1>3, LenProperties
<1>5. \A k \in DOMAIN stack : k < Len(stack) => stack'[k] = stack[k]
  BY <1>1, <1>3
<1>6. Top' = s
  BY <1>3 DEF Top
<1>. QED  BY <1>3, <1>4, <1>5, <1>6

\* A screen after the sign-in has an own model.
LEMMA OwnModel ==
    ASSUME TypeOK, Owner, Top \in Entered
    PROVE  /\ currentUser \in Models /\ currentUser.uid \in Accounts
           /\ currentUser.filled \in SUBSET Fields
<1>1. currentUser \in Models
  BY TopRoute DEF Owner, TypeOK
<1>. QED  BY <1>1 DEF Models

-----------------------------------------------------------------------------
(* What a read of the profile may do when it answers, and that the         *)
(* documents and the strays only grow.                                     *)

LEMMA ReadEffect ==
    ASSUME SessionInv, NEW r \in reads, ReadDone(r)
    PROVE  \/ /\ reads' = reads \ {r}
              /\ UNCHANGED <<docs, stack, currentUser, stray, incoming>>
           \/ \E m \in Models :
                 /\ m.uid = r.uid /\ Continue(r, m)
                 /\ HasGender(m) => Registered(docs[r.uid])
                 /\ \/ UNCHANGED docs
                    \/ /\ r.uid \in stray /\ Registered(docs[r.uid])
                       /\ docs' = [docs EXCEPT ![r.uid] = m.filled]
<1>1. /\ r.uid \in Accounts /\ r.seen \in (SUBSET Fields) \cup {NoDoc}
      /\ docs \in [Accounts -> (SUBSET Fields) \cup {NoDoc}]
      /\ docs[r.uid] \in (SUBSET Fields) \cup {NoDoc}
  BY DEF SessionInv, TypeOK, Reads
<1>2. PICK doc \in {r.seen, docs[r.uid]} :
          \/ /\ Registered(doc)
             /\ Continue(r, LoadedModel(r.uid, doc))
             /\ docs' = IF r.live /\ ~HasGender(currentUser')
                        THEN [docs EXCEPT ![r.uid] = doc] ELSE docs
          \/ /\ ~Registered(doc) /\ location
             /\ Continue(r, FreshModel(r.uid))
             /\ UNCHANGED docs
          \/ /\ ~Registered(doc) /\ ~location
             /\ reads' = reads \ {r}
             /\ UNCHANGED <<docs, stack, currentUser, stray, incoming>>
  BY DEF ReadDone
<1>3. CASE /\ Registered(doc)
           /\ Continue(r, LoadedModel(r.uid, doc))
           /\ docs' = IF r.live /\ ~HasGender(currentUser')
                      THEN [docs EXCEPT ![r.uid] = doc] ELSE docs
  <2> DEFINE m == LoadedModel(r.uid, doc)
  <2>1. doc \in SUBSET Fields
    BY <1>1, <1>2, <1>3 DEF Registered
  <2>2. m \in Models /\ m.uid = r.uid /\ m.filled = doc
    BY <1>1, <2>1 DEF Models, LoadedModel
  <2>3. Registered(docs[r.uid])
    BY <1>2, <1>3 DEF SessionInv, Reading
  <2>4. currentUser' = m
    BY <1>3 DEF Continue
  <2>5. r.uid \in stray \/ doc = Fields
    BY <1>1, <1>2, <1>3 DEF SessionInv, Reading, CompleteProfiles, Registered
  <2>6. doc = Fields => HasGender(m)
    BY <2>2, FormFacts DEF HasGender
  <2>7. UNCHANGED docs \/ (r.uid \in stray /\ docs' = [docs EXCEPT ![r.uid] = m.filled])
    BY <1>3, <2>2, <2>4, <2>5, <2>6
  <2>. QED  BY <1>3, <2>2, <2>3, <2>7
<1>4. CASE ~Registered(doc) /\ Continue(r, FreshModel(r.uid)) /\ UNCHANGED docs
  <2>1. /\ FreshModel(r.uid) \in Models /\ FreshModel(r.uid).uid = r.uid
        /\ FreshModel(r.uid).filled = {}
    BY <1>1 DEF FreshModel, Models
  <2>. QED  BY <1>4, <2>1 DEF HasGender
<1>. QED  BY <1>2, <1>3, <1>4

\* No document disappears, and none of an account that never strayed changes
\* but by the wizard's last page.
LEMMA DocsGrow ==
    ASSUME SessionInv, [Next]_vars
    PROVE  /\ stray \subseteq stray'
           /\ \A a \in Accounts : Registered(docs[a]) => Registered(docs'[a])
           /\ \A a \in Accounts \ stray :
                 SubmitPhoto \/ docs'[a] = docs[a]
<1>1. docs \in [Accounts -> (SUBSET Fields) \cup {NoDoc}]
  BY DEF SessionInv, TypeOK
<1>2. CASE UNCHANGED <<docs, stray>>
  BY <1>2
<1>3. ASSUME NEW a \in Accounts, SignInArrives(a)
      PROVE  stray \subseteq stray' /\ UNCHANGED docs
  BY <1>3 DEF SignInArrives
<1>4. ASSUME NEW r \in reads, ReadDone(r)
      PROVE  /\ stray \subseteq stray'
             /\ \/ UNCHANGED docs
                \/ \E fs \in SUBSET Fields :
                      r.uid \in stray /\ docs' = [docs EXCEPT ![r.uid] = fs]
  BY <1>4, ReadEffect DEF Continue, Models
<1>5. ASSUME SubmitPhoto
      PROVE  /\ UNCHANGED stray
             /\ \A a \in Accounts : Registered(docs[a]) => Registered(docs'[a])
  <2>1. Top = "photo" /\ docs' = [docs EXCEPT ![currentUser.uid] = currentUser.filled]
    BY <1>5 DEF SubmitPhoto
  <2>2. currentUser.filled \in SUBSET Fields
    BY <2>1, OwnModel, FormFacts DEF SessionInv, Entered
  <2>. QED  BY <1>5, <2>1, <2>2, <1>1, NoneAssumption DEF SubmitPhoto, Registered
<1>6. ASSUME \/ StartUp \/ AuthEvent \/ LoginRedirect
             \/ \E a \in Accounts : CodeSent(a) \/ SignInFails(a)
             \/ CodeAccepted \/ (\E r \in reads : ReadFails(r))
             \/ (\E i \in DOMAIN Forms : SubmitForm(i))
             \/ AddPhoto \/ SaveDone \/ Back \/ SignOut \/ Restart
             \/ UNCHANGED vars
      PROVE  UNCHANGED <<docs, stray>>
  BY <1>6 DEF StartUp, AuthEvent, LoginRedirect, CodeSent, SignInFails,
              CodeAccepted, ReadFails, SubmitForm, AddPhoto, SaveDone, Back,
              SignOut, Restart, vars
<1>7. ASSUME NEW fs \in SUBSET Fields, NEW a \in stray,
             docs' = [docs EXCEPT ![a] = fs], stray \subseteq stray'
      PROVE  /\ \A b \in Accounts : Registered(docs[b]) => Registered(docs'[b])
             /\ \A b \in Accounts \ stray : docs'[b] = docs[b]
  BY <1>1, <1>7, NoneAssumption DEF Registered
<1>. QED  BY <1>2, <1>3, <1>4, <1>5, <1>6, <1>7 DEF Next

-----------------------------------------------------------------------------
(* Types.                                                                  *)

LEMMA SessionInit == Init => SessionInv
<1>. SUFFICES ASSUME Init  PROVE SessionInv
  OBVIOUS
<1>1. /\ stack = <<"start">> /\ Len(stack) = 1 /\ DOMAIN stack = {1}
      /\ stack[1] = "start" /\ Top = "start" /\ stack \in Seq(Screens) /\ stack # << >>
  BY DEF Init, Top, Screens
<1>2. "start" \notin Entered /\ "photo" # "start"
      /\ \A i \in DOMAIN Forms : Forms[i] # "start"
  BY FormFacts DEF Entered
<1>3. events = <<NoUser>> /\ events \in Seq(Accounts \cup {NoUser})
  BY DEF Init
<1>4. location \in BOOLEAN /\ saving \in BOOLEAN /\ ~location /\ ~saving
  BY Zenon DEF Init
<1>5. TypeOK
  BY <1>1, <1>3, <1>4 DEF Init, TypeOK
<1>6. Routes /\ Reading /\ Owner /\ Stored /\ Wizard
  BY <1>1, <1>2, <1>4 DEF Init, Routes, Reading, Owner, Stored, Wizard
<1>7. CompleteProfiles /\ Undelivered /\ SignedOutForgotten
  BY <1>4 DEF Init, CompleteProfiles, Undelivered, SignedOutForgotten
<1>. QED  BY <1>5, <1>6, <1>7 DEF SessionInv

\* The stack of a step is that of one of five ways to navigate.
LEMMA StackTyped ==
    ASSUME SessionInv, [Next]_vars
    PROVE  stack' \in Seq(Screens) /\ stack' # << >>
<1>1. TypeOK /\ stack \in Seq(Screens) /\ stack # << >>
  BY DEF SessionInv, TypeOK
<1>2. ASSUME NEW s \in Screens, \/ stack' = <<s>> \/ Push(s)
                                \/ stack' = Append(Popped, s)
      PROVE  stack' \in Seq(Screens) /\ stack' # << >>
  BY <1>1, <1>2, OneRoute, PushRoute, ReplaceRoute
<1>3. /\ {"start", "blank", "landing", "login", "confirm", "home", "photo"} \subseteq Screens
      /\ \A i \in DOMAIN Forms : Forms[i] \in Screens
      /\ \A m : FirstScreen(m) \in Screens
  BY FormFacts DEF Screens, Fields
<1>4. ASSUME StartUp
      PROVE  \E s \in Screens : stack' = <<s>>
  BY <1>4, <1>3 DEF StartUp
<1>5. ASSUME LoginRedirect \/ \E a \in Accounts : CodeSent(a)
      PROVE  \E s \in Screens : Push(s)
  BY <1>5, <1>3 DEF LoginRedirect, CodeSent
<1>6. ASSUME NEW r \in reads, ReadDone(r)
      PROVE  \/ UNCHANGED stack
             \/ \E s \in Screens : stack' = Append(Popped, s)
  BY <1>6, <1>3, ReadEffect DEF Continue
<1>7. ASSUME NEW i \in DOMAIN Forms, SubmitForm(i)
      PROVE  \E s \in Screens : Push(s)
  <2>1. i < Len(Forms) => i + 1 \in DOMAIN Forms
    BY FormFacts
  <2>. QED  BY <1>7, <2>1, <1>3 DEF SubmitForm
<1>8. ASSUME SaveDone \/ SignOut \/ Restart
      PROVE  \E s \in Screens : stack' = <<s>>
  BY <1>8, <1>3 DEF SaveDone, SignOut, Restart
<1>9. ASSUME Back
      PROVE  stack' \in Seq(Screens) /\ stack' # << >>
  BY <1>9, <1>1, <1>2, <1>3, PopRoute DEF Back
<1>10. ASSUME \/ AuthEvent
              \/ \E a \in Accounts : SignInArrives(a) \/ SignInFails(a)
              \/ CodeAccepted \/ (\E r \in reads : ReadFails(r))
              \/ AddPhoto \/ SubmitPhoto \/ UNCHANGED vars
       PROVE  UNCHANGED stack
  BY <1>10 DEF AuthEvent, SignInArrives, SignInFails, CodeAccepted, ReadFails,
               AddPhoto, SubmitPhoto, vars, phone
<1>. QED  BY <1>1, <1>2, <1>4, <1>5, <1>6, <1>7, <1>8, <1>9, <1>10 DEF Next

LEMMA TypeStep == SessionInv /\ [Next]_vars => TypeOK'
<1>. SUFFICES ASSUME SessionInv, [Next]_vars  PROVE TypeOK'
  OBVIOUS
<1>1. /\ TypeOK /\ Routes /\ Reading /\ Owner
      /\ stack' \in Seq(Screens) /\ stack' # << >>
      /\ events \in Seq(Accounts \cup {NoUser})
      /\ docs \in [Accounts -> (SUBSET Fields) \cup {NoDoc}]
      /\ Top \in Entered => /\ currentUser \in Models
                            /\ currentUser.uid \in Accounts
                            /\ currentUser.filled \in SUBSET Fields
  BY StackTyped, OwnModel DEF SessionInv, TypeOK
<1>2. "photo" \in Entered /\ \A i \in DOMAIN Forms : Forms[i] \in Entered
  BY FormFacts DEF Entered
<1>3. Top = "confirm" => number \in Accounts
  BY <1>1, TopRoute DEF Routes
<1>4. \A r \in reads : /\ [r EXCEPT !.live = FALSE] \in Reads
                       /\ r.uid \in Accounts
                       /\ r.live => Top = "confirm"
  BY <1>1 DEF TypeOK, Reads, Reading
<1>5. ASSUME NEW a \in Accounts, SignIn(a)
      PROVE  signedIn' \in Accounts /\ events' \in Seq(Accounts \cup {NoUser})
  BY <1>1, <1>5 DEF SignIn
<1>6. ASSUME StartUp  PROVE TypeOK'
  <2>1. currentUser' \in Models \cup {NoUser}
    BY <1>1, <1>6 DEF StartUp, TypeOK, LoadedModel, FreshModel, Models, Registered
  <2>. QED  BY <1>1, <1>6, <2>1 DEF StartUp, TypeOK
<1>7. ASSUME AuthEvent  PROVE TypeOK'
  <2>1. /\ Head(events) \in Accounts \cup {NoUser}
        /\ Tail(events) \in Seq(Accounts \cup {NoUser})
    BY <1>1, <1>7 DEF AuthEvent
  <2>2. currentUser' \in Models \cup {NoUser}
    BY <1>1, <1>7, <2>1 DEF AuthEvent, TypeOK, FreshModel, Models
  <2>. QED  BY <1>1, <1>7, <2>1, <2>2 DEF AuthEvent, TypeOK
<1>8. ASSUME LoginRedirect  PROVE TypeOK'
  <2>1. location' \in BOOLEAN
    BY <1>1, <1>8, Zenon DEF LoginRedirect, TypeOK
  <2>. QED  BY <1>1, <1>8, <2>1 DEF LoginRedirect, TypeOK
<1>9. ASSUME NEW a \in Accounts, CodeSent(a)  PROVE TypeOK'
  BY <1>1, <1>9 DEF CodeSent, TypeOK
<1>10. ASSUME NEW a \in Accounts, SignInArrives(a)  PROVE TypeOK'
  BY <1>1, <1>5, <1>10 DEF SignInArrives, TypeOK
<1>11. ASSUME NEW a \in Accounts, SignInFails(a)  PROVE TypeOK'
  BY <1>1, <1>11 DEF SignInFails, TypeOK
<1>12. ASSUME CodeAccepted  PROVE TypeOK'
  <2>1. number \in Accounts /\ SignIn(number)
    BY <1>3, <1>12 DEF CodeAccepted
  <2>2. [uid |-> number, seen |-> docs[number], live |-> TRUE] \in Reads
    BY <1>1, <2>1 DEF Reads
  <2>3. reads' \subseteq Reads
    BY <1>1, <1>12, <2>2 DEF CodeAccepted, TypeOK
  <2>. QED  BY <1>1, <1>5, <1>12, <2>1, <2>3 DEF CodeAccepted, TypeOK
<1>13. ASSUME NEW r \in reads, ReadDone(r)  PROVE TypeOK'
  <2>1. UNCHANGED <<signedIn, events, location, number, saving>>
    BY <1>13 DEF ReadDone
  <2>2. CASE /\ reads' = reads \ {r}
             /\ UNCHANGED <<docs, stack, currentUser, stray, incoming>>
    BY <1>1, <2>1, <2>2 DEF TypeOK
  <2>3. ASSUME NEW m \in Models, Continue(r, m), m.uid = r.uid,
               \/ UNCHANGED docs
               \/ /\ r.uid \in stray /\ Registered(docs[r.uid])
                  /\ docs' = [docs EXCEPT ![r.uid] = m.filled]
        PROVE  TypeOK'
    <3>1. docs' \in [Accounts -> (SUBSET Fields) \cup {NoDoc}]
      BY <1>1, <2>3 DEF Models
    <3>2. reads' \subseteq Reads
      <4>1. reads \subseteq Reads /\ reads' \in {Dead(reads \ {r}), reads \ {r}}
        BY <1>1, <2>3 DEF Continue, TypeOK
      <4>2. Dead(reads \ {r}) \subseteq Reads
        <5>1. \A q \in reads \ {r} : [q EXCEPT !.live = FALSE] \in Reads
          BY <1>4
        <5>. QED  BY <5>1, Zenon DEF Dead
      <4>. QED  BY <4>1, <4>2, Zenon
    <3>3. incoming' \subseteq Accounts /\ stray' \subseteq Accounts
      <4>1. incoming \subseteq Accounts /\ stray \subseteq Accounts /\ r.uid \in Accounts
        BY <1>1, <1>4 DEF TypeOK
      <4>2. r.live => number \in Accounts
        BY <1>3, <1>4
      <4>3. \/ r.live /\ incoming' \in {incoming, incoming \cup {number}} /\ stray' = stray
            \/ incoming' = incoming /\ stray' = stray \cup {r.uid}
        BY <2>3 DEF Continue
      <4>. QED  BY <4>1, <4>2, <4>3, Zenon
    <3>. QED  BY <1>1, <2>1, <2>3, <3>1, <3>2, <3>3 DEF Continue, TypeOK
  <2>. QED  BY <1>13, <2>2, <2>3, ReadEffect
<1>14. ASSUME NEW r \in reads, ReadFails(r)  PROVE TypeOK'
  BY <1>1, <1>14 DEF ReadFails, TypeOK
<1>15. ASSUME NEW i \in DOMAIN Forms, SubmitForm(i)  PROVE TypeOK'
  <2>1. currentUser' \in Models
    BY <1>1, <1>2, <1>15, FormFacts DEF SubmitForm, Models
  <2>. QED  BY <1>1, <1>15, <2>1 DEF SubmitForm, TypeOK
<1>16. ASSUME AddPhoto  PROVE TypeOK'
  <2>1. currentUser' \in Models
    BY <1>1, <1>2, <1>16, FormFacts DEF AddPhoto, Models
  <2>. QED  BY <1>1, <1>16, <2>1 DEF AddPhoto, TypeOK
<1>17. ASSUME SubmitPhoto  PROVE TypeOK'
  <2>1. saving' \in BOOLEAN
    BY <1>17, Zenon DEF SubmitPhoto
  <2>2. docs' \in [Accounts -> (SUBSET Fields) \cup {NoDoc}]
    BY <1>1, <1>2, <1>17 DEF SubmitPhoto
  <2>. QED  BY <1>1, <1>17, <2>1, <2>2 DEF SubmitPhoto, TypeOK
<1>18. ASSUME SaveDone  PROVE TypeOK'
  <2>1. saving' \in BOOLEAN
    BY <1>18, Zenon DEF SaveDone
  <2>. QED  BY <1>1, <1>18, <2>1 DEF SaveDone, TypeOK
<1>19. ASSUME Back  PROVE TypeOK'
  <2>1. saving' \in BOOLEAN
    BY <1>19, Zenon DEF Back
  <2>2. incoming' \subseteq Accounts
    BY <1>1, <1>3, <1>19 DEF Back, TypeOK
  <2>3. reads' \subseteq Reads
    BY <1>1, <1>4, <1>19 DEF Back, ReadsLeft, Dead, TypeOK
  <2>. QED  BY <1>1, <1>19, <2>1, <2>2, <2>3 DEF Back, TypeOK
<1>20. ASSUME SignOut  PROVE TypeOK'
  <2>1. location' \in BOOLEAN
    BY <1>20, Zenon DEF SignOut, LocationLeft
  <2>2. events' \in Seq(Accounts \cup {NoUser})
    BY <1>1, <1>20 DEF SignOut
  <2>. QED  BY <1>1, <1>20, <2>1, <2>2 DEF SignOut, TypeOK
<1>21. ASSUME Restart  PROVE TypeOK'
  <2>1. location' \in BOOLEAN /\ saving' \in BOOLEAN
    BY <1>21, Zenon DEF Restart
  <2>2. events' \in Seq(Accounts \cup {NoUser})
    BY <1>1, <1>21 DEF Restart, TypeOK
  <2>. QED  BY <1>1, <1>21, <2>1, <2>2 DEF Restart, TypeOK
<1>22. CASE UNCHANGED vars
  BY <1>1, <1>22 DEF vars, phone, TypeOK
<1>. QED  BY <1>6, <1>7, <1>8, <1>9, <1>10, <1>11, <1>12, <1>13, <1>14, <1>15,
             <1>16, <1>17, <1>18, <1>19, <1>20, <1>21, <1>22 DEF Next

-----------------------------------------------------------------------------
(* The routes.                                                             *)

\* Before the sign-in no screen of the stack is one after it, and a start-up
\* has the stack to itself.
LEMMA Below ==
    ASSUME TypeOK, Routes
    PROVE  /\ Top # "start" => \A k \in DOMAIN stack : stack[k] # "start"
           /\ Top \notin Entered => \A k \in DOMAIN stack : stack[k] \notin Entered
<1>1. Len(stack) \in Nat \ {0} /\ DOMAIN stack = 1 .. Len(stack)
      /\ stack[Len(stack)] = Top
  BY TopRoute
<1>2. ASSUME NEW k \in DOMAIN stack, stack[k] = "start"  PROVE Top = "start"
  BY <1>1, <1>2 DEF Routes
<1>3. ASSUME NEW k \in DOMAIN stack, stack[k] \in Entered  PROVE Top \in Entered
  BY <1>1, <1>3 DEF Routes
<1>. QED  BY <1>2, <1>3

LEMMA RoutesStep == SessionInv /\ [Next]_vars => Routes'
<1>. SUFFICES ASSUME SessionInv, [Next]_vars  PROVE Routes'
  OBVIOUS
<1>1. /\ TypeOK /\ Routes
      /\ Len(stack) \in Nat \ {0} /\ DOMAIN stack = 1 .. Len(stack)
      /\ stack[Len(stack)] = Top
  BY TopRoute DEF SessionInv
<1>2. /\ "photo" \in Entered /\ \A i \in DOMAIN Forms : Forms[i] \in Entered
      /\ {"gender", "home", "photo"} \subseteq Entered
      /\ \A s \in Entered : s \notin {"start", "blank", "landing", "login", "confirm"}
      /\ {"start", "blank", "landing", "login", "confirm", "home", "gender", "photo"}
            \subseteq Screens
      /\ \A m : FirstScreen(m) \in {"home", "gender"}
      /\ Entered \subseteq Screens
  BY FormFacts DEF Entered, Screens
\* One route alone, another on top, one less.
<1>3. ASSUME NEW s \in Screens, stack' = <<s>>, s \notin {"start", "confirm"}
      PROVE  Routes'
  BY <1>3, OneRoute DEF Routes
<1>4. ASSUME NEW s \in Screens, Push(s), Top # "start", s # "start",
             Top \in Entered => s \in Entered,
             s = "confirm" => number' \in Accounts,
             number \in Accounts => number' \in Accounts
      PROVE  Routes'
  <2>1. /\ \A k \in DOMAIN stack : stack[k] # "start"
        /\ Top \notin Entered => \A k \in DOMAIN stack : stack[k] \notin Entered
    BY <1>1, <1>4, Below
  <2>2. /\ DOMAIN stack' = 1 .. Len(stack) + 1 /\ Top' = s
        /\ \A k \in DOMAIN stack' : IF k \in DOMAIN stack THEN stack'[k] = stack[k]
                                    ELSE k = Len(stack) + 1 /\ stack'[k] = s
    BY <1>1, <1>4, PushRoute
  <2>3. \A k \in DOMAIN stack' : stack'[k] # "start"
    BY <2>1, <2>2, <1>4
  <2>4. ASSUME NEW k \in DOMAIN stack', NEW l \in DOMAIN stack',
               k < l, stack'[k] \in Entered
        PROVE  stack'[l] \in Entered
    <3>1. k \in DOMAIN stack /\ stack'[k] = stack[k]
      BY <2>2, <2>4, <1>1
    <3>2. CASE l \in DOMAIN stack
      BY <3>1, <3>2, <2>2, <2>4, <1>1 DEF Routes
    <3>3. CASE l \notin DOMAIN stack
      BY <3>1, <3>3, <2>1, <2>2, <2>4, <1>4
    <3>. QED  BY <3>2, <3>3
  <2>5. \A k \in DOMAIN stack' : stack'[k] = "confirm" => number' \in Accounts
    BY <2>2, <1>1, <1>4 DEF Routes
  <2>. QED  BY <2>2, <2>3, <2>4, <2>5, <1>4 DEF Routes
<1>5. ASSUME UNCHANGED <<stack, number>>, incoming' \subseteq incoming
      PROVE  Routes'
  BY <1>1, <1>5 DEF Routes, Top
<1>6. ASSUME NEW r \in reads, ReadDone(r)  PROVE Routes'
  <2>1. /\ UNCHANGED number
        /\ \/ UNCHANGED <<stack, incoming>>
           \/ /\ r.live
              /\ \E s \in {"home", "gender"} : stack' = Append(Popped, s)
    BY <1>2, <1>6, ReadEffect DEF ReadDone, Continue
  <2>2. ASSUME NEW s \in {"home", "gender"}, stack' = Append(Popped, s), r.live
        PROVE  Routes'
    <3>1. Top = "confirm"
      BY <2>2 DEF SessionInv, Reading
    <3>2. \A k \in DOMAIN stack : stack[k] # "start" /\ stack[k] \notin Entered
      BY <1>1, <1>2, <3>1, Below
    <3>3. /\ DOMAIN stack' = DOMAIN stack /\ Top' = s
          /\ \A k \in DOMAIN stack :
                stack'[k] = IF k < Len(stack) THEN stack[k] ELSE s
      <4>1. ASSUME NEW k \in DOMAIN stack, ~(k < Len(stack))  PROVE k = Len(stack)
        BY <1>1, <4>1
      <4>. QED  BY <1>1, <1>2, <2>2, <4>1, ReplaceRoute
    <3>4. /\ UNCHANGED number
          /\ \A k \in DOMAIN stack' : /\ stack'[k] # "start"
                                      /\ stack'[k] = "confirm" => number \in Accounts
      BY <1>1, <1>2, <2>1, <2>2, <3>2, <3>3 DEF Routes
    <3>5. ASSUME NEW k \in DOMAIN stack', stack'[k] \in Entered
          PROVE  ~(k < Len(stack))
      BY <3>2, <3>3, <3>5
    <3>6. \A k, l \in DOMAIN stack' : k < l => k < Len(stack)
      BY <1>1, <3>3
    <3>. QED  BY <1>2, <2>2, <3>3, <3>4, <3>5, <3>6 DEF Routes
  <2>. QED  BY <2>1, <2>2, <1>5
<1>7. ASSUME NEW i \in DOMAIN Forms, SubmitForm(i)  PROVE Routes'
  <2>1. Top \in Entered /\ Top # "start" /\ UNCHANGED number
    BY <1>2, <1>7 DEF SubmitForm
  <2>2. i < Len(Forms) => i + 1 \in DOMAIN Forms
    BY FormFacts
  <2>3. \E s \in Entered : Push(s)
    BY <1>2, <1>7, <2>2 DEF SubmitForm
  <2>. QED  BY <1>2, <1>4, <2>1, <2>3
<1>8. ASSUME Back  PROVE Routes'
  <2>1. CASE Len(stack) > 1 /\ stack' = Popped
    <3>1. /\ Len(stack') = Len(stack) - 1
          /\ DOMAIN stack' = 1 .. Len(stack) - 1
          /\ \A k \in DOMAIN stack' : k \in DOMAIN stack /\ stack'[k] = stack[k]
          /\ Len(stack) - 1 \in DOMAIN stack
          /\ Top' = stack[Len(stack) - 1]
      BY <1>1, <2>1, PopRoute
    <3>2. \A k \in DOMAIN stack : stack[k] # "start"
      BY <1>1, <2>1 DEF Routes
    <3>3. UNCHANGED number
      BY <1>8 DEF Back
    <3>. QED  BY <1>1, <3>1, <3>2, <3>3 DEF Routes
  <2>. QED  BY <1>2, <1>3, <1>8, <2>1 DEF Back
<1>9. ASSUME StartUp  PROVE Routes'
  <2>1. \E s \in Screens : stack' = <<s>> /\ s \notin {"start", "confirm"}
    BY <1>2, <1>9 DEF StartUp
  <2>. QED  BY <2>1, <1>3
<1>10. ASSUME SaveDone \/ SignOut  PROVE Routes'
  BY <1>2, <1>3, <1>10 DEF SaveDone, SignOut
<1>11. ASSUME Restart  PROVE Routes'
  <2>1. "start" \in Screens /\ stack' = <<"start">> /\ number' = NoUser /\ incoming' = {}
    BY <1>2, <1>11 DEF Restart
  <2>. QED  BY <1>2, <2>1, OneRoute DEF Routes
<1>12. ASSUME LoginRedirect  PROVE Routes'
  BY <1>2, <1>4, <1>12 DEF LoginRedirect
<1>13. ASSUME NEW a \in Accounts, CodeSent(a)  PROVE Routes'
  BY <1>2, <1>4, <1>13 DEF CodeSent
<1>14. ASSUME \/ \E a \in Accounts : SignInArrives(a) \/ SignInFails(a)
              \/ AuthEvent \/ CodeAccepted \/ (\E r \in reads : ReadFails(r))
              \/ AddPhoto \/ SubmitPhoto \/ UNCHANGED vars
       PROVE  UNCHANGED <<stack, number>> /\ incoming' \subseteq incoming
  BY <1>14 DEF SignInArrives, SignInFails, AuthEvent, CodeAccepted, ReadFails,
               AddPhoto, SubmitPhoto, vars, phone
<1>. QED  BY <1>5, <1>6, <1>7, <1>8, <1>9, <1>10, <1>11, <1>12, <1>13, <1>14 DEF Next

-----------------------------------------------------------------------------
(* Where the screens after the sign-in come from, and what a step does to  *)
(* the model under them.                                                   *)

NextForm(i) == IF i < Len(Forms) THEN Forms[i + 1] ELSE "photo"

LEMMA LiveReadsConfirm ==
    ASSUME SessionInv, NEW r \in reads, r.live
    PROVE  /\ Top = "confirm" /\ r.uid = number /\ signedIn # NoUser
           /\ signedIn = number \/ stray # {}
BY DEF SessionInv, Reading


\* A screen opened by the start-up or by a read: the account that is signed in,
\* or was a moment ago, and Home only when it has a document.
Opened(m, a, screen) ==
    /\ m \in Models /\ m.uid = a
    /\ screen = FirstScreen(m)
    /\ HasGender(m) => Registered(docs[a])

LEMMA RouteOrigin ==
    ASSUME SessionInv, [Next]_vars, NEW k \in DOMAIN stack', stack'[k] \in Entered
    PROVE  \/ StartUp /\ Opened(currentUser', signedIn, stack'[k])
           \/ \E r \in reads : /\ r.live /\ ReadDone(r) /\ stray' = stray
                               /\ Opened(currentUser', r.uid, stack'[k])
           \/ \E i \in DOMAIN Forms : SubmitForm(i) /\ stack'[k] = NextForm(i)
           \/ SaveDone /\ stack'[k] = "home"
           \/ /\ k \in DOMAIN stack /\ stack'[k] = stack[k] /\ Top \in Entered
              /\ ~SignOut /\ ~Restart
<1>0. SessionInv /\ TypeOK /\ Routes
  BY DEF SessionInv
<1>1. /\ Len(stack) \in Nat \ {0} /\ DOMAIN stack = 1 .. Len(stack)
      /\ {"landing", "start", "home", "login", "confirm", "blank", "gender"} \subseteq Screens
      /\ \A s \in Entered : s \notin {"start", "blank", "landing", "login", "confirm"}
      /\ \A m : FirstScreen(m) \in {"home", "gender"}
  BY <1>0, TopRoute, FormFacts DEF Screens, Fields
<1>2. ASSUME k \in DOMAIN stack, stack'[k] = stack[k]
      PROVE  Top \in Entered
  BY <1>0, <1>2, Below
<1>3. ASSUME NEW s \in Screens, stack' = <<s>>  PROVE stack'[k] = s
  BY <1>3, OneRoute
<1>4. ASSUME StartUp
      PROVE  Opened(currentUser', signedIn, stack'[k])
  <2>1. CASE stack' = <<"landing">> \/ stack' = <<"blank">>
    BY <1>1, <1>3, <2>1
  <2>2. CASE /\ signedIn # NoUser /\ Registered(docs[signedIn])
             /\ currentUser' = LoadedModel(signedIn, docs[signedIn])
             /\ stack' = <<FirstScreen(currentUser')>>
    <3>1. signedIn \in Accounts /\ docs[signedIn] \in SUBSET Fields
      BY <1>0, <2>2 DEF TypeOK, Registered
    <3>2. stack'[k] = FirstScreen(currentUser')
      BY <1>1, <1>3, <2>2
    <3>. QED  BY <2>2, <3>1, <3>2 DEF Opened, LoadedModel, Models
  <2>3. CASE /\ signedIn # NoUser
             /\ currentUser' = FreshModel(signedIn)
             /\ stack' = <<FirstScreen(currentUser')>>
    <3>1. signedIn \in Accounts
      BY <1>0, <2>3 DEF TypeOK
    <3>2. stack'[k] = FirstScreen(currentUser')
      BY <1>1, <1>3, <2>3
    <3>. QED  BY <2>3, <3>1, <3>2 DEF Opened, FreshModel, Models, HasGender
  <2>. QED  BY <1>4, <2>1, <2>2, <2>3 DEF StartUp
<1>5. ASSUME SaveDone  PROVE stack'[k] = "home"
  BY <1>1, <1>3, <1>5 DEF SaveDone
<1>6. ASSUME SignOut \/ Restart  PROVE FALSE
  BY <1>1, <1>3, <1>6 DEF SignOut, Restart
<1>7. ASSUME NEW s \in Screens, Push(s)
      PROVE  stack'[k] = s \/ (k \in DOMAIN stack /\ stack'[k] = stack[k])
  BY <1>0, <1>1, <1>7, PushRoute
<1>8. ASSUME LoginRedirect \/ \E a \in Accounts : CodeSent(a)
      PROVE  k \in DOMAIN stack /\ stack'[k] = stack[k]
  BY <1>1, <1>7, <1>8 DEF LoginRedirect, CodeSent
<1>9. ASSUME NEW i \in DOMAIN Forms, SubmitForm(i)
      PROVE  \/ stack'[k] = NextForm(i)
             \/ k \in DOMAIN stack /\ stack'[k] = stack[k]
  <2>1. NextForm(i) \in Screens /\ Push(NextForm(i))
    <3>1. i < Len(Forms) => i + 1 \in DOMAIN Forms
      BY FormFacts
    <3>. QED  BY <3>1, <1>9, FormFacts DEF NextForm, SubmitForm, Screens
  <2>. QED  BY <1>7, <2>1
<1>10. ASSUME Back
       PROVE  k \in DOMAIN stack /\ stack'[k] = stack[k]
  BY <1>0, <1>1, <1>3, <1>10, PopRoute, FormFacts DEF Back
<1>11. ASSUME NEW r \in reads, ReadDone(r)
       PROVE  \/ r.live /\ stray' = stray /\ Opened(currentUser', r.uid, stack'[k])
              \/ k \in DOMAIN stack /\ stack'[k] = stack[k]
  <2>1. CASE UNCHANGED stack
    BY <2>1
  <2>2. ASSUME NEW m \in Models, r.live, Continue(r, m), m.uid = r.uid,
               HasGender(m) => Registered(docs[r.uid])
        PROVE  \/ r.live /\ stray' = stray /\ Opened(currentUser', r.uid, stack'[k])
               \/ k \in DOMAIN stack /\ stack'[k] = stack[k]
    <3>1. FirstScreen(m) \in Screens
      BY <1>1
    <3>2. currentUser' = m /\ stray' = stray /\ stack' = Append(Popped, FirstScreen(m))
      BY <2>2 DEF Continue
    <3>3. \/ stack'[k] = FirstScreen(m)
          \/ k \in DOMAIN stack /\ stack'[k] = stack[k]
      <4>1. DOMAIN stack' = DOMAIN stack /\ stack'[Len(stack)] = FirstScreen(m)
            /\ \A l \in DOMAIN stack : l < Len(stack) => stack'[l] = stack[l]
        BY <1>0, <3>1, <3>2, ReplaceRoute
      <4>2. k < Len(stack) \/ k = Len(stack)
        BY <1>1, <4>1
      <4>. QED  BY <4>1, <4>2
    <3>. QED  BY <2>2, <3>2, <3>3 DEF Opened
  <2>. QED  BY <1>11, <2>1, <2>2, ReadEffect DEF Continue
<1>12. ASSUME \/ AuthEvent
              \/ \E a \in Accounts : SignInArrives(a) \/ SignInFails(a)
              \/ CodeAccepted \/ (\E r \in reads : ReadFails(r))
              \/ AddPhoto \/ SubmitPhoto \/ UNCHANGED vars
       PROVE  k \in DOMAIN stack /\ stack'[k] = stack[k]
  <2>1. UNCHANGED stack
    BY <1>12 DEF AuthEvent, SignInArrives, SignInFails, CodeAccepted, ReadFails,
                 AddPhoto, SubmitPhoto, vars, phone
  <2>. QED  BY <2>1
<1>. QED  BY <1>2, <1>4, <1>5, <1>6, <1>8, <1>9, <1>10, <1>11, <1>12 DEF Next

\* Under a screen after the sign-in the model stays, with all it has, or a
\* late read replaces it; and only the account of the number can sign in.
LEMMA ModelUnder ==
    ASSUME SessionInv, [Next]_vars, Top \in Entered, ~SignOut, ~Restart
    PROVE  /\ currentUser' \in Models
           /\ \/ currentUser'.uid = currentUser.uid
                 /\ currentUser.filled \subseteq currentUser'.filled
              \/ currentUser'.uid \in stray'
           /\ \/ stray' # {}
              \/ /\ number' = number /\ incoming' \subseteq incoming
                 /\ signedIn' = signedIn \/ (signedIn' = number /\ number \in incoming)
<1>0. SessionInv /\ TypeOK
  BY DEF SessionInv
<1>1. /\ currentUser \in Models /\ currentUser.uid \in Accounts
      /\ currentUser # NoUser
  BY <1>0, OwnModel, NoneAssumption DEF SessionInv
<1>2. Top \notin {"start", "blank", "landing", "login", "confirm"}
  BY FormFacts
<1> DEFINE Kept == /\ currentUser' \in Models
                   /\ currentUser'.uid = currentUser.uid
                   /\ currentUser.filled \subseteq currentUser'.filled
<1>3. CASE UNCHANGED <<currentUser, number, signedIn>> /\ incoming' \subseteq incoming
  BY <1>1, <1>3
<1>4. ASSUME NEW a \in Accounts, SignInArrives(a)
      PROVE  /\ UNCHANGED <<currentUser, number>> /\ incoming' \subseteq incoming
             /\ stray' # {} \/ (signedIn' = number /\ number \in incoming)
  BY <1>4 DEF SignInArrives, SignIn
<1>5. ASSUME NEW r \in reads, ReadDone(r)
      PROVE  /\ UNCHANGED <<number, signedIn>>
             /\ \/ UNCHANGED <<currentUser, incoming>>
                \/ /\ currentUser' \in Models /\ currentUser'.uid \in stray'
                   /\ stray' # {}
  <2>1. ~r.live
    BY <1>0, <1>2, LiveReadsConfirm
  <2>2. UNCHANGED <<number, signedIn>>
    BY <1>5 DEF ReadDone
  <2>3. ASSUME NEW m \in Models, m.uid = r.uid, Continue(r, m)
        PROVE  /\ currentUser' \in Models /\ currentUser'.uid \in stray'
               /\ stray' # {}
    BY <2>1, <2>3 DEF Continue
  <2>. QED  BY <1>0, <1>5, <2>2, <2>3, ReadEffect
<1>6. ASSUME AddPhoto \/ \E i \in DOMAIN Forms : SubmitForm(i)
      PROVE  Kept /\ UNCHANGED <<number, signedIn, incoming>>
  <2>1. PICK f \in Fields :
            currentUser' = [currentUser EXCEPT !.filled = @ \cup {f}]
    BY <1>6, FormFacts DEF AddPhoto, SubmitForm
  <2>2. Kept
    BY <1>1, <2>1 DEF Models
  <2>3. UNCHANGED <<number, signedIn, incoming>>
    BY <1>6 DEF AddPhoto, SubmitForm
  <2>. QED  BY <2>2, <2>3
<1>7. ASSUME Back  PROVE UNCHANGED <<currentUser, number, signedIn, incoming>>
  BY <1>2, <1>7 DEF Back
<1>8. ASSUME StartUp \/ LoginRedirect \/ CodeAccepted \/ \E a \in Accounts : CodeSent(a)
      PROVE  FALSE
  BY <1>2, <1>8 DEF StartUp, LoginRedirect, CodeAccepted, CodeSent
<1>9. ASSUME \/ AuthEvent \/ (\E a \in Accounts : SignInFails(a))
             \/ (\E r \in reads : ReadFails(r))
             \/ SubmitPhoto \/ SaveDone \/ UNCHANGED vars
      PROVE  UNCHANGED <<currentUser, number, signedIn>> /\ incoming' \subseteq incoming
  BY <1>1, <1>9 DEF AuthEvent, SignInFails, ReadFails, SubmitPhoto, SaveDone,
                    vars, phone
<1>. QED  BY <1>1, <1>3, <1>4, <1>5, <1>6, <1>7, <1>8, <1>9 DEF Next
-----------------------------------------------------------------------------
(* The steps of the other parts.                                           *)

LEMMA ReadingStep == SessionInv /\ [Next]_vars => Reading'
<1>. SUFFICES ASSUME SessionInv, [Next]_vars, NEW r \in reads'
              PROVE  /\ r.live => /\ Top' = "confirm" /\ r.uid = number'
                                  /\ signedIn' # NoUser
                                  /\ signedIn' = number' \/ stray' # {}
                     /\ Registered(r.seen) => Registered(docs'[r.uid])
                     /\ r.uid \in stray' \/ r.seen \in {NoDoc, Fields}
  BY DEF Reading, Registered
<1>1. /\ TypeOK /\ Reading /\ CompleteProfiles
      /\ stray \subseteq stray'
      /\ \A a \in Accounts : Registered(docs[a]) => Registered(docs'[a])
  BY DocsGrow DEF SessionInv
<1>2. "photo" # "confirm" /\ \A i \in DOMAIN Forms : Forms[i] # "confirm"
  BY FormFacts DEF Entered
\* A read that was there before, whether or not its page still is.
<1>3. ASSUME NEW q \in reads, r.uid = q.uid, r.seen = q.seen
      PROVE  /\ Registered(r.seen) => Registered(docs'[r.uid])
             /\ r.uid \in stray' \/ r.seen \in {NoDoc, Fields}
  <2>1. q.uid \in Accounts
    BY <1>1 DEF TypeOK, Reads
  <2>. QED  BY <1>1, <1>3, <2>1 DEF Reading
<1>4. ASSUME NEW q \in reads, r.uid = q.uid, r.seen = q.seen, ~r.live
      PROVE  /\ r.live => /\ Top' = "confirm" /\ r.uid = number'
                          /\ signedIn' # NoUser
                          /\ signedIn' = number' \/ stray' # {}
             /\ Registered(r.seen) => Registered(docs'[r.uid])
             /\ r.uid \in stray' \/ r.seen \in {NoDoc, Fields}
  BY <1>3, <1>4
<1>5. ASSUME NEW S, r \in Dead(S), S \subseteq reads
      PROVE  \E q \in reads : r.uid = q.uid /\ r.seen = q.seen /\ ~r.live
  BY <1>1, <1>5 DEF Dead, TypeOK, Reads
\* One that still has its page: the page is on top, and few steps leave it.
<1>6. ASSUME r \in reads, r.live
      PROVE  /\ Top = "confirm" /\ r.uid = number /\ signedIn # NoUser
             /\ signedIn = number \/ stray # {}
             /\ ~StartUp /\ ~LoginRedirect /\ ~AddPhoto /\ ~SubmitPhoto
             /\ ~SaveDone /\ ~SignOut
             /\ \A a \in Accounts : ~CodeSent(a)
             /\ \A i \in DOMAIN Forms : ~SubmitForm(i)
  <2>1. Top = "confirm"
    BY <1>6, LiveReadsConfirm
  <2>2. ~saving
    BY <2>1 DEF SessionInv, Stored
  <2>. QED  BY <1>2, <1>6, <2>1, <2>2, LiveReadsConfirm
            DEF StartUp, LoginRedirect, AddPhoto, SubmitPhoto, SaveDone, SignOut,
                CodeSent, SubmitForm
<1>7. ASSUME r \in reads, UNCHANGED <<stack, number, signedIn>>
      PROVE  r.live => /\ Top' = "confirm" /\ r.uid = number'
                       /\ signedIn' # NoUser
                       /\ signedIn' = number' \/ stray' # {}
  BY <1>1, <1>6, <1>7 DEF Top
<1>8. ASSUME NEW a \in Accounts, SignInArrives(a)
      PROVE  /\ r \in reads /\ UNCHANGED <<stack, number>>
             /\ signedIn' # NoUser /\ (signedIn' = number' \/ stray' # {})
  BY <1>8, NoneAssumption DEF SignInArrives, SignIn
<1>9. ASSUME CodeAccepted
      PROVE  \/ r \in reads /\ UNCHANGED <<stack, number>>
                /\ signedIn' = number' /\ signedIn' # NoUser
             \/ /\ Top' = "confirm" /\ r.uid = number' /\ signedIn' = number'
                /\ signedIn' # NoUser /\ r.seen = docs[r.uid] /\ UNCHANGED docs
                /\ r.uid \in Accounts
  <2>1. Top = "confirm" /\ UNCHANGED <<stack, number, docs>> /\ signedIn' = number
        /\ reads' = reads \cup {[uid |-> number, seen |-> docs[number], live |-> TRUE]}
    BY <1>9 DEF CodeAccepted, SignIn
  <2>2. number \in Accounts
    BY <1>1, <2>1, TopRoute DEF SessionInv, Routes
  <2>. QED  BY <2>1, <2>2, NoneAssumption DEF Top
<1>10. ASSUME NEW q \in reads, ReadDone(q)
       PROVE  \/ /\ r \in reads /\ UNCHANGED <<stack, number, signedIn>>
              \/ r \in Dead(reads \ {q})
  <2>1. UNCHANGED <<number, signedIn>>
    BY <1>10 DEF ReadDone
  <2>2. ASSUME NEW m, Continue(q, m)
        PROVE  (UNCHANGED stack /\ r \in reads) \/ r \in Dead(reads \ {q})
    BY <2>2 DEF Continue
  <2>. QED  BY <1>10, <2>1, <2>2, ReadEffect
<1>11. ASSUME Back
       PROVE  \/ r \in reads /\ ~r.live
              \/ r \in Dead(reads)
  BY <1>6, <1>11 DEF Back, ReadsLeft
<1>12. ASSUME Restart  PROVE FALSE
  BY <1>12 DEF Restart
<1>13. ASSUME \/ AuthEvent \/ (\E a \in Accounts : SignInFails(a))
              \/ (\E q \in reads : ReadFails(q)) \/ UNCHANGED vars
       PROVE  r \in reads /\ UNCHANGED <<stack, number, signedIn>>
  BY <1>13 DEF AuthEvent, SignInFails, ReadFails, vars, phone
<1>14. ASSUME \/ StartUp \/ LoginRedirect \/ (\E a \in Accounts : CodeSent(a))
              \/ (\E i \in DOMAIN Forms : SubmitForm(i))
              \/ AddPhoto \/ SubmitPhoto \/ SaveDone \/ SignOut
       PROVE  r \in reads /\ ~r.live
  <2>1. r \in reads
    BY <1>14 DEF StartUp, LoginRedirect, CodeSent, SubmitForm, AddPhoto,
                 SubmitPhoto, SaveDone, SignOut
  <2>. QED  BY <1>6, <1>14, <2>1
<1>15. CASE r \in reads /\ UNCHANGED <<stack, number, signedIn>>
  BY <1>3, <1>7, <1>15
<1>16. CASE \E a \in Accounts : SignInArrives(a)
  <2>1. r \in reads /\ UNCHANGED <<stack, number>>
        /\ signedIn' # NoUser /\ (signedIn' = number' \/ stray' # {})
    BY <1>8, <1>16
  <2>. QED  BY <1>3, <1>6, <2>1 DEF Top
<1>17. CASE CodeAccepted
  <2>1. CASE r \in reads /\ UNCHANGED <<stack, number>>
             /\ signedIn' = number' /\ signedIn' # NoUser
    BY <1>3, <1>6, <2>1 DEF Top
  <2>2. CASE /\ Top' = "confirm" /\ r.uid = number' /\ signedIn' = number'
             /\ signedIn' # NoUser /\ r.seen = docs[r.uid] /\ UNCHANGED docs
             /\ r.uid \in Accounts
    BY <1>1, <2>2 DEF CompleteProfiles
  <2>. QED  BY <1>9, <1>17, <2>1, <2>2
<1>. QED  BY <1>4, <1>5, <1>10, <1>11, <1>12, <1>13, <1>14, <1>15, <1>16, <1>17
          DEF Next

LEMMA OwnerStep == SessionInv /\ [Next]_vars => Owner'
<1>. SUFFICES ASSUME SessionInv, [Next]_vars,
                     NEW k \in DOMAIN stack', stack'[k] \in Entered
              PROVE  /\ currentUser' # NoUser
                     /\ \/ stray' # {}
                        \/ /\ currentUser'.uid = signedIn'
                           /\ \/ number' = signedIn'
                              \/ number' = NoUser /\ incoming' = {}
  BY DEF Owner
<1>1. /\ TypeOK /\ Owner /\ Routes /\ stray \subseteq stray'
      /\ Len(stack) \in DOMAIN stack /\ stack[Len(stack)] = Top
  BY DocsGrow, TopRoute DEF SessionInv
<1>2. CASE StartUp /\ Opened(currentUser', signedIn, stack'[k])
  <2>1. number = NoUser /\ incoming = {} /\ UNCHANGED <<number, incoming, signedIn>>
    BY <1>1, <1>2 DEF StartUp, Routes
  <2>. QED  BY <1>2, <2>1, NoneAssumption DEF Opened
<1>3. ASSUME NEW r \in reads, r.live, ReadDone(r), Opened(currentUser', r.uid, stack'[k])
      PROVE  /\ currentUser' # NoUser
             /\ stray' # {} \/ (currentUser'.uid = signedIn' /\ number' = signedIn')
  <2>1. r.uid = number /\ (signedIn = number \/ stray # {})
    BY <1>3, LiveReadsConfirm
  <2>2. UNCHANGED <<number, signedIn>>
    BY <1>3 DEF ReadDone
  <2>. QED  BY <1>1, <1>3, <2>1, <2>2, NoneAssumption DEF Opened
<1>4. ASSUME Top \in Entered, ~SignOut, ~Restart
      PROVE  /\ currentUser' # NoUser
             /\ \/ stray' # {}
                \/ /\ currentUser'.uid = signedIn'
                   /\ \/ number' = signedIn'
                      \/ number' = NoUser /\ incoming' = {}
  <2>1. \/ stray # {}
        \/ /\ currentUser.uid = signedIn
           /\ number = signedIn \/ (number = NoUser /\ incoming = {})
    BY <1>1, <1>4 DEF Owner
  <2>2. currentUser' # NoUser
    BY <1>4, ModelUnder, NoneAssumption
  <2>. QED  BY <1>1, <1>4, <2>1, <2>2, ModelUnder
<1>5. ASSUME SaveDone \/ \E i \in DOMAIN Forms : SubmitForm(i)
      PROVE  Top \in Entered /\ ~SignOut /\ ~Restart
  <2>1. Top \in Fields /\ Top # "home"
    BY <1>5, FormFacts DEF SaveDone, SubmitForm, SessionInv, Stored, Entered
  <2>2. stack' # <<"start">>
    <3>1. stack' = <<"start">> => stack'[k] = "start"
      BY OneRoute DEF Screens
    <3>. QED  BY <3>1, FormFacts
  <2>. QED  BY <2>1, <2>2 DEF Entered, SignOut, Restart
<1>. QED  BY <1>2, <1>3, <1>4, <1>5, RouteOrigin

LEMMA StoredStep == SessionInv /\ [Next]_vars => Stored'
<1>. SUFFICES ASSUME SessionInv, [Next]_vars  PROVE Stored'
  OBVIOUS
<1>1. /\ TypeOK /\ Stored /\ stray \subseteq stray' /\ "photo" \in Entered
      /\ docs \in [Accounts -> (SUBSET Fields) \cup {NoDoc}]
      /\ \A a \in Accounts : Registered(docs[a]) => Registered(docs'[a])
      /\ \A i \in DOMAIN Forms : Forms[i] # "photo"
  BY DocsGrow, FormFacts DEF SessionInv, TypeOK, Entered
\* What was stored for the model under a screen stays stored.
<1>2. ASSUME Top \in Entered, ~SignOut, ~Restart,
             Registered(docs[currentUser.uid]) \/ stray # {}
      PROVE  Registered(docs'[currentUser'.uid]) \/ stray' # {}
  <2>1. currentUser.uid \in Accounts
    BY <1>1, <1>2, OwnModel DEF SessionInv
  <2>2. currentUser'.uid = currentUser.uid \/ stray' # {}
    BY <1>2, ModelUnder
  <2>. QED  BY <1>1, <1>2, <2>1, <2>2
<1>3. ASSUME saving'
      PROVE  Top' = "photo" /\ (Registered(docs'[currentUser'.uid]) \/ stray' # {})
  <2>1. CASE SubmitPhoto
    <3>1. Top = "photo" /\ UNCHANGED <<stack, currentUser>>
          /\ docs' = [docs EXCEPT ![currentUser.uid] = currentUser.filled]
      BY <2>1 DEF SubmitPhoto
    <3>2. currentUser.uid \in Accounts /\ currentUser.filled \in SUBSET Fields
      BY <1>1, <3>1, OwnModel DEF SessionInv
    <3>3. docs'[currentUser.uid] = currentUser.filled
      BY <1>1, <3>1, <3>2
    <3>. QED  BY <3>1, <3>2, <3>3, NoneAssumption DEF Top, Registered
  <2>2. ASSUME ~SubmitPhoto
        PROVE  saving /\ ~SaveDone /\ ~Back /\ ~Restart /\ ~AddPhoto
    <3>1. ~SaveDone /\ ~Back /\ ~Restart
      BY <1>3 DEF SaveDone, Back, Restart
    <3>2. saving
      BY <1>3, <2>2, <3>1
         DEF Next, vars, phone, StartUp, AuthEvent, LoginRedirect, CodeSent,
             SignInArrives, SignInFails, CodeAccepted, ReadDone, ReadFails,
             SubmitForm, AddPhoto, SignOut
    <3>. QED  BY <3>1, <3>2 DEF AddPhoto
  <2>3. ASSUME ~SubmitPhoto  PROVE Top' = "photo"
    <3>1. Top = "photo" /\ saving /\ ~SaveDone /\ ~Back /\ ~Restart /\ ~AddPhoto
      BY <1>1, <2>2, <2>3 DEF Stored
    <3>2. \A r \in reads : ~r.live
      BY <3>1, LiveReadsConfirm
    <3>3. ASSUME NEW r \in reads, ReadDone(r)  PROVE UNCHANGED stack
      BY <3>2, <3>3, ReadEffect DEF Continue
    <3>4. ASSUME \/ AuthEvent
                 \/ \E a \in Accounts : SignInArrives(a) \/ SignInFails(a)
                 \/ (\E r \in reads : ReadFails(r)) \/ UNCHANGED vars
          PROVE  UNCHANGED stack
      BY <3>4 DEF AuthEvent, SignInArrives, SignInFails, ReadFails, vars, phone
    <3>5. /\ ~StartUp /\ ~LoginRedirect /\ (\A a \in Accounts : ~CodeSent(a))
          /\ ~CodeAccepted /\ (\A i \in DOMAIN Forms : ~SubmitForm(i)) /\ ~SignOut
      BY <1>1, <3>1 DEF StartUp, LoginRedirect, CodeSent, CodeAccepted, SubmitForm,
                        SignOut
    <3>6. UNCHANGED stack
      BY <2>3, <3>1, <3>3, <3>4, <3>5 DEF Next
    <3>. QED  BY <3>1, <3>6 DEF Top
  <2>4. ASSUME ~SubmitPhoto
        PROVE  Registered(docs'[currentUser'.uid]) \/ stray' # {}
    <3>1. saving /\ ~Restart /\ Top = "photo"
          /\ (Registered(docs[currentUser.uid]) \/ stray # {})
      BY <1>1, <2>2, <2>4 DEF Stored
    <3>. QED  BY <1>1, <1>2, <3>1 DEF SignOut
  <2>. QED  BY <2>1, <2>3, <2>4
<1>4. ASSUME NEW k \in DOMAIN stack', stack'[k] = "home"
      PROVE  Registered(docs'[currentUser'.uid]) \/ stray' # {}
  <2>0. stack'[k] \in Entered
    BY <1>4 DEF Entered
  <2>1. ASSUME NEW a, Opened(currentUser', a, stack'[k])
        PROVE  Registered(docs[a]) /\ a \in Accounts /\ currentUser'.uid = a
    <3>1. HasGender(currentUser')
      BY <1>4, <2>1, FormFacts DEF Opened, HasGender
    <3>. QED  BY <2>1, <3>1 DEF Opened, Models
  <2>2. CASE StartUp /\ Opened(currentUser', signedIn, stack'[k])
    BY <1>1, <2>1, <2>2
  <2>3. CASE \E r \in reads : Opened(currentUser', r.uid, stack'[k])
    BY <1>1, <2>1, <2>3
  <2>4. ASSUME NEW i \in DOMAIN Forms, stack'[k] = NextForm(i)  PROVE FALSE
    <3>1. i < Len(Forms) => i + 1 \in DOMAIN Forms
      BY FormFacts
    <3>. QED  BY <1>4, <2>4, <3>1, FormFacts DEF NextForm
  <2>5. CASE SaveDone
    <3>1. Top = "photo" /\ (Registered(docs[currentUser.uid]) \/ stray # {})
          /\ UNCHANGED <<docs, currentUser, stray>>
      BY <1>1, <2>5 DEF SaveDone, Stored
    <3>. QED  BY <3>1
  <2>6. CASE /\ k \in DOMAIN stack /\ stack'[k] = stack[k] /\ Top \in Entered
             /\ ~SignOut /\ ~Restart
    BY <1>1, <1>2, <1>4, <2>6 DEF Stored
  <2>. QED  BY <2>0, <2>2, <2>3, <2>4, <2>5, <2>6, RouteOrigin
<1>. QED  BY <1>3, <1>4 DEF Stored

LEMMA WizardStep == SessionInv /\ [Next]_vars => Wizard'
<1>. SUFFICES ASSUME SessionInv, [Next]_vars,
                     NEW k \in DOMAIN stack', NEW i \in DOMAIN Forms,
                     stack'[k] \in {Forms[i], "photo"}, currentUser'.uid \notin stray',
                     NEW j \in DOMAIN Forms, j < i \/ stack'[k] = "photo"
              PROVE  Forms[j] \in currentUser'.filled
  BY DEF Wizard
<1>1. /\ TypeOK /\ Wizard /\ stray \subseteq stray'
      /\ Len(Forms) \in Nat \ {0} /\ DOMAIN Forms = 1 .. Len(Forms)
      /\ \A l \in DOMAIN Forms : Forms[l] \in Fields /\ Forms[l] # "photo"
      /\ \A l, m \in DOMAIN Forms : Forms[l] = Forms[m] => l = m
      /\ Len(stack) \in DOMAIN stack /\ stack[Len(stack)] = Top
      /\ "photo" \in Fields /\ "home" \notin Fields
  BY DocsGrow, TopRoute, FormFacts, FormsAssumption DEF SessionInv
<1>2. stack'[k] \in Entered /\ stack'[k] # "home"
  BY <1>1 DEF Entered
<1>3. ASSUME NEW m, NEW a, Opened(m, a, stack'[k])  PROVE FALSE
  <2>1. stack'[k] = "gender" /\ Forms[1] = "gender" /\ 1 \in DOMAIN Forms
    BY <1>2, <1>3, FormFacts DEF Opened
  <2>. QED  BY <1>1, <2>1
<1>4. ASSUME NEW l \in DOMAIN Forms, SubmitForm(l), stack'[k] = NextForm(l)
      PROVE  Forms[j] \in currentUser'.filled
  <2>1. Top = Forms[l] /\ UNCHANGED stray
        /\ currentUser' = [currentUser EXCEPT !.filled = @ \cup {Forms[l]}]
    BY <1>4 DEF SubmitForm
  <2>2. currentUser \in Models
    BY <1>1, <2>1, OwnModel DEF SessionInv, Entered
  <2>3. currentUser'.filled = currentUser.filled \cup {Forms[l]}
        /\ currentUser'.uid = currentUser.uid
    BY <2>1, <2>2 DEF Models
  <2>4. j < l \/ j = l
    BY <1>1, <1>4 DEF NextForm
  <2>5. j < l => Forms[j] \in currentUser.filled
    BY <1>1, <2>1, <2>3 DEF Wizard
  <2>. QED  BY <2>3, <2>4, <2>5
<1>5. ASSUME k \in DOMAIN stack, stack'[k] = stack[k], Top \in Entered,
             ~SignOut, ~Restart
      PROVE  Forms[j] \in currentUser'.filled
  <2>1. /\ currentUser'.uid = currentUser.uid
        /\ currentUser.filled \subseteq currentUser'.filled
    BY <1>5, ModelUnder
  <2>. QED  BY <1>1, <1>5, <2>1 DEF Wizard
<1>. QED  BY <1>2, <1>3, <1>4, <1>5, RouteOrigin

LEMMA CompleteStep == SessionInv /\ [Next]_vars => CompleteProfiles'
<1>. SUFFICES ASSUME SessionInv, [Next]_vars, NEW a \in Accounts, a \notin stray'
              PROVE  docs'[a] \in {NoDoc, Fields}
  BY DEF CompleteProfiles
<1>1. /\ a \notin stray /\ docs[a] \in {NoDoc, Fields}
      /\ SubmitPhoto \/ docs'[a] = docs[a]
      /\ docs \in [Accounts -> (SUBSET Fields) \cup {NoDoc}]
  BY DocsGrow DEF SessionInv, CompleteProfiles, TypeOK
<1>2. CASE SubmitPhoto /\ a = currentUser.uid
  <2>1. /\ Top = "photo" /\ "photo" \in currentUser.filled
        /\ docs' = [docs EXCEPT ![currentUser.uid] = currentUser.filled]
    BY <1>2 DEF SubmitPhoto, HasPhoto
  <2>2. currentUser.filled \in SUBSET Fields
    BY <2>1, OwnModel, FormFacts DEF SessionInv, Entered
  <2>3. ASSUME NEW j \in DOMAIN Forms  PROVE Forms[j] \in currentUser.filled
    <3>1. Len(stack) \in DOMAIN stack /\ stack[Len(stack)] = "photo"
      BY <2>1, TopRoute DEF SessionInv
    <3>. QED  BY <1>1, <1>2, <3>1 DEF SessionInv, Wizard
  <2>4. currentUser.filled = Fields
    <3>1. ASSUME NEW f \in Fields  PROVE f \in currentUser.filled
      BY <2>1, <2>3, FormFacts
    <3>. QED  BY <2>2, <3>1
  <2>. QED  BY <1>1, <1>2, <2>1, <2>4
<1>3. CASE SubmitPhoto /\ a # currentUser.uid
  BY <1>1, <1>3 DEF SubmitPhoto
<1>. QED  BY <1>1, <1>2, <1>3

LEMMA UndeliveredStep == SessionInv /\ [Next]_vars => Undelivered'
<1>. SUFFICES ASSUME SessionInv, [Next]_vars, signedIn' = NoUser, location',
                     NEW i \in DOMAIN events'
              PROVE  events'[i] = NoUser
  BY DEF Undelivered
<1>1. TypeOK /\ Undelivered /\ events \in Seq(Accounts \cup {NoUser})
  BY DEF SessionInv, TypeOK
<1>2. ASSUME UNCHANGED <<events, signedIn, location>>  PROVE events'[i] = NoUser
  BY <1>1, <1>2 DEF Undelivered
<1>3. ASSUME AuthEvent  PROVE events'[i] = NoUser
  <2>1. events # << >> /\ events' = Tail(events) /\ UNCHANGED <<signedIn, location>>
    BY <1>3 DEF AuthEvent
  <2>2. i \in 1 .. Len(Tail(events)) /\ Tail(events)[i] = events[i + 1]
        /\ i + 1 \in DOMAIN events
    BY <1>1, <2>1
  <2>. QED  BY <1>1, <2>1, <2>2 DEF Undelivered
<1>4. ASSUME LoginRedirect  PROVE events'[i] = NoUser
  <2>1. events' = << >>
    BY <1>4 DEF LoginRedirect, Delivered
  <2>. QED  BY <2>1
<1>5. ASSUME NEW a \in Accounts, SignIn(a)  PROVE FALSE
  BY <1>5, NoneAssumption DEF SignIn
<1>6. ~CodeAccepted /\ \A a \in Accounts : ~SignInArrives(a)
  <2>1. Top = "confirm" => number \in Accounts
    BY <1>1, TopRoute DEF SessionInv, Routes
  <2>. QED  BY <1>5, <2>1 DEF CodeAccepted, SignInArrives
<1>7. ~SignOut /\ ~Restart
  BY DEF SignOut, LocationLeft, Restart
<1>8. ASSUME \/ StartUp \/ (\E a \in Accounts : CodeSent(a) \/ SignInFails(a))
             \/ (\E r \in reads : ReadDone(r) \/ ReadFails(r))
             \/ (\E l \in DOMAIN Forms : SubmitForm(l))
             \/ AddPhoto \/ SubmitPhoto \/ SaveDone \/ Back \/ UNCHANGED vars
      PROVE  UNCHANGED <<events, signedIn, location>>
  BY <1>8 DEF StartUp, CodeSent, SignInFails, ReadDone, ReadFails, SubmitForm,
              AddPhoto, SubmitPhoto, SaveDone, Back, vars, phone
<1>. QED  BY <1>2, <1>3, <1>4, <1>6, <1>7, <1>8 DEF Next

LEMMA SignedOutStep == SessionInv /\ [Next]_vars => SignedOutForgotten'
<1>. SUFFICES ASSUME SessionInv, [Next]_vars, signedIn' = NoUser,
                     currentUser' # NoUser
              PROVE  currentUser'.uid \in stray'
  BY DEF SignedOutForgotten
<1>1. /\ TypeOK /\ Undelivered /\ SignedOutForgotten /\ stray \subseteq stray'
      /\ events \in Seq(Accounts \cup {NoUser})
      /\ Top \in Entered => currentUser \in Models
  BY DocsGrow, OwnModel DEF SessionInv, TypeOK
<1>2. ASSUME UNCHANGED <<signedIn, currentUser>>  PROVE currentUser'.uid \in stray'
  BY <1>1, <1>2 DEF SignedOutForgotten
<1>3. ASSUME AuthEvent  PROVE currentUser'.uid \in stray'
  <2>1. UNCHANGED <<signedIn, location>> /\ events # << >>
    BY <1>3 DEF AuthEvent
  <2>2. 1 \in DOMAIN events /\ Head(events) = events[1]
    BY <1>1, <2>1
  <2>3. location => Head(events) = NoUser
    BY <1>1, <2>1, <2>2 DEF Undelivered
  <2>4. currentUser' = currentUser
    BY <1>3, <2>3 DEF AuthEvent
  <2>. QED  BY <1>2, <2>1, <2>4
<1>4. ASSUME NEW r \in reads, ReadDone(r)  PROVE currentUser'.uid \in stray'
  <2>1. signedIn' = signedIn /\ ~r.live
    BY <1>4, LiveReadsConfirm DEF ReadDone
  <2>2. ASSUME NEW m \in Models, m.uid = r.uid, Continue(r, m)
        PROVE  currentUser'.uid \in stray'
    BY <2>1, <2>2 DEF Continue
  <2>. QED  BY <1>2, <1>4, <2>1, <2>2, ReadEffect
<1>5. ASSUME AddPhoto \/ \E i \in DOMAIN Forms : SubmitForm(i)
      PROVE  currentUser'.uid \in stray'
  <2>1. PICK f \in Fields :
            currentUser' = [currentUser EXCEPT !.filled = @ \cup {f}]
    BY <1>5, FormFacts DEF AddPhoto, SubmitForm
  <2>2. Top \in Entered
    BY <1>5, FormFacts DEF AddPhoto, SubmitForm, Entered
  <2>3. currentUser'.uid = currentUser.uid /\ currentUser # NoUser
    BY <1>1, <2>1, <2>2, NoneAssumption DEF Models
  <2>4. UNCHANGED <<signedIn, stray>>
    BY <1>5 DEF AddPhoto, SubmitForm
  <2>. QED  BY <1>1, <2>3, <2>4 DEF SignedOutForgotten
<1>6. ~SignOut /\ ~Restart
  BY DEF SignOut, Restart
<1>7. ~CodeAccepted /\ \A a \in Accounts : ~SignInArrives(a)
  <2>1. Top = "confirm" => number \in Accounts
    BY <1>1, TopRoute DEF SessionInv, Routes
  <2>. QED  BY <2>1, NoneAssumption DEF CodeAccepted, SignInArrives, SignIn
<1>8. ASSUME StartUp  PROVE UNCHANGED <<signedIn, currentUser>>
  BY <1>8 DEF StartUp
<1>9. ASSUME \/ LoginRedirect \/ (\E a \in Accounts : CodeSent(a) \/ SignInFails(a))
             \/ (\E r \in reads : ReadFails(r))
             \/ SubmitPhoto \/ SaveDone \/ Back \/ UNCHANGED vars
      PROVE  UNCHANGED <<signedIn, currentUser>>
  BY <1>9 DEF LoginRedirect, CodeSent, SignInFails, ReadFails, SubmitPhoto,
              SaveDone, Back, vars, phone
<1>. QED  BY <1>2, <1>3, <1>4, <1>5, <1>6, <1>7, <1>8, <1>9 DEF Next

LEMMA SessionInvariant == Spec => []SessionInv
<1>1. SessionInv /\ [Next]_vars => SessionInv'
  BY TypeStep, RoutesStep, ReadingStep, OwnerStep, StoredStep, WizardStep,
     CompleteStep, UndeliveredStep, SignedOutStep DEF SessionInv
<1>. QED  BY <1>1, SessionInit, PTL DEF Spec

-----------------------------------------------------------------------------
(***************************************************************************)
(* Every state is well typed: no handler that goes on after its page was   *)
(* popped empties the stack or makes a model of no account.                *)
(***************************************************************************)
THEOREM TypeCorrect == Spec => []TypeOK
<1>1. SessionInv => TypeOK
  BY DEF SessionInv
<1>. QED  BY <1>1, SessionInvariant, PTL

(***************************************************************************)
(* The wizard and Home have a model, of the account that is signed in,     *)
(* unless a sign-in or a read came after its page had gone: whatever       *)
(* restarts, sign-outs and reads overlap (getCurrentUser, which            *)
(* PageLoginConfirm awaits; Home reads the model without a null check).    *)
(***************************************************************************)
THEOREM ModelIsOwn == Spec => []OwnProfile
<1>1. SessionInv => OwnProfile
  BY TopRoute DEF SessionInv, Owner, OwnProfile, Entered
<1>. QED  BY <1>1, SessionInvariant, PTL

(***************************************************************************)
(* Home is only reached by an account with a document, at start-up, after  *)
(* the code, and through the wizard.                                       *)
(***************************************************************************)
THEOREM HomeNeedsDocument == Spec => []HomeRegistered
<1>1. SessionInv => HomeRegistered
  BY TopRoute DEF SessionInv, Stored, HomeRegistered
<1>. QED  BY <1>1, SessionInvariant, PTL

(***************************************************************************)
(* A stored document has all the fields of the wizard, however often its   *)
(* pages are left and entered again, for a wizard of any length.           *)
(***************************************************************************)
THEOREM ProfilesComplete == Spec => []CompleteProfiles
<1>1. SessionInv => CompleteProfiles
  BY DEF SessionInv
<1>. QED  BY <1>1, SessionInvariant, PTL

(***************************************************************************)
(* Nobody's model is there, or comes back, when nobody is signed in: the   *)
(* sign-in event that signOut overtakes finds no location.                 *)
(***************************************************************************)
THEOREM SignedOutIsForgotten == Spec => []SignedOutForgotten
<1>1. SessionInv => SignedOutForgotten
  BY DEF SessionInv
<1>. QED  BY <1>1, SessionInvariant, PTL

=============================================================================
