------------------------ MODULE ProfilePhotosProofs ------------------------
(***************************************************************************)
(* Theorems about ProfilePhotos, for every value of the constants that     *)
(* BoundsAssumption and NoneAssumption allow.                              *)
(***************************************************************************)
EXTENDS ProfilePhotos, SequenceLemmas, FiniteSetTheorems

(***************************************************************************)
(* TypeOK is not inductive.  Models and uploads name list objects that     *)
(* exist (ListsInv); a page has a list and somebody signed in, and only    *)
(* the open page waits for an upload, on its own list (PageInv).           *)
(***************************************************************************)
ListsInv ==
    /\ user # NoUser => user.list <= Len(lists)
    /\ \A up \in uploads : up.list \in 1 .. Len(lists) /\ up.photo.n <= count

PageInv ==
    /\ sheets + count <= MaxPhotos
    /\ drag = NoDrag \/ (drag.from # 0 /\ drag.to # 0)
    /\ page = "none" <=> shown = 0
    /\ page # "none" => user # NoUser
    /\ page = "none" => sheets = 0 /\ ~submit /\ drag = NoDrag
    /\ \A up \in uploads : up.live => page # "none" /\ up.list = shown

ScreenInv == ListsInv /\ PageInv

\* A model without a cover has no photos, and neither does its page, so that
\* nothing is stored without a cover.
CoverInv ==
    /\ page = "profile" => Registered(user.uid)
    /\ user # NoUser /\ user.url = NoPhoto =>
          Mine(user) = << >> /\ Present = << >> /\ ~Registered(user.uid) /\ ~submit

\* What is drawn is bounded because a list grows by uploads only: none holds
\* more than a first photo and the uploads that have ended.
Room == 1 + count - Cardinality(uploads)

FitInv ==
    /\ IsFiniteSet(uploads) /\ Cardinality(uploads) <= count
    /\ \A l \in 1 .. Len(lists) : Len(lists[l]) <= Room
    /\ \A a \in Accounts : Registered(a) => Len(stored[a].photos) <= Room
    /\ built <= 1 + count

StateInv == TypeOK /\ ScreenInv /\ CoverInv /\ FitInv

-----------------------------------------------------------------------------
(* What the parts of an action do. *)

LEMMA TypeFacts ==
    ASSUME TypeOK
    PROVE  /\ lists \in Seq(Seq(Photos)) /\ Len(lists) \in Nat
           /\ DOMAIN lists = 1 .. Len(lists)
           /\ \A l \in 1 .. Len(lists) : lists[l] \in Seq(Photos) /\ Len(lists[l]) \in Nat
           /\ \A a \in Accounts : Registered(a) =>
                 /\ stored[a] \in Docs /\ stored[a].photos \in Seq(Photos)
                 /\ Len(stored[a].photos) \in Nat /\ stored[a].url \in Photos
           /\ user # NoUser => /\ user \in Users /\ user.uid \in Accounts
                               /\ user.list \in 0 .. MaxLists
                               /\ user.url \in Photos \cup {NoPhoto}
           /\ NoPhoto \notin Photos
           /\ Present \in Seq(Photos) /\ Len(Present) \in Nat
<1>1. lists \in Seq(Seq(Photos)) /\ Len(lists) \in Nat /\ DOMAIN lists = 1 .. Len(lists)
  BY DEF TypeOK
<1>2. \A l \in 1 .. Len(lists) : lists[l] \in Seq(Photos)
  BY <1>1
<1>3. \A l \in 1 .. Len(lists) : Len(lists[l]) \in Nat
  BY <1>2
<1>4. ASSUME NEW a \in Accounts, Registered(a)
      PROVE  /\ stored[a] \in Docs /\ stored[a].photos \in Seq(Photos)
             /\ Len(stored[a].photos) \in Nat /\ stored[a].url \in Photos
  <2>1. stored[a] \in Docs
    BY <1>4 DEF TypeOK, Registered
  <2>2. stored[a].photos \in Seq(Photos) /\ stored[a].url \in Photos
    BY <2>1 DEF Docs
  <2>. QED  BY <2>1, <2>2
<1>5. user # NoUser => /\ user \in Users /\ user.uid \in Accounts
                       /\ user.list \in 0 .. MaxLists
                       /\ user.url \in Photos \cup {NoPhoto}
  BY DEF TypeOK, Users
<1>6. NoPhoto \notin Photos
  BY BoundsAssumption DEF NoPhoto, Photos
<1>7. Present \in Seq(Photos)
  <2>1. CASE shown = 0
    BY <2>1 DEF Present
  <2>2. CASE shown # 0
    <3>1. shown \in 1 .. Len(lists)
      BY <1>1, <2>2 DEF TypeOK
    <3>. QED  BY <1>2, <2>2, <3>1 DEF Present
  <2>. QED  BY <2>1, <2>2
<1>8. Len(Present) \in Nat
  BY <1>7
<1>. QED  BY <1>1, <1>2, <1>3, <1>4, <1>5, <1>6, <1>7, <1>8

\* One list object changes.
LEMMA ListFacts ==
    ASSUME NEW ls \in Seq(Seq(Photos)), NEW l \in 1 .. Len(ls), NEW s \in Seq(Photos)
    PROVE  /\ [ls EXCEPT ![l] = s] \in Seq(Seq(Photos))
           /\ Len([ls EXCEPT ![l] = s]) = Len(ls)
           /\ [ls EXCEPT ![l] = s][l] = s
           /\ \A k \in 1 .. Len(ls) : k # l => [ls EXCEPT ![l] = s][k] = ls[k]
<1> DEFINE n == Len(ls)
           f == [ls EXCEPT ![l] = s]
<1>1. n \in Nat /\ ls \in [1 .. n -> Seq(Photos)]
  OBVIOUS
<1>2. f \in [1 .. n -> Seq(Photos)]
  BY <1>1
<1>3. f \in Seq(Seq(Photos)) /\ Len(f) = n
  BY <1>1, <1>2
<1>. QED  BY <1>1, <1>3

\* What is left behind when the list object l, which now holds s, is put into
\* the model and, on PageProfile, into the document.
Edited(l, s) ==
    /\ lists' \in Seq(Seq(Photos)) /\ Len(lists') = Len(lists)
    /\ lists'[l] = s
    /\ \A k \in 1 .. Len(lists) : k # l => lists'[k] = lists[k]
    /\ user' \in Users /\ user' # NoUser
    /\ user'.uid = user.uid /\ user'.list = l /\ Mine(user)' = s
    /\ user'.url \in Photos /\ user'.url # NoPhoto
    /\ user'.url = IF s = << >> THEN user.url ELSE Head(s)
    /\ stored' \in [Accounts -> Docs \cup {NoDoc}]
    /\ \A a \in Accounts : Registered(a)' <=> Registered(a)
    /\ \A a \in Accounts : a # user.uid \/ page # "profile" => stored'[a] = stored[a]
    /\ page = "profile" => /\ stored'[user.uid].photos = s
                           /\ stored'[user.uid].url = user'.url

\* setPhotos does that.
LEMMA EditFacts ==
    ASSUME TypeOK, ScreenInv, CoverInv, user # NoUser,
           NEW l \in 1 .. Len(lists), NEW s \in Seq(Photos),
           lists' = [lists EXCEPT ![l] = s],
           SetPhotos(l),
           s # << >> \/ user.url # NoPhoto
    PROVE  Edited(l, s)
<1>1. /\ lists' \in Seq(Seq(Photos)) /\ Len(lists') = Len(lists) /\ lists'[l] = s
      /\ \A k \in 1 .. Len(lists) : k # l => lists'[k] = lists[k]
  BY TypeFacts, ListFacts
<1>2. l \in 0 .. MaxLists /\ l # 0
  BY BoundsAssumption DEF TypeOK
<1> DEFINE url == IF s = << >> THEN user.url ELSE Head(s)
<1>3. url \in Photos /\ url # NoPhoto
  <2>1. CASE s = << >>
    BY <2>1, TypeFacts
  <2>2. CASE s # << >>
    <3>1. Head(s) \in Photos
      BY <2>2
    <3>. QED  BY <2>2, <3>1, TypeFacts
  <2>. QED  BY <2>1, <2>2
<1>4. UrlOf(user, lists'[l]) = url
  BY <1>1 DEF UrlOf
<1> HIDE DEF url
<1>5. user' = [user EXCEPT !.list = l, !.url = url]
  BY <1>4 DEF SetPhotos
<1>6. user \in [uid : Accounts, list : 0 .. MaxLists, url : Photos \cup {NoPhoto}]
  BY TypeFacts DEF Users
<1>7. user' \in Users /\ user'.uid = user.uid /\ user'.list = l /\ user'.url = url
  BY <1>2, <1>3, <1>5, <1>6 DEF Users
<1>8. user' # NoUser /\ Mine(user)' = s
  BY <1>1, <1>2, <1>7, NoneAssumption DEF Mine
<1>9. user.uid \in Accounts /\ stored \in [Accounts -> Docs \cup {NoDoc}]
  BY TypeFacts DEF TypeOK
<1>10. stored' = IF page = "profile"
                 THEN [stored EXCEPT ![user.uid] = [photos |-> s, url |-> url]]
                 ELSE stored
  BY <1>1, <1>4 DEF SetPhotos, Saved
<1>11. [photos |-> s, url |-> url] \in Docs /\ [photos |-> s, url |-> url] # NoDoc
  BY <1>3, NoneAssumption DEF Docs
<1>12. /\ stored' \in [Accounts -> Docs \cup {NoDoc}]
       /\ \A a \in Accounts : a # user.uid \/ page # "profile" => stored'[a] = stored[a]
       /\ page = "profile" => stored'[user.uid] = [photos |-> s, url |-> url]
  BY <1>9, <1>10, <1>11
<1>13. \A a \in Accounts : Registered(a)' <=> Registered(a)
  <2>. TAKE a \in Accounts
  <2>1. CASE page = "profile" /\ a = user.uid
    <3>1. Registered(a)
      BY <2>1 DEF CoverInv
    <3>2. stored'[a] # NoDoc
      BY <1>11, <1>12, <2>1
    <3>. QED  BY <3>1, <3>2 DEF Registered
  <2>2. CASE ~(page = "profile" /\ a = user.uid)
    BY <1>12, <2>2 DEF Registered
  <2>. QED  BY <2>1, <2>2
<1>14. page = "profile" => stored'[user.uid].photos = s /\ stored'[user.uid].url = url
  BY <1>12
<1>. QED  BY <1>1, <1>3, <1>7, <1>8, <1>12, <1>13, <1>14 DEF url, Edited

\* The minus button, when its photo is there.
LEMMA RemoveEdits ==
    ASSUME TypeOK, ScreenInv, CoverInv, NEW i \in 1 .. Slots, RemovePhoto(i), i <= Len(Present)
    PROVE  /\ shown \in 1 .. Len(lists) /\ Present = lists[shown] /\ Present # << >>
           /\ page # "none" /\ user # NoUser
           /\ i \in 1 .. Len(Present)
           /\ RemoveAt(Present, i) \in Seq(Photos)
           /\ Len(RemoveAt(Present, i)) = Len(Present) - 1
           /\ Edited(shown, RemoveAt(Present, i))
<1>1. Present \in Seq(Photos) /\ Len(Present) \in Nat /\ Len(lists) \in Nat
  BY TypeFacts
<1>2. i \in 1 .. Len(Present) /\ Present # << >>
  BY <1>1, BoundsAssumption
<1>3. page # "none" /\ user # NoUser /\ shown # 0
  BY DEF RemovePhoto, ScreenInv, ListsInv, PageInv
<1>4. shown \in 1 .. Len(lists) /\ Present = lists[shown]
  BY <1>1, <1>3 DEF TypeOK, Present
<1> DEFINE s == RemoveAt(Present, i)
<1>5. s \in Seq(Photos) /\ Len(s) = Len(Present) - 1
  BY <1>1, <1>2, RemoveAtFacts
<1>6. user.url # NoPhoto
  BY <1>2, <1>3 DEF CoverInv
<1>7. lists' = [lists EXCEPT ![shown] = s] /\ SetPhotos(shown)
  BY <1>4 DEF RemovePhoto
<1> HIDE DEF s
<1>8. Edited(shown, s)
  BY <1>3, <1>4, <1>5, <1>6, <1>7, EditFacts
<1>. QED  BY <1>2, <1>3, <1>4, <1>5, <1>8 DEF s

\* A drop that finds its photo, and the list without it.
LEMMA DropTakes ==
    ASSUME TypeOK, ScreenInv, CoverInv, drag # NoDrag, drag.from <= Len(Present)
    PROVE  /\ shown \in 1 .. Len(lists) /\ Present = lists[shown] /\ Present # << >>
           /\ page # "none" /\ user # NoUser /\ user.url # NoPhoto
           /\ drag.from \in 1 .. Len(Present) /\ Present[drag.from] \in Photos
           /\ RemoveAt(Present, drag.from) \in Seq(Photos)
           /\ Len(RemoveAt(Present, drag.from)) = Len(Present) - 1
<1>1. Present \in Seq(Photos) /\ Len(Present) \in Nat /\ Len(lists) \in Nat
  BY TypeFacts
<1>2. page # "none" /\ user # NoUser /\ shown # 0
  BY DEF ScreenInv, ListsInv, PageInv
<1>3. shown \in 1 .. Len(lists) /\ Present = lists[shown]
  BY <1>1, <1>2 DEF TypeOK, Present
<1>4. drag.from \in 1 .. Len(Present) /\ Present # << >>
  <2>1. drag.from \in 0 .. Slots /\ drag.from # 0
    BY DEF TypeOK, ScreenInv, ListsInv, PageInv
  <2>2. drag.from \in 1 .. Len(Present)
    BY <1>1, <2>1, BoundsAssumption
  <2>. QED  BY <2>2
<1>5. user.url # NoPhoto
  BY <1>2, <1>4 DEF CoverInv
<1>6. RemoveAt(Present, drag.from) \in Seq(Photos) /\ Len(RemoveAt(Present, drag.from)) = Len(Present) - 1
  BY <1>1, <1>4, RemoveAtFacts
<1>. QED  BY <1>1, <1>2, <1>3, <1>4, <1>5, <1>6

\* A drop whose slot is there too.
Dropped == InsertAt(RemoveAt(Present, drag.from), drag.to, Present[drag.from])

LEMMA DropEdits ==
    ASSUME TypeOK, ScreenInv, CoverInv, drag # NoDrag, drag.from <= Len(Present),
           drag.to - 1 <= Len(RemoveAt(Present, drag.from)),
           lists' = [lists EXCEPT ![shown] = Dropped],
           SetPhotos(shown)
    PROVE  /\ Dropped \in Seq(Photos) /\ Len(Dropped) = Len(Present) /\ Dropped # << >>
           /\ Edited(shown, Dropped)
<1> DEFINE r == RemoveAt(Present, drag.from)
           n == Len(Present)
<1>1. /\ shown \in 1 .. Len(lists) /\ user # NoUser /\ user.url # NoPhoto
      /\ n \in Nat /\ drag.from \in 1 .. n /\ Present[drag.from] \in Photos
      /\ r \in Seq(Photos) /\ Len(r) = n - 1
  BY DropTakes, TypeFacts
<1>2. drag.to \in 0 .. Slots /\ drag.to # 0 /\ drag.to - 1 <= Len(r)
  BY DEF TypeOK, ScreenInv, ListsInv, PageInv
<1> HIDE DEF r, n
<1>3. drag.to \in 1 .. Len(r) + 1
  BY <1>1, <1>2, BoundsAssumption
<1>4. Dropped = InsertAt(r, drag.to, Present[drag.from])
  BY DEF Dropped, r
<1>5. Dropped \in Seq(Photos) /\ Len(Dropped) = Len(r) + 1
  BY <1>1, <1>3, <1>4, InsertAtFacts
<1>6. Len(Dropped) = n /\ n # 0
  BY <1>1, <1>5
<1>7. Dropped # << >>
  BY <1>5, <1>6
<1>8. Edited(shown, Dropped)
  BY <1>1, <1>5, <1>7, EditFacts
<1>. QED  BY <1>5, <1>6, <1>7, <1>8 DEF n

\* An upload's photo is added to its list.
LEMMA AddEdits ==
    ASSUME TypeOK, ScreenInv, CoverInv, user # NoUser, NEW up \in uploads,
           AddPhoto(up), SetPhotos(up.list)
    PROVE  /\ up \in Uploads /\ up.list \in 1 .. Len(lists)
           /\ lists[up.list] \in Seq(Photos) /\ up.photo \in Photos
           /\ Edited(up.list, Append(lists[up.list], up.photo))
<1>1. up \in Uploads /\ up.photo \in Photos
  BY DEF TypeOK, Uploads
<1>2. up.list \in 1 .. Len(lists)
  BY DEF ScreenInv, ListsInv, PageInv
<1> DEFINE s == lists[up.list]
           t == Append(s, up.photo)
<1>3. s \in Seq(Photos)
  BY <1>2, TypeFacts
<1>4. lists' = [lists EXCEPT ![up.list] = t]
  BY <1>2 DEF AddPhoto
<1> HIDE DEF s
<1>5. t \in Seq(Photos) /\ t # << >>
  BY <1>1, <1>3, AppendFacts
<1> HIDE DEF t
<1>6. Edited(up.list, t)
  BY <1>2, <1>4, <1>5, EditFacts
<1>. QED  BY <1>1, <1>2, <1>3, <1>6 DEF s, t

\* The same when nobody is signed in: the list alone changes.
LEMMA AddWithout ==
    ASSUME TypeOK, ScreenInv, NEW up \in uploads, AddPhoto(up)
    PROVE  /\ up.list \in 1 .. Len(lists)
           /\ lists' \in Seq(Seq(Photos)) /\ Len(lists') = Len(lists)
           /\ lists[up.list] \in Seq(Photos) /\ up.photo \in Photos
           /\ lists'[up.list] = Append(lists[up.list], up.photo)
           /\ \A k \in 1 .. Len(lists) : k # up.list => lists'[k] = lists[k]
<1>1. up.photo \in Photos
  BY DEF TypeOK, Uploads
<1>2. up.list \in 1 .. Len(lists)
  BY DEF ScreenInv, ListsInv, PageInv
<1> DEFINE s == lists[up.list]
           t == Append(s, up.photo)
<1>3. s \in Seq(Photos)
  BY <1>2, TypeFacts
<1>4. lists' = [lists EXCEPT ![up.list] = t]
  BY <1>2 DEF AddPhoto
<1> HIDE DEF s
<1>5. t \in Seq(Photos)
  BY <1>1, <1>3, AppendFacts
<1> HIDE DEF t
<1>6. lists \in Seq(Seq(Photos))
  BY TypeFacts
<1>7. /\ lists' \in Seq(Seq(Photos)) /\ Len(lists') = Len(lists)
      /\ lists'[up.list] = t
      /\ \A k \in 1 .. Len(lists) : k # up.list => lists'[k] = lists[k]
  BY <1>2, <1>4, <1>5, <1>6, ListFacts
<1>. QED  BY <1>1, <1>2, <1>3, <1>7 DEF s, t

\* A page that closes leaves its uploads, with nobody waiting for them.
LEMMA ClosedFacts ==
    ASSUME TypeOK, Closed
    PROVE  /\ uploads' \subseteq Uploads
           /\ \A vp \in uploads' : /\ ~vp.live
                                   /\ \E up \in uploads : vp.list = up.list /\ vp.photo = up.photo
           /\ IsFiniteSet(uploads) => /\ IsFiniteSet(uploads')
                                      /\ Cardinality(uploads') <= Cardinality(uploads)
<1> DEFINE f == [up \in uploads |-> [up EXCEPT !.live = FALSE]]
<1>1. uploads' = {[up EXCEPT !.live = FALSE] : up \in uploads}
  BY DEF Closed
<1>2. \A up \in uploads : up \in [photo : Photos, list : 1 .. MaxLists, live : BOOLEAN]
  BY DEF TypeOK, Uploads
<1>3. ASSUME NEW vp \in uploads'
      PROVE  /\ vp \in Uploads /\ ~vp.live
             /\ \E up \in uploads : vp.list = up.list /\ vp.photo = up.photo
  <2>1. PICK up \in uploads : vp = [up EXCEPT !.live = FALSE]
    BY <1>1
  <2>2. vp \in Uploads /\ ~vp.live /\ vp.list = up.list /\ vp.photo = up.photo
    BY <1>2, <2>1 DEF Uploads
  <2>. QED  BY <2>2
<1>4. f \in Surjection(uploads, uploads')
  <2>1. f \in [uploads -> uploads']
    BY <1>1
  <2>2. \A vp \in uploads' : \E up \in uploads : f[up] = vp
    BY <1>1
  <2>. QED  BY <2>1, <2>2 DEF Surjection
<1> HIDE DEF f
<1>5. IsFiniteSet(uploads) => IsFiniteSet(uploads') /\ Cardinality(uploads') <= Cardinality(uploads)
  BY <1>4, FS_Surjection
<1>. QED  BY <1>3, <1>5

\* Signing in: a registered account's list is a new object.
LEMMA LoginFacts ==
    ASSUME TypeOK, ScreenInv, NEW a \in Accounts, Login(a)
    PROVE  /\ page = "none" /\ shown = 0 /\ user = NoUser /\ ~submit
           /\ lists' \in Seq(Seq(Photos)) /\ Len(lists) <= Len(lists') /\ Len(lists') <= MaxLists
           /\ \A k \in 1 .. Len(lists) : lists'[k] = lists[k]
           /\ \A k \in 1 .. Len(lists') :
                 \/ k \in 1 .. Len(lists)
                 \/ Registered(a) /\ lists'[k] = stored[a].photos
           /\ user' \in Users /\ user' # NoUser /\ user'.uid = a
           /\ user'.list \in 0 .. Len(lists')
           /\ Registered(a) => /\ user'.list # 0 /\ Mine(user)' = stored[a].photos
                               /\ user'.url = stored[a].url /\ user'.url # NoPhoto
           /\ ~Registered(a) => /\ Mine(user)' = << >> /\ user'.url = NoPhoto
                                /\ user'.list = 0 /\ lists' = lists
<1>1. user = NoUser
  BY DEF Login
<1>2. page = "none" /\ shown = 0 /\ ~submit
  BY <1>1 DEF ScreenInv, ListsInv, PageInv
<1>3. lists \in Seq(Seq(Photos)) /\ Len(lists) \in Nat /\ Len(lists) <= MaxLists /\ MaxLists \in Nat
  BY TypeFacts, BoundsAssumption DEF TypeOK
<1>4. CASE Registered(a)
  <2> DEFINE n == Len(lists) + 1
             s == stored[a].photos
             url == stored[a].url
  <2>1. s \in Seq(Photos) /\ url \in Photos /\ url # NoPhoto
    BY <1>4, TypeFacts
  <2>2. lists' = Append(lists, s) /\ user' = [uid |-> a, list |-> Len(lists'), url |-> url]
        /\ Len(lists) < MaxLists
    BY <1>4 DEF Login
  <2> HIDE DEF s, url
  <2>3. /\ lists' \in Seq(Seq(Photos)) /\ Len(lists') = n /\ lists'[n] = s
        /\ \A k \in 1 .. Len(lists) : lists'[k] = lists[k]
    BY <1>3, <2>1, <2>2, AppendFacts
  <2>4. n \in 1 .. MaxLists /\ \A k \in 1 .. n : k \in 1 .. Len(lists) \/ k = n
    BY <1>3, <2>2
  <2>5. user' \in Users /\ user'.uid = a /\ user'.list = n /\ user'.url = url
    BY <2>1, <2>2, <2>3, <2>4 DEF Users
  <2>6. user' # NoUser /\ Mine(user)' = s /\ n # 0
    BY <1>3, <2>3, <2>4, <2>5, NoneAssumption DEF Mine
  <2>7. /\ Len(lists) <= Len(lists') /\ Len(lists') <= MaxLists
        /\ user'.list \in 0 .. Len(lists') /\ user'.list # 0
    BY <1>3, <2>3, <2>4, <2>5
  <2>8. \A k \in 1 .. Len(lists') : k \in 1 .. Len(lists) \/ lists'[k] = s
    BY <2>3, <2>4
  <2>9. user'.url = url /\ user'.url # NoPhoto
    BY <2>1, <2>5
  <2>10. s = stored[a].photos /\ url = stored[a].url
    BY DEF s, url
  <2>. HIDE DEF n
  <2>. QED  BY <1>1, <1>2, <1>4, <2>3, <2>5, <2>6, <2>7, <2>8, <2>9, <2>10
<1>5. CASE ~Registered(a)
  <2>1. lists' = lists /\ user' = [uid |-> a, list |-> 0, url |-> NoPhoto]
    BY <1>5 DEF Login, NewModel
  <2>2. user' \in Users /\ user'.uid = a /\ user'.list = 0 /\ user'.url = NoPhoto
    BY <1>3, <2>1 DEF Users
  <2>3. user' # NoUser /\ Mine(user)' = << >>
    BY <2>2, NoneAssumption DEF Mine
  <2>4. /\ lists' \in Seq(Seq(Photos)) /\ Len(lists) <= Len(lists') /\ Len(lists') <= MaxLists
        /\ user'.list \in 0 .. Len(lists')
    BY <1>3, <2>1, <2>2
  <2>5. lists' = lists
    BY <2>1
  <2>. QED  BY <1>1, <1>2, <1>5, <2>2, <2>3, <2>4, <2>5
<1>. QED  BY <1>4, <1>5

\* The wizard's page: a new, empty list object.
LEMMA SelectFacts ==
    ASSUME TypeOK, ScreenInv, OpenSelectPhoto
    PROVE  /\ page = "none" /\ user # NoUser /\ ~Registered(user.uid)
           /\ lists' \in Seq(Seq(Photos)) /\ Len(lists') = Len(lists) + 1 /\ Len(lists') <= MaxLists
           /\ \A k \in 1 .. Len(lists) : lists'[k] = lists[k]
           /\ shown' = Len(lists') /\ shown' # 0 /\ lists'[shown'] = << >> /\ Present' = << >>
           /\ page' = "select" /\ built' = 0
           /\ Mine(user)' = Mine(user) /\ (submit' <=> Mine(user) # << >>)
<1>1. lists \in Seq(Seq(Photos)) /\ Len(lists) \in Nat /\ MaxLists \in Nat
  BY TypeFacts, BoundsAssumption
<1> DEFINE n == Len(lists) + 1
<1>2. /\ page = "none" /\ user # NoUser /\ ~Registered(user.uid) /\ Len(lists) < MaxLists
      /\ lists' = Append(lists, << >>) /\ shown' = Len(lists') /\ page' = "select"
      /\ user' = user
      /\ built' = Len(lists'[Len(lists')])
      /\ submit' = ("select" = "select" /\ Mine(user) # << >>)
  BY DEF OpenSelectPhoto, Show
<1>3. << >> \in Seq(Photos)
  OBVIOUS
<1>4. /\ lists' \in Seq(Seq(Photos)) /\ Len(lists') = n /\ lists'[n] = << >>
      /\ \A k \in 1 .. Len(lists) : lists'[k] = lists[k]
  BY <1>1, <1>2, <1>3, AppendFacts
<1>5. n # 0 /\ n <= MaxLists
  BY <1>1, <1>2
<1>6. shown' = n /\ lists'[shown'] = << >> /\ built' = 0
  BY <1>2, <1>4
<1>7. Present' = << >>
  BY <1>5, <1>6 DEF Present
<1>8. user.list \in 0 .. Len(lists)
  <2>1. user.list \in Nat /\ user.list <= Len(lists)
    BY <1>2, TypeFacts DEF ScreenInv, ListsInv, PageInv
  <2>. QED  BY <1>1, <2>1
<1>9. Mine(user)' = Mine(user)
  BY <1>2, <1>4, <1>8 DEF Mine
<1>10. submit' <=> Mine(user) # << >>
  BY <1>2
<1>. QED  BY <1>2, <1>4, <1>5, <1>6, <1>7, <1>9, <1>10

\* PageProfile: the model's list object.
LEMMA ProfileFacts ==
    ASSUME TypeOK, ScreenInv, OpenProfile
    PROVE  /\ page = "none" /\ user # NoUser /\ Registered(user.uid) /\ lists' = lists
           /\ shown' = user.list /\ shown' \in 1 .. Len(lists) /\ Present' = Mine(user)
           /\ page' = "profile" /\ built' = Len(lists[user.list]) /\ ~submit'
<1>1. /\ page = "none" /\ user # NoUser /\ Registered(user.uid) /\ user.list # 0
      /\ lists' = lists /\ shown' = user.list /\ page' = "profile"
      /\ built' = Len(lists[user.list])
      /\ submit' = ("profile" = "select" /\ Mine(user) # << >>)
  BY DEF OpenProfile, Show
<1>2. user.list \in 1 .. Len(lists)
  <2>1. user.list \in Nat /\ user.list <= Len(lists) /\ Len(lists) \in Nat
    BY <1>1, TypeFacts DEF ScreenInv, ListsInv, PageInv
  <2>. QED  BY <1>1, <2>1
<1>3. Present' = Mine(user)
  BY <1>1 DEF Present, Mine
<1>. QED  BY <1>1, <1>2, <1>3

-----------------------------------------------------------------------------
(* FitInv *)

LEMMA RoomFacts ==
    ASSUME TypeOK, FitInv
    PROVE  /\ count \in Nat /\ Cardinality(uploads) \in Nat
           /\ Room \in Nat /\ 1 <= Room /\ Room <= 1 + count
           /\ uploads' = uploads /\ count' = count =>
                 /\ IsFiniteSet(uploads') /\ Cardinality(uploads') <= count'
                 /\ Room' = Room
<1>1. count \in Nat
  BY BoundsAssumption DEF TypeOK
<1>2. IsFiniteSet(uploads) /\ Cardinality(uploads) <= count
  BY DEF FitInv
<1>3. Cardinality(uploads) \in Nat
  BY <1>2, FS_CardinalityType
<1>4. Room \in Nat /\ 1 <= Room /\ Room <= 1 + count
  BY <1>1, <1>2, <1>3 DEF Room
<1>5. ASSUME uploads' = uploads, count' = count
      PROVE  IsFiniteSet(uploads') /\ Cardinality(uploads') <= count' /\ Room' = Room
  BY <1>2, <1>5 DEF Room
<1>. QED  BY <1>1, <1>3, <1>4, <1>5

\* An upload that ends leaves room for its photo.
LEMMA EndFacts ==
    ASSUME TypeOK, FitInv, NEW up \in uploads, uploads' = uploads \ {up}, count' = count
    PROVE  /\ IsFiniteSet(uploads') /\ Cardinality(uploads') <= count'
           /\ Room' = Room + 1
<1>1. IsFiniteSet(uploads) /\ Cardinality(uploads) <= count
  BY DEF FitInv
<1>2. IsFiniteSet(uploads') /\ Cardinality(uploads') = Cardinality(uploads) - 1
  BY <1>1, FS_RemoveElement
<1>3. Room' = 1 + count - (Cardinality(uploads) - 1)
  BY <1>2 DEF Room
<1>. QED  BY <1>1, <1>2, <1>3, RoomFacts DEF Room

\* An upload that starts is counted.
LEMMA StartFacts ==
    ASSUME TypeOK, FitInv, NEW up, uploads' = uploads \cup {up}, count' = count + 1
    PROVE  /\ IsFiniteSet(uploads') /\ Cardinality(uploads') <= count'
           /\ Room' \in Nat /\ Room <= Room'
<1>1. IsFiniteSet(uploads) /\ Cardinality(uploads) <= count
  BY DEF FitInv
<1>2. /\ IsFiniteSet(uploads')
      /\ Cardinality(uploads') = Cardinality(uploads) \/ Cardinality(uploads') = Cardinality(uploads) + 1
  BY <1>1, FS_AddElement
<1>3. Room' = 1 + (count + 1) - Cardinality(uploads')
  BY DEF Room
<1>4. count \in Nat /\ Cardinality(uploads) \in Nat
  BY RoomFacts
<1>. QED  BY <1>1, <1>2, <1>3, <1>4 DEF Room

\* A page that closes changes no list and no document.
LEMMA CloseFacts ==
    ASSUME TypeOK, FitInv, Closed, count' = count
    PROVE  /\ IsFiniteSet(uploads') /\ Cardinality(uploads') <= count'
           /\ Room' \in Nat /\ Room <= Room'
<1>1. IsFiniteSet(uploads) /\ Cardinality(uploads) <= count
  BY DEF FitInv
<1>2. IsFiniteSet(uploads') /\ Cardinality(uploads') <= Cardinality(uploads)
  BY <1>1, ClosedFacts
<1>3. Cardinality(uploads') \in Nat
  BY <1>2, FS_CardinalityType
<1>4. count \in Nat /\ Cardinality(uploads) \in Nat
  BY RoomFacts
<1>5. Room' = 1 + count - Cardinality(uploads')
  BY DEF Room
<1>. QED  BY <1>1, <1>2, <1>3, <1>4, <1>5 DEF Room

LEMMA FitInit == Init => FitInv
<1>. SUFFICES ASSUME Init  PROVE FitInv
  OBVIOUS
<1>1. IsFiniteSet(uploads) /\ Cardinality(uploads) = 0
  BY FS_EmptySet DEF Init
<1>2. Room = 1
  BY <1>1 DEF Init, Room
<1>3. Len(lists) = 0 /\ built = 0 /\ count = 0
  BY DEF Init
<1>4. \A a \in Accounts : Registered(a) => stored[a].photos = <<First(a)>>
  BY DEF Init, Registered
<1>5. ASSUME NEW a \in Accounts, Registered(a)  PROVE Len(stored[a].photos) <= Room
  <2>1. stored[a].photos = <<First(a)>>
    BY <1>4, <1>5
  <2>2. Len(<<First(a)>>) = 1
    OBVIOUS
  <2>. QED  BY <1>2, <2>1, <2>2
<1>6. \A l \in 1 .. Len(lists) : Len(lists[l]) <= Room
  BY <1>3
<1>7. Cardinality(uploads) <= count /\ built <= 1 + count
  BY <1>1, <1>3
<1>. QED  BY <1>1, <1>5, <1>6, <1>7 DEF FitInv

\* The list that an edit leaves fits, and so do the others and the documents.
LEMMA FitEdited ==
    ASSUME TypeOK, FitInv, NEW l \in 1 .. Len(lists), NEW s, Edited(l, s), user # NoUser,
           Room' \in Nat, Room <= Room', Len(s) <= Room'
    PROVE  /\ \A k \in 1 .. Len(lists') : Len(lists'[k]) <= Room'
           /\ \A a \in Accounts : Registered(a)' => Len(stored'[a].photos) <= Room'
<1>1. ASSUME NEW k \in 1 .. Len(lists')  PROVE Len(lists'[k]) <= Room'
  <2>1. k \in 1 .. Len(lists)
    BY DEF Edited
  <2>2. CASE k = l
    BY <2>2 DEF Edited
  <2>3. CASE k # l
    <3>1. lists'[k] = lists[k]
      BY <2>1, <2>3 DEF Edited
    <3>2. Len(lists[k]) \in Nat /\ Len(lists[k]) <= Room
      BY <2>1, TypeFacts DEF FitInv
    <3>. QED  BY <3>1, <3>2, RoomFacts
  <2>. QED  BY <2>2, <2>3
<1>2. ASSUME NEW a \in Accounts, Registered(a)'  PROVE Len(stored'[a].photos) <= Room'
  <2>1. Registered(a)
    BY <1>2 DEF Edited
  <2>2. CASE a = user.uid /\ page = "profile"
    BY <2>2 DEF Edited
  <2>3. CASE a # user.uid \/ page # "profile"
    <3>1. stored'[a] = stored[a]
      BY <2>3 DEF Edited
    <3>2. Len(stored[a].photos) \in Nat /\ Len(stored[a].photos) <= Room
      BY <2>1, TypeFacts DEF FitInv
    <3>. QED  BY <3>1, <3>2, RoomFacts
  <2>. QED  BY <2>2, <2>3
<1>. QED  BY <1>1, <1>2

\* One more photo, in an upload's place.
LEMMA AddFits ==
    ASSUME TypeOK, FitInv, NEW l \in 1 .. Len(lists), NEW p \in Photos
    PROVE  Len(Append(lists[l], p)) <= Room + 1
<1>1. lists[l] \in Seq(Photos) /\ Len(lists[l]) \in Nat /\ Len(lists[l]) <= Room
  BY TypeFacts DEF FitInv
<1>2. Len(Append(lists[l], p)) = Len(lists[l]) + 1
  BY <1>1, AppendFacts
<1>. QED  BY <1>1, <1>2, RoomFacts

LEMMA FitStep ==
    ASSUME TypeOK, ScreenInv, CoverInv, FitInv, [Next]_vars
    PROVE  FitInv'
<1>1. /\ Room \in Nat /\ Room <= 1 + count /\ count \in Nat
      /\ uploads' = uploads /\ count' = count =>
            /\ IsFiniteSet(uploads') /\ Cardinality(uploads') <= count'
            /\ Room' = Room
  BY RoomFacts
<1>2. /\ \A l \in 1 .. Len(lists) : Len(lists[l]) <= Room /\ Len(lists[l]) \in Nat
      /\ \A a \in Accounts : Registered(a) =>
            Len(stored[a].photos) <= Room /\ Len(stored[a].photos) \in Nat
      /\ built <= 1 + count /\ built \in Nat /\ Len(lists) \in Nat
  BY TypeFacts, BoundsAssumption DEF FitInv, TypeOK
<1>3. ASSUME IsFiniteSet(uploads'), Cardinality(uploads') <= count', Room' \in Nat, Room <= Room',
             lists' = lists, stored' = stored, built' <= 1 + count'
      PROVE  FitInv'
  <2>1. \A l \in 1 .. Len(lists') : Len(lists'[l]) <= Room'
    BY <1>1, <1>2, <1>3
  <2>2. \A a \in Accounts : Registered(a)' => Len(stored'[a].photos) <= Room'
    BY <1>1, <1>2, <1>3 DEF Registered
  <2>. QED  BY <1>3, <2>1, <2>2 DEF FitInv
<1>4. ASSUME UNCHANGED <<uploads, count, lists, stored, built>>
      PROVE  FitInv'
  BY <1>1, <1>2, <1>3, <1>4
<1>5. ASSUME NEW a \in Accounts, Login(a)
      PROVE  FitInv'
  <2>1. UNCHANGED <<uploads, count, stored, built>>
    BY <1>5 DEF Login, screen
  <2>2. \A l \in 1 .. Len(lists') : Len(lists'[l]) <= Room
    BY <1>2, <1>5, LoginFacts
  <2>3. \A b \in Accounts : Registered(b)' => Len(stored'[b].photos) <= Room
    BY <1>2, <2>1 DEF Registered
  <2>. QED  BY <1>1, <1>2, <2>1, <2>2, <2>3 DEF FitInv
<1>6. CASE OpenSelectPhoto
  <2>1. UNCHANGED <<uploads, count, stored>>
    BY <1>6 DEF OpenSelectPhoto
  <2>2. /\ Len(lists') = Len(lists) + 1 /\ built' = 0
        /\ \A k \in 1 .. Len(lists) : lists'[k] = lists[k]
        /\ lists'[Len(lists')] = << >>
    BY <1>6, SelectFacts
  <2>3. ASSUME NEW l \in 1 .. Len(lists')  PROVE Len(lists'[l]) <= Room
    <3>1. l \in 1 .. Len(lists) \/ l = Len(lists')
      BY <1>2, <2>2
    <3>2. CASE l \in 1 .. Len(lists)
      BY <1>2, <2>2, <3>2
    <3>3. CASE l = Len(lists')
      <4>1. Len(<< >>) = 0
        OBVIOUS
      <4>. QED  BY <1>1, <2>2, <3>3, <4>1
    <3>. QED  BY <3>1, <3>2, <3>3
  <2>4. \A b \in Accounts : Registered(b)' => Len(stored'[b].photos) <= Room
    BY <1>2, <2>1 DEF Registered
  <2>5. built' <= 1 + count'
    BY <1>1, <2>1, <2>2
  <2>. QED  BY <1>1, <2>1, <2>3, <2>4, <2>5 DEF FitInv
<1>7. CASE OpenProfile
  <2>1. UNCHANGED <<uploads, count, stored, lists>>
    BY <1>7 DEF OpenProfile
  <2>2. user.list \in 1 .. Len(lists) /\ built' = Len(lists[user.list])
    BY <1>7, ProfileFacts
  <2>3. built' <= 1 + count'
    BY <1>1, <1>2, <2>1, <2>2
  <2>. QED  BY <1>1, <1>3, <2>1, <2>3
<1>8. ASSUME Closed, UNCHANGED <<stored, lists, count>>
      PROVE  FitInv'
  <2>1. built' <= 1 + count'
    BY <1>1, <1>8 DEF Closed
  <2>. QED  BY <1>3, <1>8, <2>1, CloseFacts
<1>9. CASE Frame
  <2>1. UNCHANGED <<uploads, count, stored, lists>> /\ built' = Len(Present)
    BY <1>9 DEF Frame
  <2>2. Len(Present) <= Room
    <3>1. CASE shown = 0
      <4>1. Len(<< >>) = 0
        OBVIOUS
      <4>. QED  BY <1>1, <3>1, <4>1 DEF Present
    <3>2. CASE shown # 0
      <4>1. shown \in 1 .. Len(lists) /\ Present = lists[shown]
        BY <1>2, <3>2 DEF Present, TypeOK
      <4>. QED  BY <1>2, <4>1
    <3>. QED  BY <3>1, <3>2
  <2>3. Len(Present) \in Nat
    BY TypeFacts
  <2>4. built' <= 1 + count'
    BY <1>1, <2>1, <2>2, <2>3
  <2>. QED  BY <1>1, <1>3, <2>1, <2>4
<1>10. ASSUME NEW l \in 1 .. Len(lists), NEW s, Edited(l, s), user # NoUser,
              IsFiniteSet(uploads'), Cardinality(uploads') <= count', Room' \in Nat, Room <= Room',
              built' = built, count' = count, Len(s) <= Room'
       PROVE  FitInv'
  BY <1>2, <1>10, FitEdited DEF FitInv
<1>11. ASSUME NEW i \in 1 .. Slots, RemovePhoto(i)
       PROVE  FitInv'
  <2>1. UNCHANGED <<uploads, count, built>>
    BY <1>11 DEF RemovePhoto, screen
  <2>2. CASE i <= Len(Present)
    <3> DEFINE s == RemoveAt(Present, i)
    <3>1. /\ shown \in 1 .. Len(lists) /\ Present = lists[shown] /\ user # NoUser
          /\ Len(s) = Len(Present) - 1 /\ Edited(shown, s)
      BY <1>11, <2>2, RemoveEdits
    <3> HIDE DEF s
    <3>2. Len(s) <= Room'
      BY <1>1, <1>2, <2>1, <3>1
    <3>. QED  BY <1>1, <1>10, <2>1, <3>1, <3>2
  <2>3. CASE ~(i <= Len(Present))
    <3>1. UNCHANGED <<stored, lists>>
      BY <1>11, <2>3 DEF RemovePhoto
    <3>. QED  BY <1>4, <2>1, <3>1
  <2>. QED  BY <2>2, <2>3
<1>12. CASE Drop
  <2>1. UNCHANGED <<uploads, count, built>> /\ drag # NoDrag
    BY <1>12 DEF Drop
  <2>2. CASE drag.from > Len(Present) /\ UNCHANGED <<stored, user, lists, mishaps>>
    BY <1>4, <2>1, <2>2
  <2>3. CASE /\ drag.from <= Len(Present)
             /\ lists' = [lists EXCEPT ![shown] = RemoveAt(Present, drag.from)]
             /\ UNCHANGED <<stored, user>>
    <3> DEFINE s == RemoveAt(Present, drag.from)
    <3>1. /\ shown \in 1 .. Len(lists) /\ Present = lists[shown]
          /\ s \in Seq(Photos) /\ Len(s) = Len(Present) - 1
      BY <2>1, <2>3, DropTakes
    <3>a. lists' = [lists EXCEPT ![shown] = s] /\ lists \in Seq(Seq(Photos))
      BY <2>3, TypeFacts
    <3> HIDE DEF s
    <3>2. /\ Len(lists') = Len(lists) /\ lists'[shown] = s
          /\ \A k \in 1 .. Len(lists) : k # shown => lists'[k] = lists[k]
      BY <3>1, <3>a, ListFacts
    <3>3. Len(s) <= Room
      BY <1>1, <1>2, <3>1
    <3>4. \A k \in 1 .. Len(lists') : Len(lists'[k]) <= Room
      BY <1>2, <3>1, <3>2, <3>3
    <3>5. \A b \in Accounts : Registered(b)' => Len(stored'[b].photos) <= Room
      BY <1>2, <2>3 DEF Registered
    <3>. QED  BY <1>1, <1>2, <2>1, <3>4, <3>5 DEF FitInv
  <2>4. CASE /\ drag.from <= Len(Present) /\ drag.to - 1 <= Len(RemoveAt(Present, drag.from))
             /\ lists' = [lists EXCEPT ![shown] = Dropped]
             /\ SetPhotos(shown)
    <3>1. shown \in 1 .. Len(lists) /\ Present = lists[shown] /\ user # NoUser
      BY <2>1, <2>4, DropTakes
    <3>2. Len(Dropped) = Len(Present) /\ Edited(shown, Dropped)
      BY <2>1, <2>4, DropEdits
    <3>3. Len(Dropped) <= Room'
      BY <1>1, <1>2, <2>1, <3>1, <3>2
    <3>. QED  BY <1>1, <1>10, <2>1, <3>1, <3>2, <3>3
  <2>. QED  BY <1>12, <2>2, <2>3, <2>4 DEF Drop, Dropped
<1>13. CASE GetImage
  <2>1. UNCHANGED <<stored, lists, built>>
    BY <1>13 DEF GetImage
  <2>2. CASE UNCHANGED <<uploads, count>>
    BY <1>4, <2>1, <2>2
  <2>3. CASE ~UNCHANGED <<uploads, count>>
    <3>1. PICK up : count' = count + 1 /\ uploads' = uploads \cup {up}
      BY <1>13, <2>3 DEF GetImage
    <3>2. /\ IsFiniteSet(uploads') /\ Cardinality(uploads') <= count'
          /\ Room' \in Nat /\ Room <= Room'
      BY <3>1, StartFacts
    <3>3. built' <= 1 + count'
      BY <1>1, <1>2, <2>1, <3>1
    <3>. QED  BY <1>3, <2>1, <3>2, <3>3
  <2>. QED  BY <2>2, <2>3
<1>14. ASSUME NEW up \in uploads, uploads' = uploads \ {up}, UNCHANGED <<count, built>>,
              \/ UNCHANGED <<stored, lists>>
              \/ AddPhoto(up) /\ user # NoUser /\ SetPhotos(up.list)
              \/ AddPhoto(up) /\ stored' = stored
       PROVE  FitInv'
  <2>1. /\ IsFiniteSet(uploads') /\ Cardinality(uploads') <= count'
        /\ Room' = Room + 1
    BY <1>14, EndFacts
  <2>2. Room' \in Nat /\ Room <= Room' /\ built' <= 1 + count'
    BY <1>1, <1>2, <1>14, <2>1
  <2>3. CASE UNCHANGED <<stored, lists>>
    BY <1>3, <2>1, <2>2, <2>3
  <2>4. up.list \in 1 .. Len(lists) /\ up.photo \in Photos
    BY DEF ScreenInv, ListsInv, PageInv, TypeOK, Uploads
  <2> DEFINE s == Append(lists[up.list], up.photo)
  <2>5. Len(s) <= Room'
    BY <2>1, <2>4, AddFits
  <2>6. CASE AddPhoto(up) /\ user # NoUser /\ SetPhotos(up.list)
    <3>1. Edited(up.list, s)
      BY <2>6, AddEdits
    <3> HIDE DEF s
    <3>. QED  BY <1>10, <1>14, <2>1, <2>2, <2>4, <2>5, <2>6, <3>1
  <2>7. CASE AddPhoto(up) /\ stored' = stored
    <3>1. /\ Len(lists') = Len(lists) /\ lists'[up.list] = s
          /\ \A k \in 1 .. Len(lists) : k # up.list => lists'[k] = lists[k]
      BY <2>7, AddWithout
    <3> HIDE DEF s
    <3>2. \A k \in 1 .. Len(lists') : Len(lists'[k]) <= Room'
      BY <1>1, <1>2, <2>2, <2>4, <2>5, <3>1
    <3>3. \A b \in Accounts : Registered(b)' => Len(stored'[b].photos) <= Room'
      BY <1>1, <1>2, <2>2, <2>7 DEF Registered
    <3>. QED  BY <2>1, <2>2, <3>2, <3>3 DEF FitInv
  <2>. QED  BY <1>14, <2>3, <2>6, <2>7
<1>15. CASE OnSubmit
  <2>1. UNCHANGED <<uploads, count, lists, built>>
    BY <1>15 DEF OnSubmit
  <2>2. user # NoUser /\ user.uid \in Accounts /\ user.list \in 0 .. Len(lists)
    <3>1. user # NoUser
      BY <1>15 DEF OnSubmit, ScreenInv, ListsInv, PageInv
    <3>2. user.list \in Nat /\ user.list <= Len(lists) /\ Len(lists) \in Nat
      BY <3>1, TypeFacts DEF ScreenInv, ListsInv, PageInv
    <3>. QED  BY <3>1, <3>2, TypeFacts
  <2>3. Len(Mine(user)) <= Room
    <3>1. CASE user.list = 0
      <4>1. Len(<< >>) = 0
        OBVIOUS
      <4>. QED  BY <1>1, <3>1, <4>1 DEF Mine
    <3>2. CASE user.list # 0
      BY <1>2, <2>2, <3>2 DEF Mine
    <3>. QED  BY <3>1, <3>2
  <2>4. /\ stored'[user.uid].photos = Mine(user)
        /\ \A b \in Accounts : b # user.uid => stored'[b] = stored[b]
    BY <1>15, <2>2 DEF OnSubmit, TypeOK
  <2>5. \A b \in Accounts : Registered(b)' => Len(stored'[b].photos) <= Room
    BY <1>2, <2>3, <2>4 DEF Registered
  <2>. QED  BY <1>1, <1>2, <2>1, <2>5 DEF FitInv
<1>16. CASE UNCHANGED vars
  BY <1>4, <1>16 DEF vars, screen
<1>17. CASE Back \/ LogOut \/ Submitted
  BY <1>8, <1>17 DEF Back, LogOut, Submitted
<1>18. CASE OnSelectPhoto \/ DismissSheet
  BY <1>4, <1>18 DEF OnSelectPhoto, DismissSheet
<1>19. ASSUME NEW i \in 1 .. Slots, NEW j \in 1 .. Slots, Hover(i, j)
       PROVE  FitInv'
  BY <1>4, <1>19 DEF Hover
<1>20. ASSUME NEW up \in uploads, UploadDone(up)
       PROVE  FitInv'
  <2>1. user # NoUser
    BY <1>20 DEF UploadDone, ScreenInv, ListsInv, PageInv
  <2>. QED  BY <1>14, <1>20, <2>1 DEF UploadDone
<1>21. ASSUME NEW up \in uploads, LateUploadDone(up)
       PROVE  FitInv'
  BY <1>14, <1>21 DEF LateUploadDone, screen
<1>22. ASSUME NEW up \in uploads, UploadFails(up)
       PROVE  FitInv'
  BY <1>14, <1>22 DEF UploadFails, screen
<1>. QED  BY <1>5, <1>6, <1>7, <1>9, <1>11, <1>12, <1>13, <1>15, <1>16, <1>17, <1>18,
             <1>19, <1>20, <1>21, <1>22 DEF Next

-----------------------------------------------------------------------------
(* TypeOK *)

LEMMA TypeInit == Init => TypeOK
<1>. SUFFICES ASSUME Init  PROVE TypeOK
  OBVIOUS
<1>1. Slots \in Nat \ {0} /\ MaxPhotos \in Nat /\ MaxLists \in Nat
  BY BoundsAssumption
<1>2. ASSUME NEW a \in Accounts  PROVE [photos |-> <<First(a)>>, url |-> First(a)] \in Docs
  <2>1. First(a) \in Photos
    BY <1>1 DEF First, Photos
  <2>2. <<First(a)>> \in Seq(Photos)
    BY <2>1
  <2>. QED  BY <2>1, <2>2 DEF Docs
<1>3. stored \in [Accounts -> Docs \cup {NoDoc}]
  BY <1>2 DEF Init
<1>4. lists \in Seq(Seq(Photos)) /\ Len(lists) = 0
  BY DEF Init
<1>5. drag \in [from : 0 .. Slots, to : 0 .. Slots]
  BY <1>1 DEF Init, NoDrag
<1>6. covered \in BOOLEAN /\ loading \in BOOLEAN /\ submit \in BOOLEAN
  BY DEF Init
<1>7. shown \in 0 .. Len(lists) /\ Len(lists) <= MaxLists
  BY <1>1, <1>4 DEF Init
<1>8. built \in 0 .. MaxPhotos + 1 /\ sheets \in 0 .. MaxPhotos /\ count \in 0 .. MaxPhotos
  BY <1>1 DEF Init
<1>9. user \in Users \cup {NoUser} /\ page \in {"none", "select", "profile"}
      /\ uploads \subseteq Uploads /\ mishaps \subseteq Mishaps
  BY DEF Init
<1>10. {covered, loading, submit} \subseteq BOOLEAN
  BY <1>6
<1>. QED  BY <1>3, <1>4, <1>5, <1>7, <1>8, <1>9, <1>10 DEF TypeOK

\* TypeOK in parts: the photos, and the page.
TypePhotos ==
    /\ stored \in [Accounts -> Docs \cup {NoDoc}]
    /\ user \in Users \cup {NoUser}
    /\ lists \in Seq(Seq(Photos)) /\ Len(lists) <= MaxLists
    /\ shown \in 0 .. Len(lists)

TypePage ==
    /\ page \in {"none", "select", "profile"}
    /\ built \in 0 .. MaxPhotos + 1
    /\ covered \in BOOLEAN /\ loading \in BOOLEAN /\ submit \in BOOLEAN
    /\ sheets \in 0 .. MaxPhotos
    /\ drag \in [from : 0 .. Slots, to : 0 .. Slots]

TypeUploads ==
    /\ uploads \subseteq Uploads
    /\ count \in 0 .. MaxPhotos
    /\ mishaps \subseteq Mishaps

LEMMA TypeParts == TypeOK <=> TypePhotos /\ TypePage /\ TypeUploads
<1>1. {covered, loading, submit} \subseteq BOOLEAN <=>
          covered \in BOOLEAN /\ loading \in BOOLEAN /\ submit \in BOOLEAN
  OBVIOUS
<1>. QED  BY <1>1 DEF TypeOK, TypePhotos, TypePage, TypeUploads

LEMMA TypePhotosStep ==
    ASSUME TypeOK, ScreenInv, CoverInv, [Next]_vars
    PROVE  TypePhotos'
<1>1. /\ lists \in Seq(Seq(Photos)) /\ Len(lists) \in Nat /\ Len(lists) <= MaxLists
      /\ MaxLists \in Nat /\ shown \in 0 .. Len(lists)
      /\ stored \in [Accounts -> Docs \cup {NoDoc}] /\ user \in Users \cup {NoUser}
  BY TypeFacts, BoundsAssumption DEF TypeOK
<1>2. ASSUME stored' = stored, user' \in Users \cup {NoUser}, lists' = lists, shown' \in 0 .. Len(lists)
      PROVE  TypePhotos'
  BY <1>1, <1>2 DEF TypePhotos
<1>3. ASSUME UNCHANGED <<stored, user, lists, shown>>
      PROVE  TypePhotos'
  BY <1>1, <1>2, <1>3
<1>4. ASSUME NEW l, NEW s, Edited(l, s), shown' = shown
      PROVE  TypePhotos'
  BY <1>1, <1>4 DEF Edited, TypePhotos
<1>5. ASSUME NEW a \in Accounts, Login(a)
      PROVE  TypePhotos'
  <2>1. stored' = stored /\ shown' = shown
    BY <1>5 DEF Login, screen
  <2>2. /\ lists' \in Seq(Seq(Photos)) /\ Len(lists) <= Len(lists') /\ Len(lists') <= MaxLists
        /\ user' \in Users
    BY <1>5, LoginFacts
  <2>3. Len(lists') \in Nat
    BY <2>2
  <2>4. shown' \in 0 .. Len(lists')
    BY <1>1, <2>1, <2>2, <2>3
  <2>. QED  BY <1>1, <2>1, <2>2, <2>4 DEF TypePhotos
<1>6. CASE OpenSelectPhoto
  <2>1. stored' = stored /\ user' = user
    BY <1>6 DEF OpenSelectPhoto
  <2>2. /\ lists' \in Seq(Seq(Photos)) /\ Len(lists') <= MaxLists
        /\ shown' = Len(lists')
    BY <1>6, SelectFacts
  <2>3. Len(lists') \in Nat
    BY <2>2
  <2>. QED  BY <1>1, <2>1, <2>2, <2>3 DEF TypePhotos
<1>7. CASE OpenProfile
  <2>1. stored' = stored /\ user' = user
    BY <1>7 DEF OpenProfile
  <2>2. lists' = lists /\ shown' \in 0 .. Len(lists)
    BY <1>1, <1>7, ProfileFacts
  <2>. QED  BY <1>1, <1>2, <2>1, <2>2
<1>8. CASE Back \/ LogOut \/ Submitted
  <2>1. stored' = stored /\ lists' = lists /\ user' \in Users \cup {NoUser} /\ shown' = 0
    BY <1>1, <1>8 DEF Back, LogOut, Submitted, Closed
  <2>. QED  BY <1>1, <1>2, <2>1
<1>9. ASSUME NEW i \in 1 .. Slots, RemovePhoto(i)
      PROVE  TypePhotos'
  <2>1. shown' = shown
    BY <1>9 DEF RemovePhoto, screen
  <2>2. CASE i <= Len(Present)
    BY <1>4, <1>9, <2>1, <2>2, RemoveEdits
  <2>3. CASE ~(i <= Len(Present))
    BY <1>3, <1>9, <2>1, <2>3 DEF RemovePhoto
  <2>. QED  BY <2>2, <2>3
<1>10. CASE Drop
  <2>1. shown' = shown /\ drag # NoDrag
    BY <1>10 DEF Drop
  <2>2. CASE drag.from > Len(Present) /\ UNCHANGED <<stored, user, lists, mishaps>>
    BY <1>3, <2>1, <2>2
  <2>3. CASE /\ drag.from <= Len(Present)
             /\ lists' = [lists EXCEPT ![shown] = RemoveAt(Present, drag.from)]
             /\ UNCHANGED <<stored, user>>
    <3> DEFINE s == RemoveAt(Present, drag.from)
    <3>1. shown \in 1 .. Len(lists) /\ s \in Seq(Photos)
      BY <2>1, <2>3, DropTakes
    <3>a. lists' = [lists EXCEPT ![shown] = s]
      BY <2>3
    <3> HIDE DEF s
    <3>2. lists' \in Seq(Seq(Photos)) /\ Len(lists') = Len(lists)
      BY <1>1, <3>1, <3>a, ListFacts
    <3>. QED  BY <1>1, <2>1, <2>3, <3>2 DEF TypePhotos
  <2>4. CASE /\ drag.from <= Len(Present) /\ drag.to - 1 <= Len(RemoveAt(Present, drag.from))
             /\ lists' = [lists EXCEPT ![shown] = Dropped]
             /\ SetPhotos(shown)
    BY <1>4, <2>1, <2>4, DropEdits
  <2>. QED  BY <1>10, <2>2, <2>3, <2>4 DEF Drop, Dropped
<1>11. ASSUME NEW up \in uploads, shown' = shown,
              \/ UNCHANGED <<stored, user, lists>>
              \/ AddPhoto(up) /\ user # NoUser /\ SetPhotos(up.list)
              \/ AddPhoto(up) /\ UNCHANGED <<stored, user>>
       PROVE  TypePhotos'
  <2>1. CASE UNCHANGED <<stored, user, lists>>
    BY <1>3, <1>11, <2>1
  <2>2. CASE AddPhoto(up) /\ user # NoUser /\ SetPhotos(up.list)
    BY <1>4, <1>11, <2>2, AddEdits
  <2>3. CASE AddPhoto(up) /\ UNCHANGED <<stored, user>>
    <3>1. lists' \in Seq(Seq(Photos)) /\ Len(lists') = Len(lists)
      BY <2>3, AddWithout
    <3>. QED  BY <1>1, <1>11, <2>3, <3>1 DEF TypePhotos
  <2>. QED  BY <1>11, <2>1, <2>2, <2>3
<1>12. CASE OnSubmit
  <2>1. UNCHANGED <<user, lists, shown>>
    BY <1>12 DEF OnSubmit
  <2>2. user # NoUser /\ submit
    BY <1>12 DEF OnSubmit, ScreenInv, ListsInv, PageInv
  <2>3. user.uid \in Accounts /\ user.url \in Photos
    BY <2>2, TypeFacts DEF CoverInv
  <2>4. Mine(user) \in Seq(Photos)
    <3>1. user.list \in Nat /\ user.list <= Len(lists)
      BY <2>2, TypeFacts DEF ScreenInv, ListsInv, PageInv
    <3>2. CASE user.list = 0
      BY <3>2 DEF Mine
    <3>3. CASE user.list # 0
      <4>1. user.list \in 1 .. Len(lists)
        BY <1>1, <3>1, <3>3
      <4>. QED  BY <3>3, <4>1, TypeFacts DEF Mine
    <3>. QED  BY <3>2, <3>3
  <2>5. [photos |-> Mine(user), url |-> user.url] \in Docs
    BY <2>3, <2>4 DEF Docs
  <2>6. stored' \in [Accounts -> Docs \cup {NoDoc}]
    BY <1>1, <1>12, <2>3, <2>5 DEF OnSubmit
  <2>. QED  BY <1>1, <2>1, <2>6 DEF TypePhotos
<1>13. CASE UNCHANGED vars
  BY <1>3, <1>13 DEF vars, screen
<1>14. CASE Frame \/ OnSelectPhoto \/ DismissSheet \/ GetImage
  BY <1>3, <1>14 DEF Frame, OnSelectPhoto, DismissSheet, GetImage
<1>15. ASSUME NEW i \in 1 .. Slots, NEW j \in 1 .. Slots, Hover(i, j)
       PROVE  TypePhotos'
  BY <1>3, <1>15 DEF Hover
<1>16. ASSUME NEW up \in uploads, UploadDone(up)
       PROVE  TypePhotos'
  <2>1. user # NoUser
    BY <1>16 DEF UploadDone, ScreenInv, ListsInv, PageInv
  <2>. QED  BY <1>11, <1>16, <2>1 DEF UploadDone
<1>17. ASSUME NEW up \in uploads, LateUploadDone(up)
       PROVE  TypePhotos'
  BY <1>11, <1>17 DEF LateUploadDone, screen
<1>18. ASSUME NEW up \in uploads, UploadFails(up)
       PROVE  TypePhotos'
  BY <1>11, <1>18 DEF UploadFails, screen
<1>. QED  BY <1>5, <1>6, <1>7, <1>8, <1>9, <1>10, <1>12, <1>13, <1>14, <1>15, <1>16, <1>17,
             <1>18 DEF Next

LEMMA TypeUploadsStep ==
    ASSUME TypeOK, ScreenInv, CoverInv, [Next]_vars
    PROVE  TypeUploads'
<1>1. /\ uploads \subseteq Uploads /\ count \in 0 .. MaxPhotos /\ mishaps \subseteq Mishaps
      /\ MaxPhotos \in Nat /\ MaxLists \in Nat
  BY BoundsAssumption DEF TypeOK
<1>2. {"tap", "drop", "late", "overlap"} \subseteq Mishaps
  BY DEF Mishaps
<1>3. ASSUME uploads' \subseteq Uploads, count' = count,
             \/ mishaps' = mishaps
             \/ \E m \in {"tap", "drop", "late"} : mishaps' = mishaps \cup {m}
      PROVE  TypeUploads'
  <2>1. mishaps' \subseteq Mishaps
    BY <1>1, <1>2, <1>3
  <2>. QED  BY <1>1, <1>3, <2>1 DEF TypeUploads
<1>4. ASSUME UNCHANGED <<uploads, count>>,
             mishaps' = mishaps \/ Tapped \/ mishaps' = mishaps \cup {"drop"}
      PROVE  TypeUploads'
  <2>1. \/ mishaps' = mishaps
        \/ \E m \in {"tap", "drop", "late"} : mishaps' = mishaps \cup {m}
    BY <1>4 DEF Tapped
  <2>. QED  BY <1>1, <1>3, <1>4, <2>1
<1>5. CASE GetImage
  <2>1. CASE UNCHANGED <<uploads, count, mishaps>>
    BY <1>4, <2>1
  <2>2. CASE ~UNCHANGED <<uploads, count, mishaps>>
    <3> DEFINE up == [photo |-> [by |-> user.uid, n |-> count'], list |-> shown, live |-> TRUE]
    <3>1. /\ sheets > 0 /\ count' = count + 1 /\ uploads' = uploads \cup {up}
          /\ mishaps' = IF uploads = {} THEN mishaps ELSE mishaps \cup {"overlap"}
      BY <1>5, <2>2 DEF GetImage
    <3>2. count' \in 0 .. MaxPhotos
      <4>1. sheets \in Nat /\ sheets + count <= MaxPhotos
        BY <1>1 DEF TypeOK, ScreenInv, ListsInv, PageInv
      <4>. QED  BY <1>1, <3>1, <4>1
    <3>3. page # "none" /\ user # NoUser /\ shown # 0
      <4>1. sheets # 0
        BY <1>1, <3>1 DEF TypeOK
      <4>. QED  BY <4>1 DEF ScreenInv, ListsInv, PageInv
    <3>4. shown \in 1 .. MaxLists
      <4>1. shown \in 0 .. Len(lists) /\ Len(lists) <= MaxLists /\ Len(lists) \in Nat
        BY TypeFacts DEF TypeOK
      <4>. QED  BY <1>1, <3>3, <4>1
    <3>5. up \in Uploads
      <4>1. user.uid \in Accounts
        BY <3>3, TypeFacts
      <4>. QED  BY <3>2, <3>4, <4>1 DEF Uploads, Photos
    <3> HIDE DEF up
    <3>6. uploads' \subseteq Uploads /\ mishaps' \subseteq Mishaps
      BY <1>1, <1>2, <3>1, <3>5
    <3>. QED  BY <3>2, <3>6 DEF TypeUploads
  <2>. QED  BY <2>1, <2>2
<1>6. CASE Back \/ LogOut \/ Submitted
  <2>1. Closed /\ UNCHANGED <<count, mishaps>>
    BY <1>6 DEF Back, LogOut, Submitted
  <2>. QED  BY <1>3, <2>1, ClosedFacts
<1>7. ASSUME NEW a \in Accounts, Login(a)
      PROVE  TypeUploads'
  BY <1>4, <1>7 DEF Login
<1>8. ASSUME NEW i \in 1 .. Slots, RemovePhoto(i)
      PROVE  TypeUploads'
  BY <1>4, <1>8 DEF RemovePhoto
<1>9. ASSUME NEW i \in 1 .. Slots, NEW j \in 1 .. Slots, Hover(i, j)
      PROVE  TypeUploads'
  BY <1>4, <1>9 DEF Hover
<1>10. CASE OpenSelectPhoto \/ OpenProfile
  BY <1>4, <1>10 DEF OpenSelectPhoto, OpenProfile
<1>11. CASE Frame \/ OnSelectPhoto \/ DismissSheet \/ OnSubmit
  BY <1>4, <1>11 DEF Frame, OnSelectPhoto, DismissSheet, OnSubmit
<1>12. CASE Drop
  BY <1>4, <1>12 DEF Drop
<1>13. ASSUME NEW up \in uploads, UploadDone(up) \/ LateUploadDone(up) \/ UploadFails(up)
       PROVE  TypeUploads'
  <2>1. uploads' \subseteq Uploads /\ count' = count
        /\ (mishaps' = mishaps \/ mishaps' = mishaps \cup {"late"})
    BY <1>1, <1>13 DEF UploadDone, LateUploadDone, UploadFails
  <2>. QED  BY <1>3, <2>1
<1>14. CASE UNCHANGED vars
  BY <1>4, <1>14 DEF vars
<1>. QED  BY <1>5, <1>6, <1>7, <1>8, <1>9, <1>10, <1>11, <1>12, <1>13, <1>14 DEF Next

LEMMA TypePageStep ==
    ASSUME TypeOK, ScreenInv, CoverInv, FitInv', TypeUploads', [Next]_vars
    PROVE  TypePage'
<1>1. /\ MaxPhotos \in Nat /\ Slots \in Nat /\ count' \in 0 .. MaxPhotos /\ built' <= 1 + count'
      /\ sheets \in 0 .. MaxPhotos /\ built \in Nat
  BY BoundsAssumption DEF TypeUploads, FitInv, TypeOK
<1>2. TypePage
  BY TypeParts
<1>3. ASSUME built' \in Nat  PROVE built' \in 0 .. MaxPhotos + 1
  <2>1. count' \in Nat /\ count' <= MaxPhotos
    BY <1>1
  <2>2. built' <= 1 + count'
    BY <1>1
  <2>3. built' <= MaxPhotos + 1
    <3> DEFINE b == built'
               c == count'
    <3>1. b \in Nat /\ c \in Nat /\ b <= 1 + c /\ c <= MaxPhotos /\ MaxPhotos \in Nat
      BY <1>1, <1>3, <2>1, <2>2
    <3> HIDE DEF b, c
    <3>2. b <= MaxPhotos + 1
      BY <3>1
    <3>. QED  BY <3>2 DEF b
  <2>. QED  BY <1>1, <1>3, <2>3
<1>4. ASSUME UNCHANGED <<page, built, covered, loading, submit, sheets, drag>>
      PROVE  TypePage'
  BY <1>2, <1>4 DEF TypePage
<1>5. NoDrag \in [from : 0 .. Slots, to : 0 .. Slots]
  BY <1>1 DEF NoDrag
<1>6. ASSUME NEW p \in {"select", "profile"}, NEW l \in 1 .. Len(lists'), lists' \in Seq(Seq(Photos)),
             Show(p, l)
      PROVE  TypePage'
  <2>1. built' \in Nat
    <3>1. lists'[l] \in Seq(Photos)
      BY <1>6
    <3>. QED  BY <1>6, <3>1 DEF Show
  <2>2. covered' \in BOOLEAN /\ loading' \in BOOLEAN
    BY <1>6 DEF Show
  <2>3. submit' \in BOOLEAN
    BY <1>6 DEF Show
  <2>4. page' \in {"none", "select", "profile"} /\ sheets' \in 0 .. MaxPhotos /\ drag' = NoDrag
    BY <1>1, <1>6 DEF Show
  <2>. QED  BY <1>3, <1>5, <2>1, <2>2, <2>3, <2>4 DEF TypePage
<1>7. CASE OpenSelectPhoto
  <2>1. lists' \in Seq(Seq(Photos)) /\ Len(lists') = Len(lists) + 1
    BY <1>7, SelectFacts
  <2>2. Len(lists') \in 1 .. Len(lists') /\ Len(lists) \in Nat
    BY <2>1, TypeFacts
  <2>. QED  BY <1>6, <1>7, <2>1, <2>2 DEF OpenSelectPhoto
<1>8. CASE OpenProfile
  <2>1. lists' = lists /\ lists \in Seq(Seq(Photos)) /\ user.list \in 1 .. Len(lists)
    BY <1>8, ProfileFacts, TypeFacts
  <2>. QED  BY <1>6, <1>8, <2>1 DEF OpenProfile
<1>9. CASE Back \/ LogOut \/ Submitted
  <2>1. Closed
    BY <1>9 DEF Back, LogOut, Submitted
  <2>2. /\ page' = "none" /\ built' = 0 /\ covered' = FALSE /\ loading' = FALSE
        /\ submit' = FALSE /\ sheets' = 0 /\ drag' = NoDrag
    BY <2>1 DEF Closed
  <2>3. built' \in 0 .. MaxPhotos + 1 /\ sheets' \in 0 .. MaxPhotos
    BY <1>1, <2>2
  <2>4. covered' \in BOOLEAN /\ loading' \in BOOLEAN /\ submit' \in BOOLEAN
    BY <2>2
  <2>. QED  BY <1>5, <2>2, <2>3, <2>4 DEF TypePage
<1>10. CASE Frame
  <2>1. built' \in Nat
    BY <1>10, TypeFacts DEF Frame
  <2>2. covered' \in BOOLEAN
    BY <1>10 DEF Frame
  <2>. QED  BY <1>2, <1>3, <1>10, <2>1, <2>2 DEF TypePage, Frame
<1>11. ASSUME NEW i \in 1 .. Slots, NEW j \in 1 .. Slots, Hover(i, j)
       PROVE  TypePage'
  <2>1. drag' \in [from : 0 .. Slots, to : 0 .. Slots]
    BY <1>1, <1>11 DEF Hover, Target
  <2>. QED  BY <1>2, <1>11, <2>1 DEF TypePage, Hover
<1>12. CASE Drop
  <2>1. drag' = NoDrag /\ UNCHANGED <<page, built, covered, loading, submit, sheets>>
    BY <1>12 DEF Drop
  <2>. QED  BY <1>2, <1>5, <2>1 DEF TypePage
<1>13. CASE OnSelectPhoto
  <2>1. sheets' \in 0 .. MaxPhotos
    <3>1. sheets + count < MaxPhotos /\ sheets' = sheets + 1 /\ count \in Nat
      BY <1>1, <1>13 DEF OnSelectPhoto, TypeOK
    <3>. QED  BY <1>1, <3>1
  <2>. QED  BY <1>2, <1>13, <2>1 DEF TypePage, OnSelectPhoto
<1>14. CASE DismissSheet
  <2>1. sheets' \in 0 .. MaxPhotos
    BY <1>1, <1>14 DEF DismissSheet
  <2>. QED  BY <1>2, <1>14, <2>1 DEF TypePage, DismissSheet
<1>15. CASE GetImage
  <2>1. sheets' \in 0 .. MaxPhotos
    BY <1>1, <1>15 DEF GetImage
  <2>2. loading' \in BOOLEAN
    BY <1>15 DEF GetImage
  <2>3. submit' \in BOOLEAN
    BY <1>15 DEF GetImage
  <2>. QED  BY <1>2, <1>15, <2>1, <2>2, <2>3 DEF TypePage, GetImage
<1>16. ASSUME NEW up \in uploads, UploadDone(up)
       PROVE  TypePage'
  <2>1. loading' \in BOOLEAN
    BY <1>16 DEF UploadDone
  <2>2. submit' \in BOOLEAN
    BY <1>16 DEF UploadDone
  <2>. QED  BY <1>2, <1>16, <2>1, <2>2 DEF TypePage, UploadDone
<1>17. ASSUME NEW up \in uploads, LateUploadDone(up) \/ UploadFails(up)
       PROVE  TypePage'
  BY <1>4, <1>17 DEF LateUploadDone, UploadFails, screen
<1>18. CASE OnSubmit
  <2>1. loading' \in BOOLEAN
    BY <1>18 DEF OnSubmit
  <2>. QED  BY <1>2, <1>18, <2>1 DEF TypePage, OnSubmit
<1>19. ASSUME NEW a \in Accounts, Login(a)
       PROVE  TypePage'
  BY <1>4, <1>19 DEF Login, screen
<1>20. ASSUME NEW i \in 1 .. Slots, RemovePhoto(i)
       PROVE  TypePage'
  BY <1>4, <1>20 DEF RemovePhoto, screen
<1>21. CASE UNCHANGED vars
  BY <1>4, <1>21 DEF vars, screen
<1>. QED  BY <1>7, <1>8, <1>9, <1>10, <1>11, <1>12, <1>13, <1>14, <1>15, <1>16, <1>17,
             <1>18, <1>19, <1>20, <1>21 DEF Next

LEMMA TypeStep ==
    ASSUME TypeOK, ScreenInv, CoverInv, FitInv, [Next]_vars
    PROVE  TypeOK'
<1>1. FitInv' /\ TypeUploads' /\ TypePhotos'
  BY FitStep, TypeUploadsStep, TypePhotosStep
<1>2. TypePage'
  BY <1>1, TypePageStep
<1>3. /\ stored' \in [Accounts -> Docs \cup {NoDoc}] /\ user' \in Users \cup {NoUser}
      /\ lists' \in Seq(Seq(Photos)) /\ Len(lists') <= MaxLists /\ shown' \in 0 .. Len(lists')
  BY <1>1 DEF TypePhotos
<1>4. /\ uploads' \subseteq Uploads /\ count' \in 0 .. MaxPhotos /\ mishaps' \subseteq Mishaps
  BY <1>1 DEF TypeUploads
<1>5. /\ page' \in {"none", "select", "profile"} /\ built' \in 0 .. MaxPhotos + 1
      /\ sheets' \in 0 .. MaxPhotos /\ drag' \in [from : 0 .. Slots, to : 0 .. Slots]
  BY <1>2 DEF TypePage
<1>6. {covered', loading', submit'} \subseteq BOOLEAN
  BY <1>2 DEF TypePage
<1>. QED  BY <1>3, <1>4, <1>5, <1>6 DEF TypeOK

-----------------------------------------------------------------------------
(* ScreenInv *)

LEMMA ScreenInit == Init => ScreenInv
<1>. SUFFICES ASSUME Init  PROVE ScreenInv
  OBVIOUS
<1>1. user = NoUser /\ uploads = {} /\ sheets = 0 /\ count = 0 /\ drag = NoDrag
      /\ page = "none" /\ shown = 0 /\ submit = FALSE /\ MaxPhotos \in Nat
  BY BoundsAssumption DEF Init
<1>. QED  BY <1>1 DEF ScreenInv, ListsInv, PageInv

LEMMA ListsStep ==
    ASSUME TypeOK, ScreenInv, CoverInv, [Next]_vars
    PROVE  ListsInv'
<1>1. /\ Len(lists) \in Nat /\ count \in Nat /\ MaxLists \in Nat
      /\ user # NoUser => user.list \in Nat /\ user.list <= Len(lists)
      /\ \A up \in uploads : up.list \in 1 .. Len(lists) /\ up.photo.n <= count
                             /\ up.photo.n \in Nat
  BY TypeFacts, BoundsAssumption DEF TypeOK, Uploads, Photos, ScreenInv, ListsInv
<1>2. ASSUME uploads' \subseteq uploads, count' = count, Len(lists') \in Nat, Len(lists) <= Len(lists')
      PROVE  \A up \in uploads' : up.list \in 1 .. Len(lists') /\ up.photo.n <= count'
  BY <1>1, <1>2
<1>3. ASSUME uploads' \subseteq uploads, count' = count, user' \in {user, NoUser},
             Len(lists') \in Nat, Len(lists) <= Len(lists')
      PROVE  ListsInv'
  <2>1. user' # NoUser => user'.list <= Len(lists')
    BY <1>1, <1>3
  <2>. QED  BY <1>2, <1>3, <2>1 DEF ListsInv
<1>4. ASSUME UNCHANGED <<user, lists, uploads, count>>
      PROVE  ListsInv'
  BY <1>1, <1>3, <1>4
<1>5. ASSUME NEW l \in 1 .. Len(lists), NEW s, Edited(l, s), uploads' \subseteq uploads, count' = count
      PROVE  ListsInv'
  <2>1. Len(lists') = Len(lists) /\ user'.list = l
    BY <1>5 DEF Edited
  <2>. QED  BY <1>1, <1>2, <1>5, <2>1 DEF ListsInv
<1>6. ASSUME NEW a \in Accounts, Login(a)
      PROVE  ListsInv'
  <2>1. /\ lists' \in Seq(Seq(Photos)) /\ Len(lists) <= Len(lists')
        /\ user'.list \in 0 .. Len(lists')
    BY <1>6, LoginFacts
  <2>2. Len(lists') \in Nat
    BY <2>1
  <2>3. uploads' = uploads /\ count' = count
    BY <1>6 DEF Login
  <2>4. user'.list <= Len(lists')
    BY <2>1, <2>2
  <2>. QED  BY <1>2, <2>1, <2>2, <2>3, <2>4 DEF ListsInv
<1>7. CASE OpenSelectPhoto
  <2>1. Len(lists') = Len(lists) + 1
    BY <1>7, SelectFacts
  <2>2. UNCHANGED <<user, uploads, count>>
    BY <1>7 DEF OpenSelectPhoto
  <2>3. Len(lists') \in Nat /\ Len(lists) <= Len(lists')
    BY <1>1, <2>1
  <2>. QED  BY <1>3, <2>2, <2>3
<1>8. CASE Back \/ LogOut \/ Submitted
  <2>1. Closed /\ lists' = lists /\ count' = count /\ user' \in {user, NoUser}
    BY <1>8 DEF Back, LogOut, Submitted
  <2>2. ASSUME NEW vp \in uploads'
        PROVE  vp.list \in 1 .. Len(lists') /\ vp.photo.n <= count'
    <3>1. PICK up \in uploads : vp.list = up.list /\ vp.photo = up.photo
      BY <2>1, ClosedFacts
    <3>. QED  BY <1>1, <2>1, <3>1
  <2>3. user' # NoUser => user'.list <= Len(lists')
    BY <1>1, <2>1
  <2>. QED  BY <2>2, <2>3 DEF ListsInv
<1>9. ASSUME NEW i \in 1 .. Slots, RemovePhoto(i)
      PROVE  ListsInv'
  <2>1. UNCHANGED <<uploads, count>>
    BY <1>9 DEF RemovePhoto
  <2>2. CASE i <= Len(Present)
    BY <1>5, <1>9, <2>1, <2>2, RemoveEdits
  <2>3. CASE ~(i <= Len(Present))
    BY <1>4, <1>9, <2>1, <2>3 DEF RemovePhoto
  <2>. QED  BY <2>2, <2>3
<1>10. CASE Drop
  <2>1. UNCHANGED <<uploads, count>> /\ drag # NoDrag
    BY <1>10 DEF Drop
  <2>2. CASE drag.from > Len(Present) /\ UNCHANGED <<stored, user, lists, mishaps>>
    BY <1>4, <2>1, <2>2
  <2>3. CASE /\ drag.from <= Len(Present)
             /\ lists' = [lists EXCEPT ![shown] = RemoveAt(Present, drag.from)]
             /\ UNCHANGED <<stored, user>>
    <3> DEFINE s == RemoveAt(Present, drag.from)
    <3>1. shown \in 1 .. Len(lists) /\ s \in Seq(Photos)
      BY <2>1, <2>3, DropTakes
    <3>a. lists' = [lists EXCEPT ![shown] = s] /\ lists \in Seq(Seq(Photos))
      BY <2>3, TypeFacts
    <3> HIDE DEF s
    <3>2. Len(lists') = Len(lists)
      BY <3>1, <3>a, ListFacts
    <3>. QED  BY <1>1, <1>3, <2>1, <2>3, <3>2
  <2>4. CASE /\ drag.from <= Len(Present) /\ drag.to - 1 <= Len(RemoveAt(Present, drag.from))
             /\ lists' = [lists EXCEPT ![shown] = Dropped]
             /\ SetPhotos(shown)
    BY <1>5, <2>1, <2>4, DropEdits, DropTakes
  <2>. QED  BY <1>10, <2>2, <2>3, <2>4 DEF Drop, Dropped
<1>11. ASSUME NEW up \in uploads, uploads' = uploads \ {up}, count' = count,
              \/ UNCHANGED <<stored, user, lists>>
              \/ AddPhoto(up) /\ user # NoUser /\ SetPhotos(up.list)
              \/ AddPhoto(up) /\ UNCHANGED <<stored, user>>
       PROVE  ListsInv'
  <2>0. uploads' \subseteq uploads
    BY <1>11
  <2>1. CASE UNCHANGED <<stored, user, lists>>
    BY <1>1, <1>3, <1>11, <2>0, <2>1
  <2>2. CASE AddPhoto(up) /\ user # NoUser /\ SetPhotos(up.list)
    BY <1>5, <1>11, <2>0, <2>2, AddEdits
  <2>3. CASE AddPhoto(up) /\ UNCHANGED <<stored, user>>
    <3>1. Len(lists') = Len(lists)
      BY <2>3, AddWithout
    <3>. QED  BY <1>1, <1>3, <1>11, <2>0, <2>3, <3>1
  <2>. QED  BY <1>11, <2>1, <2>2, <2>3
<1>12. CASE GetImage
  <2>1. UNCHANGED <<user, lists>>
    BY <1>12 DEF GetImage
  <2>2. CASE UNCHANGED <<uploads, count, mishaps>>
    BY <1>4, <2>1, <2>2
  <2>3. CASE ~UNCHANGED <<uploads, count, mishaps>>
    <3> DEFINE up == [photo |-> [by |-> user.uid, n |-> count'], list |-> shown, live |-> TRUE]
    <3>1. sheets > 0 /\ count' = count + 1 /\ uploads' = uploads \cup {up}
      BY <1>12, <2>3 DEF GetImage
    <3>2. shown \in 1 .. Len(lists)
      <4>1. sheets # 0 /\ shown \in 0 .. Len(lists)
        BY <3>1, BoundsAssumption DEF TypeOK
      <4>. QED  BY <1>1, <4>1 DEF ScreenInv, PageInv
    <3>3. up.list \in 1 .. Len(lists) /\ up.photo.n = count'
      BY <3>2
    <3> HIDE DEF up
    <3>4. \A vp \in uploads' : vp.list \in 1 .. Len(lists') /\ vp.photo.n <= count'
      BY <1>1, <2>1, <3>1, <3>3
    <3>5. user' # NoUser => user'.list <= Len(lists')
      BY <1>1, <2>1
    <3>. QED  BY <3>4, <3>5 DEF ListsInv
  <2>. QED  BY <2>2, <2>3
<1>13. ASSUME NEW up \in uploads, UploadDone(up)
       PROVE  ListsInv'
  <2>1. user # NoUser
    BY <1>13 DEF UploadDone, ScreenInv, PageInv
  <2>. QED  BY <1>11, <1>13, <2>1 DEF UploadDone
<1>14. ASSUME NEW up \in uploads, LateUploadDone(up)
       PROVE  ListsInv'
  BY <1>11, <1>14 DEF LateUploadDone
<1>15. ASSUME NEW up \in uploads, UploadFails(up)
       PROVE  ListsInv'
  BY <1>11, <1>15 DEF UploadFails
<1>16. CASE OpenProfile \/ Frame \/ OnSelectPhoto \/ DismissSheet \/ OnSubmit
  BY <1>4, <1>16 DEF OpenProfile, Frame, OnSelectPhoto, DismissSheet, OnSubmit
<1>17. ASSUME NEW i \in 1 .. Slots, NEW j \in 1 .. Slots, Hover(i, j)
       PROVE  ListsInv'
  BY <1>4, <1>17 DEF Hover
<1>18. CASE UNCHANGED vars
  BY <1>4, <1>18 DEF vars
<1>. QED  BY <1>6, <1>7, <1>8, <1>9, <1>10, <1>12, <1>13, <1>14, <1>15, <1>16, <1>17,
             <1>18 DEF Next

LEMMA PageStep ==
    ASSUME TypeOK, ScreenInv, CoverInv, [Next]_vars
    PROVE  PageInv'
<1>1. /\ sheets \in Nat /\ count \in Nat /\ MaxPhotos \in Nat /\ sheets + count <= MaxPhotos
      /\ drag = NoDrag \/ (drag.from # 0 /\ drag.to # 0)
      /\ page = "none" <=> shown = 0
      /\ page # "none" => user # NoUser
      /\ page = "none" => sheets = 0 /\ ~submit /\ drag = NoDrag
      /\ \A up \in uploads : up.live => page # "none" /\ up.list = shown
  BY BoundsAssumption DEF TypeOK, ScreenInv, PageInv
<1>2. ASSUME page' = page, shown' = shown, drag' \in {drag, NoDrag},
             user' = user \/ user' # NoUser,
             sheets' + count' <= MaxPhotos,
             page = "none" => sheets' = 0 /\ ~submit',
             \A up \in uploads' : up \in uploads \/ (page # "none" /\ up.list = shown)
      PROVE  PageInv'
  <2>1. drag' = NoDrag \/ (drag'.from # 0 /\ drag'.to # 0)
    BY <1>1, <1>2
  <2>2. /\ page' = "none" <=> shown' = 0
        /\ page' # "none" => user' # NoUser
    BY <1>1, <1>2
  <2>3. page' = "none" => sheets' = 0 /\ ~submit' /\ drag' = NoDrag
    BY <1>1, <1>2
  <2>4. \A up \in uploads' : up.live => page' # "none" /\ up.list = shown'
    BY <1>1, <1>2
  <2>. QED  BY <1>2, <2>1, <2>2, <2>3, <2>4 DEF PageInv
<1>3. ASSUME UNCHANGED <<page, shown, sheets, submit, count>>, drag' \in {drag, NoDrag},
             user' = user \/ user' # NoUser, uploads' \subseteq uploads
      PROVE  PageInv'
  BY <1>1, <1>2, <1>3
<1>4. ASSUME page' # "none", shown' # 0, page = "none", sheets' = 0, drag' = NoDrag,
             user # NoUser, UNCHANGED <<user, uploads, count>>
      PROVE  PageInv'
  <2>1. sheets' + count' <= MaxPhotos
    BY <1>1, <1>4
  <2>. QED  BY <1>1, <1>4, <2>1 DEF PageInv
<1>5. CASE OpenSelectPhoto
  BY <1>4, <1>5, SelectFacts DEF OpenSelectPhoto, Show
<1>6. CASE OpenProfile
  <2>1. shown' # 0
    BY <1>6 DEF OpenProfile, Show
  <2>. QED  BY <1>4, <1>6, <2>1 DEF OpenProfile, Show
<1>7. CASE Back \/ LogOut \/ Submitted
  <2>1. Closed /\ count' = count
    BY <1>7 DEF Back, LogOut, Submitted
  <2>2. /\ page' = "none" /\ shown' = 0 /\ sheets' = 0 /\ submit' = FALSE /\ drag' = NoDrag
    BY <2>1 DEF Closed
  <2>3. \A up \in uploads' : ~up.live
    BY <2>1, ClosedFacts
  <2>4. sheets' + count' <= MaxPhotos
    BY <1>1, <2>1, <2>2
  <2>. QED  BY <2>2, <2>3, <2>4 DEF PageInv
<1>8. ASSUME NEW a \in Accounts, Login(a)
      PROVE  PageInv'
  <2>1. user' # NoUser
    BY <1>8, LoginFacts
  <2>. QED  BY <1>3, <1>8, <2>1 DEF Login, screen
<1>9. ASSUME NEW i \in 1 .. Slots, RemovePhoto(i)
      PROVE  PageInv'
  <2>1. user' = user \/ user' # NoUser
    <3>1. CASE i <= Len(Present)
      BY <1>9, <3>1, RemoveEdits DEF Edited
    <3>2. CASE ~(i <= Len(Present))
      BY <1>9, <3>2 DEF RemovePhoto
    <3>. QED  BY <3>1, <3>2
  <2>. QED  BY <1>3, <1>9, <2>1 DEF RemovePhoto, screen
<1>10. CASE Drop
  <2>1. user' = user \/ user' # NoUser
    <3>1. CASE user' = user
      BY <3>1
    <3>2. CASE /\ drag # NoDrag /\ drag.from <= Len(Present)
               /\ drag.to - 1 <= Len(RemoveAt(Present, drag.from))
               /\ lists' = [lists EXCEPT ![shown] = Dropped]
               /\ SetPhotos(shown)
      BY <3>2, DropEdits DEF Edited
    <3>. QED  BY <1>10, <3>1, <3>2 DEF Drop, Dropped
  <2>. QED  BY <1>3, <1>10, <2>1 DEF Drop
<1>11. ASSUME NEW up \in uploads, UploadDone(up)
       PROVE  PageInv'
  <2>1. page # "none" /\ user # NoUser
    BY <1>1, <1>11 DEF UploadDone
  <2>2. user' # NoUser
    BY <1>11, <2>1, AddEdits DEF UploadDone, Edited
  <2>3. sheets' + count' <= MaxPhotos /\ uploads' \subseteq uploads
    BY <1>1, <1>11 DEF UploadDone
  <2>. QED  BY <1>2, <1>11, <2>1, <2>2, <2>3 DEF UploadDone
<1>12. ASSUME NEW up \in uploads, LateUploadDone(up)
       PROVE  PageInv'
  <2>1. user' = user \/ user' # NoUser
    <3>1. CASE user' = user
      BY <3>1
    <3>2. CASE AddPhoto(up) /\ user # NoUser /\ SetPhotos(up.list)
      BY <3>2, AddEdits DEF Edited
    <3>. QED  BY <1>12, <3>1, <3>2 DEF LateUploadDone
  <2>2. uploads' \subseteq uploads
    BY <1>12 DEF LateUploadDone
  <2>. QED  BY <1>3, <1>12, <2>1, <2>2 DEF LateUploadDone, screen
<1>13. ASSUME NEW up \in uploads, UploadFails(up)
       PROVE  PageInv'
  <2>1. uploads' \subseteq uploads
    BY <1>13 DEF UploadFails
  <2>. QED  BY <1>3, <1>13, <2>1 DEF UploadFails, screen
<1>14. CASE Frame \/ OnSubmit
  BY <1>3, <1>14 DEF Frame, OnSubmit
<1>15. ASSUME NEW i \in 1 .. Slots, NEW j \in 1 .. Slots, Hover(i, j)
       PROVE  PageInv'
  <2>1. drag'.from # 0 /\ drag'.to # 0 /\ page # "none"
    BY <1>15, BoundsAssumption DEF Hover, Target
  <2>2. UNCHANGED <<page, shown, user, sheets, submit, count, uploads>>
    BY <1>15 DEF Hover
  <2>. QED  BY <1>1, <2>1, <2>2 DEF PageInv
<1>16. CASE OnSelectPhoto
  <2>1. sheets' + count' <= MaxPhotos
    <3>1. sheets + count < MaxPhotos /\ sheets' = sheets + 1 /\ count' = count
      BY <1>16 DEF OnSelectPhoto
    <3>. QED  BY <1>1, <3>1
  <2>. QED  BY <1>2, <1>16, <2>1 DEF OnSelectPhoto
<1>17. CASE DismissSheet
  <2>1. sheets' + count' <= MaxPhotos /\ page # "none"
    <3>1. sheets > 0 /\ sheets' = sheets - 1 /\ count' = count
      BY <1>17 DEF DismissSheet
    <3>2. sheets # 0
      BY <1>1, <3>1
    <3>. QED  BY <1>1, <3>1, <3>2
  <2>. QED  BY <1>2, <1>17, <2>1 DEF DismissSheet
<1>18. CASE GetImage
  <2>1. /\ sheets > 0 /\ sheets' = sheets - 1
        /\ UNCHANGED <<user, page, shown, drag>>
        /\ \/ UNCHANGED <<uploads, count>>
           \/ /\ count' = count + 1
              /\ uploads' = uploads \cup
                    {[photo |-> [by |-> user.uid, n |-> count'], list |-> shown, live |-> TRUE]}
    BY <1>18 DEF GetImage
  <2>2. page # "none"
    <3>1. sheets # 0
      BY <1>1, <2>1
    <3>. QED  BY <1>1, <3>1
  <2>3. sheets' + count' <= MaxPhotos
    BY <1>1, <2>1
  <2>4. \A up \in uploads' : up \in uploads \/ up.list = shown
    BY <2>1
  <2>. QED  BY <1>2, <2>1, <2>2, <2>3, <2>4
<1>19. CASE UNCHANGED vars
  BY <1>3, <1>19 DEF vars, screen
<1>. QED  BY <1>5, <1>6, <1>7, <1>8, <1>9, <1>10, <1>11, <1>12, <1>13, <1>14, <1>15, <1>16,
             <1>17, <1>18, <1>19 DEF Next

LEMMA CoverInit == Init => CoverInv
BY DEF Init, CoverInv

LEMMA CoverStep ==
    ASSUME TypeOK, ScreenInv, CoverInv, [Next]_vars
    PROVE  CoverInv'
<1>1. /\ page = "profile" => Registered(user.uid)
      /\ user # NoUser /\ user.url = NoPhoto =>
            Mine(user) = << >> /\ Present = << >> /\ ~Registered(user.uid) /\ ~submit
      /\ page = "none" <=> shown = 0
      /\ page # "none" => user # NoUser
  BY DEF CoverInv, ScreenInv, PageInv
<1>2. ASSUME UNCHANGED <<stored, user, page>>, Mine(user)' = Mine(user), Present' = Present \/ Present' = << >>,
             user # NoUser /\ user.url = NoPhoto => ~submit'
      PROVE  CoverInv'
  BY <1>1, <1>2 DEF CoverInv, Registered
<1>3. ASSUME UNCHANGED <<stored, user, lists, page, shown>>,
             submit' = submit \/ (submit' => Mine(user) # << >>)
      PROVE  CoverInv'
  <2>1. Mine(user)' = Mine(user) /\ Present' = Present
    BY <1>3 DEF Mine, Present
  <2>2. user # NoUser /\ user.url = NoPhoto => ~submit'
    BY <1>1, <1>3
  <2>. QED  BY <1>2, <1>3, <2>1, <2>2
<1>4. ASSUME NEW l, NEW s, Edited(l, s), page' = page, user # NoUser
      PROVE  CoverInv'
  <2>1. user' # NoUser /\ user'.url # NoPhoto /\ user'.uid = user.uid
    BY <1>4 DEF Edited
  <2>2. user.uid \in Accounts
    BY <1>4, TypeFacts
  <2>3. page' = "profile" => stored'[user'.uid] # NoDoc
    <3>1. stored'[user.uid] # NoDoc <=> stored[user.uid] # NoDoc
      BY <1>4, <2>2 DEF Edited, Registered
    <3>. QED  BY <1>1, <1>4, <2>1, <3>1 DEF Registered
  <2>. QED  BY <2>1, <2>3 DEF CoverInv, Registered
<1>5. ASSUME NEW a \in Accounts, Login(a)
      PROVE  CoverInv'
  <2>1. UNCHANGED <<stored, page, shown, submit>>
    BY <1>5 DEF Login, screen
  <2>2. page = "none" /\ shown = 0 /\ ~submit /\ user'.uid = a
    BY <1>5, LoginFacts
  <2>3. Present' = << >>
    BY <2>1, <2>2 DEF Present
  <2>4. user'.url = NoPhoto => Mine(user)' = << >> /\ ~Registered(a)
    BY <1>5, LoginFacts
  <2>. QED  BY <2>1, <2>2, <2>3, <2>4 DEF CoverInv, Registered
<1>6. CASE OpenSelectPhoto
  <2>1. UNCHANGED <<stored, user>>
    BY <1>6 DEF OpenSelectPhoto
  <2>2. /\ page' = "select" /\ Present' = << >> /\ Mine(user)' = Mine(user)
        /\ submit' <=> Mine(user) # << >>
    BY <1>6, SelectFacts
  <2>. QED  BY <1>1, <2>1, <2>2 DEF CoverInv, Registered
<1>7. CASE OpenProfile
  <2>1. UNCHANGED <<stored, user>>
    BY <1>7 DEF OpenProfile
  <2>2. user # NoUser /\ Registered(user.uid)
    BY <1>7 DEF OpenProfile
  <2>3. user.url # NoPhoto
    BY <1>1, <2>2
  <2>. QED  BY <2>1, <2>2, <2>3 DEF CoverInv, Registered
<1>8. CASE Back \/ LogOut \/ Submitted
  <2>1. UNCHANGED <<stored, lists>> /\ user' \in {user, NoUser} /\ page' = "none" /\ shown' = 0
        /\ ~submit'
    BY <1>8 DEF Back, LogOut, Submitted, Closed
  <2>2. Present' = << >>
    BY <2>1 DEF Present
  <2>3. CASE user' = NoUser
    BY <2>1, <2>3 DEF CoverInv
  <2>4. CASE user' = user
    <3>1. Mine(user)' = Mine(user)
      BY <2>1, <2>4 DEF Mine
    <3>. QED  BY <1>1, <2>1, <2>2, <2>4, <3>1 DEF CoverInv, Registered
  <2>. QED  BY <2>1, <2>3, <2>4
<1>9. ASSUME NEW i \in 1 .. Slots, RemovePhoto(i)
      PROVE  CoverInv'
  <2>1. UNCHANGED <<page, shown, submit>>
    BY <1>9 DEF RemovePhoto, screen
  <2>2. CASE i <= Len(Present)
    BY <1>4, <1>9, <2>1, <2>2, RemoveEdits
  <2>3. CASE ~(i <= Len(Present))
    <3>1. UNCHANGED <<stored, user, lists>>
      BY <1>9, <2>3 DEF RemovePhoto
    <3>. QED  BY <1>3, <2>1, <3>1
  <2>. QED  BY <2>2, <2>3
<1>10. CASE Drop
  <2>1. UNCHANGED <<page, shown, submit>> /\ drag # NoDrag
    BY <1>10 DEF Drop
  <2>2. CASE drag.from > Len(Present) /\ UNCHANGED <<stored, user, lists, mishaps>>
    BY <1>3, <2>1, <2>2
  <2>3. CASE /\ drag.from <= Len(Present)
             /\ UNCHANGED <<stored, user>>
    <3>1. user # NoUser /\ user.url # NoPhoto
      BY <2>1, <2>3, DropTakes
    <3>2. page' = page /\ user' = user /\ stored' = stored
      BY <2>1, <2>3
    <3>. QED  BY <1>1, <3>1, <3>2 DEF CoverInv, Registered
  <2>4. CASE /\ drag.from <= Len(Present) /\ drag.to - 1 <= Len(RemoveAt(Present, drag.from))
             /\ lists' = [lists EXCEPT ![shown] = Dropped]
             /\ SetPhotos(shown)
    BY <1>4, <2>1, <2>4, DropEdits, DropTakes
  <2>. QED  BY <1>10, <2>2, <2>3, <2>4 DEF Drop, Dropped
<1>11. ASSUME NEW up \in uploads, UploadDone(up)
       PROVE  CoverInv'
  <2>1. user # NoUser
    BY <1>11 DEF UploadDone, ScreenInv, PageInv
  <2>. QED  BY <1>4, <1>11, <2>1, AddEdits DEF UploadDone
<1>12. ASSUME NEW up \in uploads, LateUploadDone(up)
       PROVE  CoverInv'
  <2>1. UNCHANGED <<page, shown, submit>>
    BY <1>12 DEF LateUploadDone, screen
  <2>2. CASE UNCHANGED <<stored, user, lists>>
    BY <1>3, <2>1, <2>2
  <2>3. CASE AddPhoto(up) /\ user # NoUser /\ SetPhotos(up.list)
    BY <1>4, <2>1, <2>3, AddEdits
  <2>4. CASE user = NoUser /\ UNCHANGED <<stored, user>>
    BY <1>1, <2>1, <2>4 DEF CoverInv
  <2>. QED  BY <1>12, <2>2, <2>3, <2>4 DEF LateUploadDone
<1>13. ASSUME NEW up \in uploads, UploadFails(up)
       PROVE  CoverInv'
  BY <1>3, <1>13 DEF UploadFails, screen
<1>14. CASE OnSubmit
  <2>1. UNCHANGED <<user, lists, page, shown, submit>> /\ submit /\ page = "select"
    BY <1>14 DEF OnSubmit
  <2>2. user # NoUser /\ user.url # NoPhoto
    BY <1>1, <2>1
  <2>. QED  BY <2>1, <2>2 DEF CoverInv
<1>15. CASE Frame \/ OnSelectPhoto \/ DismissSheet
  BY <1>3, <1>15 DEF Frame, OnSelectPhoto, DismissSheet
<1>16. CASE GetImage
  <2>1. UNCHANGED <<stored, user, lists, page, shown>>
    BY <1>16 DEF GetImage
  <2>2. submit' => Mine(user) # << >>
    BY <1>16 DEF GetImage
  <2>. QED  BY <1>3, <2>1, <2>2
<1>17. ASSUME NEW i \in 1 .. Slots, NEW j \in 1 .. Slots, Hover(i, j)
       PROVE  CoverInv'
  BY <1>3, <1>17 DEF Hover
<1>18. CASE UNCHANGED vars
  BY <1>3, <1>18 DEF vars, screen
<1>. QED  BY <1>5, <1>6, <1>7, <1>8, <1>9, <1>10, <1>11, <1>12, <1>13, <1>14, <1>15, <1>16,
             <1>17, <1>18 DEF Next

\* PhotoTypes: documents, models, list objects, pages and uploads stay what
\* they are, whatever pages are left while uploads go on: a page shows an
\* object that exists, and no more photos are drawn than were ever uploaded
\* (getImage, widget_profile_photo.dart:233-304).
THEOREM PhotoTypes == Spec => []TypeOK
<1>1. Init => StateInv
  BY TypeInit, ScreenInit, CoverInit, FitInit DEF StateInv
<1>2. StateInv /\ [Next]_vars => StateInv'
  BY TypeStep, ListsStep, PageStep, CoverStep, FitStep DEF StateInv, ScreenInv
<1>3. StateInv => TypeOK
  BY DEF StateInv
<1>. QED  BY <1>1, <1>2, <1>3, PTL DEF Spec

-----------------------------------------------------------------------------
(* What is not forgotten, and what a property's sets mean. *)

LEMMA MishapsStay == [Next]_vars => mishaps \subseteq mishaps'
<1>. SUFFICES ASSUME [Next]_vars  PROVE mishaps \subseteq mishaps'
  OBVIOUS
<1>1. CASE OpenSelectPhoto \/ OpenProfile \/ Back \/ LogOut \/ Frame \/ Submitted \/ DismissSheet
  BY <1>1 DEF OpenSelectPhoto, OpenProfile, Back, LogOut, Frame, Submitted, DismissSheet
<1>2. CASE OnSelectPhoto \/ OnSubmit \/ \E i \in 1 .. Slots : RemovePhoto(i)
  BY <1>2 DEF OnSelectPhoto, OnSubmit, RemovePhoto, Tapped
<1>3. CASE Drop
  BY <1>3 DEF Drop, Tapped
<1>4. CASE GetImage
  BY <1>4 DEF GetImage
<1>5. CASE \E up \in uploads : UploadDone(up) \/ LateUploadDone(up) \/ UploadFails(up)
  BY <1>5 DEF UploadDone, LateUploadDone, UploadFails
<1>6. CASE (\E a \in Accounts : Login(a)) \/ (\E i, j \in 1 .. Slots : Hover(i, j))
  BY <1>6 DEF Login, Hover
<1>7. CASE UNCHANGED vars
  BY <1>7 DEF vars
<1>. QED  BY <1>1, <1>2, <1>3, <1>4, <1>5, <1>6, <1>7 DEF Next

LEMMA PhotosOfFacts ==
    ASSUME NEW s \in Seq(Photos)
    PROVE  /\ ToSet(s) # {} <=> s # << >>
           /\ \A p \in ToSet(s) : \E i \in DOMAIN s : p = s[i]
<1>1. s # << >> => 1 \in DOMAIN s
  OBVIOUS
<1>2. s = << >> => DOMAIN s = {}
  OBVIOUS
<1>. QED  BY <1>1, <1>2 DEF ToSet

-----------------------------------------------------------------------------
(* CoverIsFirst *)

\* Read with what CoverInv says of a model that has no photos, CoverIsFirst is
\* inductive: each step that changes a list that a model or a document holds
\* goes through setPhotos, except a drop that fails.
Heads ==
    /\ user # NoUser /\ Mine(user) # << >> => user.url = Head(Mine(user))
    /\ \A a \in Accounts : Registered(a) /\ stored[a].photos # << >> =>
          stored[a].url = Head(stored[a].photos)

HeadsInv == Without("drop") => Heads

LEMMA HeadsInit == Init => HeadsInv
<1>. SUFFICES ASSUME Init  PROVE HeadsInv
  OBVIOUS
<1>1. user = NoUser
  BY DEF Init
<1>2. ASSUME NEW a \in Accounts, Registered(a)
      PROVE  stored[a].url = Head(stored[a].photos)
  <2>1. stored[a].photos = <<First(a)>> /\ stored[a].url = First(a)
    BY <1>2 DEF Init, Registered
  <2>. QED  BY <2>1
<1>. QED  BY <1>1, <1>2 DEF HeadsInv, Heads

LEMMA HeadsStep ==
    ASSUME TypeOK, ScreenInv, CoverInv, HeadsInv, [Next]_vars
    PROVE  HeadsInv'
<1>. SUFFICES ASSUME Without("drop")'  PROVE Heads'
  BY DEF HeadsInv
<1>1. /\ "drop" \notin mishaps /\ "drop" \notin mishaps'
      /\ user # NoUser /\ Mine(user) # << >> => user.url = Head(Mine(user))
      /\ \A a \in Accounts : Registered(a) /\ stored[a].photos # << >> =>
            stored[a].url = Head(stored[a].photos)
  BY MishapsStay DEF HeadsInv, Heads, Without
<1>2. ASSUME UNCHANGED <<stored, lists>>, user' \in {user, NoUser}
      PROVE  Heads'
  <2>1. user' # NoUser => user' = user /\ Mine(user)' = Mine(user)
    BY <1>2 DEF Mine
  <2>. QED  BY <1>1, <1>2, <2>1 DEF Registered, Heads
<1>3. ASSUME NEW l, NEW s, Edited(l, s), user # NoUser
      PROVE  Heads'
  <2>1. user'.url = (IF s = << >> THEN user.url ELSE Head(s)) /\ Mine(user)' = s
    BY <1>3 DEF Edited
  <2>2. ASSUME NEW a \in Accounts, Registered(a)', stored'[a].photos # << >>
        PROVE  stored'[a].url = Head(stored'[a].photos)
    <3>1. CASE a = user.uid /\ page = "profile"
      <4>1. stored'[a].photos = s /\ stored'[a].url = user'.url
        BY <1>3, <3>1 DEF Edited
      <4>. QED  BY <2>1, <2>2, <4>1
    <3>2. CASE a # user.uid \/ page # "profile"
      <4>1. Registered(a) /\ stored'[a] = stored[a]
        BY <1>3, <2>2, <3>2 DEF Edited
      <4>. QED  BY <1>1, <2>2, <4>1
    <3>. QED  BY <3>1, <3>2
  <2>3. user' # NoUser /\ Mine(user)' # << >> => user'.url = Head(Mine(user)')
    BY <2>1
  <2>. QED  BY <2>2, <2>3 DEF Heads
<1>4. ASSUME NEW a \in Accounts, Login(a)
      PROVE  Heads'
  <2>1. stored' = stored
    BY <1>4 DEF Login
  <2>2. /\ Registered(a) => Mine(user)' = stored[a].photos /\ user'.url = stored[a].url
        /\ ~Registered(a) => Mine(user)' = << >>
    BY <1>4, LoginFacts
  <2>. QED  BY <1>1, <2>1, <2>2 DEF Registered, Heads
<1>5. CASE OpenSelectPhoto
  <2>1. UNCHANGED <<stored, user>>
    BY <1>5 DEF OpenSelectPhoto
  <2>2. Mine(user)' = Mine(user)
    BY <1>5, SelectFacts
  <2>. QED  BY <1>1, <2>1, <2>2 DEF Registered, Heads
<1>6. CASE OpenProfile \/ Frame \/ OnSelectPhoto \/ DismissSheet \/ GetImage
  BY <1>2, <1>6 DEF OpenProfile, Frame, OnSelectPhoto, DismissSheet, GetImage
<1>7. CASE Back \/ LogOut \/ Submitted
  BY <1>2, <1>7 DEF Back, LogOut, Submitted
<1>8. ASSUME NEW i \in 1 .. Slots, RemovePhoto(i)
      PROVE  Heads'
  <2>1. CASE i <= Len(Present)
    BY <1>3, <1>8, <2>1, RemoveEdits
  <2>2. CASE ~(i <= Len(Present))
    BY <1>2, <1>8, <2>2 DEF RemovePhoto
  <2>. QED  BY <2>1, <2>2
<1>9. CASE Drop
  <2>1. drag # NoDrag
    BY <1>9 DEF Drop
  <2>2. CASE UNCHANGED <<stored, user, lists>>
    BY <1>2, <2>2
  <2>3. CASE /\ drag.from <= Len(Present) /\ drag.to - 1 <= Len(RemoveAt(Present, drag.from))
             /\ lists' = [lists EXCEPT ![shown] = Dropped]
             /\ SetPhotos(shown)
    BY <1>3, <2>1, <2>3, DropEdits, DropTakes
  <2>. QED  BY <1>1, <1>9, <2>2, <2>3 DEF Drop, Dropped
<1>10. ASSUME NEW up \in uploads, UploadDone(up)
       PROVE  Heads'
  <2>1. user # NoUser
    BY <1>10 DEF UploadDone, ScreenInv, PageInv
  <2>. QED  BY <1>3, <1>10, <2>1, AddEdits DEF UploadDone
<1>11. ASSUME NEW up \in uploads, LateUploadDone(up)
       PROVE  Heads'
  <2>1. CASE UNCHANGED <<stored, user, lists>>
    BY <1>2, <2>1
  <2>2. CASE AddPhoto(up) /\ user # NoUser /\ SetPhotos(up.list)
    BY <1>3, <2>2, AddEdits
  <2>3. CASE user = NoUser /\ UNCHANGED <<stored, user>>
    BY <1>1, <2>3 DEF Registered, Heads
  <2>. QED  BY <1>11, <2>1, <2>2, <2>3 DEF LateUploadDone
<1>12. ASSUME NEW up \in uploads, UploadFails(up)
       PROVE  Heads'
  BY <1>2, <1>12 DEF UploadFails
<1>13. CASE OnSubmit
  <2>1. user # NoUser /\ user' = user /\ lists' = lists
    BY <1>13 DEF OnSubmit, ScreenInv, PageInv
  <2>2. user.uid \in Accounts /\ stored \in [Accounts -> Docs \cup {NoDoc}]
    BY <2>1, TypeFacts DEF TypeOK
  <2>3. /\ stored'[user.uid].photos = Mine(user) /\ stored'[user.uid].url = user.url
        /\ \A b \in Accounts : b # user.uid => stored'[b] = stored[b]
    BY <1>13, <2>2 DEF OnSubmit
  <2>4. Mine(user)' = Mine(user)
    BY <2>1 DEF Mine
  <2>5. ASSUME NEW a \in Accounts, Registered(a)', stored'[a].photos # << >>
        PROVE  stored'[a].url = Head(stored'[a].photos)
    <3>1. CASE a = user.uid
      BY <1>1, <2>1, <2>3, <2>5, <3>1
    <3>2. CASE a # user.uid
      BY <1>1, <2>3, <2>5, <3>2 DEF Registered
    <3>. QED  BY <3>1, <3>2
  <2>. QED  BY <1>1, <2>1, <2>4, <2>5 DEF Heads
<1>14. ASSUME NEW i \in 1 .. Slots, NEW j \in 1 .. Slots, Hover(i, j)
       PROVE  Heads'
  BY <1>2, <1>14 DEF Hover
<1>15. CASE UNCHANGED vars
  BY <1>2, <1>15 DEF vars
<1>. QED  BY <1>4, <1>5, <1>6, <1>7, <1>8, <1>9, <1>10, <1>11, <1>12, <1>13, <1>14, <1>15 DEF Next

LEMMA CoverFirst == TypeOK /\ HeadsInv => CoverIsFirst
<1>. SUFFICES ASSUME TypeOK, HeadsInv, Without("drop"), NEW a \in Accounts, PhotosOf(a) # {}
              PROVE  stored[a].url = Head(stored[a].photos)
  BY DEF CoverIsFirst, HeadsInv, Heads
<1>1. Registered(a) /\ ToSet(stored[a].photos) # {}
  BY DEF PhotosOf, Registered
<1>2. stored[a].photos # << >>
  BY <1>1, TypeFacts, PhotosOfFacts
<1>. QED  BY <1>1, <1>2 DEF HeadsInv, Heads

\* CoverIsTheFirst: photoUrl is the first photo, in the model and in each
\* document, also after uploads that end late; only a failed drop parts them
\* (setPhotos, user_model.dart:174-180; onAccept, widget_profile_photo.dart:73-80).
THEOREM CoverIsTheFirst == Spec => []CoverIsFirst
<1> DEFINE I == StateInv /\ HeadsInv
<1>1. Init => I
  BY TypeInit, ScreenInit, CoverInit, FitInit, HeadsInit DEF StateInv
<1>2. I /\ [Next]_vars => I'
  BY TypeStep, ListsStep, PageStep, CoverStep, FitStep, HeadsStep DEF StateInv, ScreenInv
<1>3. I => CoverIsFirst
  BY CoverFirst DEF StateInv
<1> HIDE DEF I
<1>. QED  BY <1>1, <1>2, <1>3, PTL DEF Spec

-----------------------------------------------------------------------------
(* OwnPhotos *)

\* OwnPhotos is not inductive: while no upload ends late, the photos of the
\* model, of the page's list and of the uploads that the page waits for are
\* the signed-in account's, and so is what setPhotos and onSubmit store.
By(s, a) == \A i \in DOMAIN s : s[i].by = a

Own ==
    /\ \A a \in Accounts : Registered(a) => By(stored[a].photos, a)
    /\ user # NoUser => By(Mine(user), user.uid)
    /\ page # "none" => By(Present, user.uid)
    /\ \A up \in uploads : up.live => up.photo.by = user.uid

OwnInv == Without("late") => Own

LEMMA ByRemoveAt ==
    ASSUME NEW s \in Seq(Photos), NEW i \in 1 .. Len(s), NEW a, By(s, a)
    PROVE  By(RemoveAt(s, i), a)
<1> DEFINE r == RemoveAt(s, i)
<1>1. /\ r \in Seq(Photos) /\ Len(s) \in Nat /\ Len(r) = Len(s) - 1
      /\ \A j \in 1 .. Len(s) - 1 : r[j] = IF j < i THEN s[j] ELSE s[j + 1]
  BY RemoveAtFacts
<1> HIDE DEF r
<1>2. \A k \in 1 .. Len(s) : s[k].by = a
  BY DEF By
<1>3. ASSUME NEW j \in DOMAIN r  PROVE r[j].by = a
  <2>1. j \in 1 .. Len(s) - 1 /\ j \in 1 .. Len(s) /\ j + 1 \in 1 .. Len(s)
    BY <1>1
  <2>2. r[j] = s[j] \/ r[j] = s[j + 1]
    BY <1>1, <2>1
  <2>. QED  BY <1>2, <2>1, <2>2
<1>. QED  BY <1>3 DEF By, r

LEMMA ByInsertAt ==
    ASSUME NEW s \in Seq(Photos), NEW i \in 1 .. Len(s) + 1, NEW p \in Photos, NEW a,
           By(s, a), p.by = a
    PROVE  By(InsertAt(s, i, p), a)
<1> DEFINE r == InsertAt(s, i, p)
<1>1. /\ r \in Seq(Photos) /\ Len(r) = Len(s) + 1
      /\ \A j \in 1 .. Len(s) + 1 : r[j] = p \/ \E k \in 1 .. Len(s) : r[j] = s[k]
  BY InsertAtFacts
<1> HIDE DEF r
<1>2. \A k \in 1 .. Len(s) : s[k].by = a
  BY DEF By
<1>3. ASSUME NEW j \in DOMAIN r  PROVE r[j].by = a
  <2>1. j \in 1 .. Len(s) + 1
    BY <1>1
  <2>2. CASE r[j] = p
    BY <2>2
  <2>3. CASE \E k \in 1 .. Len(s) : r[j] = s[k]
    BY <1>2, <2>3
  <2>. QED  BY <1>1, <2>1, <2>2, <2>3
<1>. QED  BY <1>3 DEF By, r

LEMMA ByAppend ==
    ASSUME NEW s \in Seq(Photos), NEW p \in Photos, NEW a, By(s, a), p.by = a
    PROVE  By(Append(s, p), a)
<1>1. \A k \in 1 .. Len(s) : s[k].by = a
  BY DEF By
<1> DEFINE r == Append(s, p)
<1>2. /\ DOMAIN r = 1 .. Len(s) + 1 /\ Len(s) \in Nat
      /\ \A i \in 1 .. Len(s) : r[i] = s[i]
      /\ r[Len(s) + 1] = p
  BY AppendFacts
<1> HIDE DEF r
<1>3. ASSUME NEW j \in DOMAIN r  PROVE r[j].by = a
  <2>1. j \in 1 .. Len(s) \/ j = Len(s) + 1
    BY <1>2
  <2>. QED  BY <1>1, <1>2, <2>1
<1>. QED  BY <1>3 DEF By, r

LEMMA ByEmpty == \A a : By(<< >>, a)
BY DEF By

\* Moving a photo keeps the photos' owner.
LEMMA ByDropped ==
    ASSUME TypeOK, ScreenInv, CoverInv, drag # NoDrag, drag.from <= Len(Present),
           drag.to - 1 <= Len(RemoveAt(Present, drag.from)), NEW a, By(Present, a)
    PROVE  By(Dropped, a)
<1> DEFINE r == RemoveAt(Present, drag.from)
<1>1. /\ Present \in Seq(Photos) /\ drag.from \in 1 .. Len(Present)
      /\ Present[drag.from] \in Photos
      /\ r \in Seq(Photos) /\ Len(r) = Len(Present) - 1 /\ Len(Present) \in Nat
  BY DropTakes, TypeFacts
<1>2. By(r, a)
  BY <1>1, ByRemoveAt
<1>3. Present[drag.from].by = a
  BY <1>1 DEF By
<1>4. drag.to \in 0 .. Slots /\ drag.to # 0 /\ drag.to - 1 <= Len(r)
  BY DEF TypeOK, ScreenInv, PageInv
<1> HIDE DEF r
<1>5. drag.to \in 1 .. Len(r) + 1
  BY <1>1, <1>4, BoundsAssumption
<1>6. By(InsertAt(r, drag.to, Present[drag.from]), a)
  BY <1>1, <1>2, <1>3, <1>5, ByInsertAt
<1>. QED  BY <1>6 DEF Dropped, r

LEMMA OwnInit == Init => OwnInv
<1>. SUFFICES ASSUME Init  PROVE Own
  BY DEF OwnInv
<1>1. user = NoUser /\ page = "none" /\ uploads = {}
  BY DEF Init
<1>2. ASSUME NEW a \in Accounts, Registered(a)
      PROVE  By(stored[a].photos, a)
  <2>1. stored[a].photos = <<First(a)>>
    BY <1>2 DEF Init, Registered
  <2>. QED  BY <2>1 DEF By, First
<1>. QED  BY <1>1, <1>2 DEF Own

LEMMA OwnStep ==
    ASSUME TypeOK, ScreenInv, CoverInv, OwnInv, [Next]_vars
    PROVE  OwnInv'
<1>. SUFFICES ASSUME Without("late")'  PROVE Own'
  BY DEF OwnInv
<1>1. /\ "late" \notin mishaps /\ "late" \notin mishaps'
      /\ \A a \in Accounts : Registered(a) => By(stored[a].photos, a)
      /\ user # NoUser => By(Mine(user), user.uid)
      /\ page # "none" => By(Present, user.uid)
      /\ \A up \in uploads : up.live => up.photo.by = user.uid
  BY MishapsStay DEF OwnInv, Own, Without
<1>2. /\ page = "none" <=> shown = 0
      /\ page # "none" => user # NoUser
      /\ \A up \in uploads : up.live => page # "none" /\ up.list = shown
  BY DEF ScreenInv, PageInv
<1>3. ASSUME stored' = stored
      PROVE  \A a \in Accounts : Registered(a)' => By(stored'[a].photos, a)
  BY <1>1, <1>3 DEF Registered
<1>4. ASSUME UNCHANGED <<stored, user, lists, page, shown>>, uploads' \subseteq uploads
      PROVE  Own'
  <2>1. Mine(user)' = Mine(user) /\ Present' = Present
    BY <1>4 DEF Mine, Present
  <2>. QED  BY <1>1, <1>3, <1>4, <2>1 DEF Own
<1>5. ASSUME NEW s, Edited(shown, s), By(s, user.uid), UNCHANGED <<page, shown>>,
             uploads' \subseteq uploads, user # NoUser, page # "none"
      PROVE  Own'
  <2>1. user'.uid = user.uid /\ Mine(user)' = s /\ Present' = s
    BY <1>2, <1>5 DEF Edited, Present
  <2>2. ASSUME NEW a \in Accounts, Registered(a)'
        PROVE  By(stored'[a].photos, a)
    <3>1. CASE a = user.uid /\ page = "profile"
      BY <1>5, <3>1 DEF Edited
    <3>2. CASE a # user.uid \/ page # "profile"
      <4>1. Registered(a) /\ stored'[a] = stored[a]
        BY <1>5, <2>2, <3>2 DEF Edited
      <4>. QED  BY <1>1, <4>1
    <3>. QED  BY <3>1, <3>2
  <2>. QED  BY <1>1, <1>5, <2>1, <2>2 DEF Own
<1>6. ASSUME NEW a \in Accounts, Login(a)
      PROVE  Own'
  <2>1. UNCHANGED <<stored, page, shown, uploads>>
    BY <1>6 DEF Login, screen
  <2>2. page = "none" /\ user'.uid = a
    BY <1>6, LoginFacts
  <2>3. By(Mine(user)', a)
    <3>1. CASE Registered(a)
      BY <1>1, <1>6, <3>1, LoginFacts
    <3>2. CASE ~Registered(a)
      BY <1>6, <3>2, LoginFacts, ByEmpty
    <3>. QED  BY <3>1, <3>2
  <2>4. \A up \in uploads' : ~up.live
    BY <1>2, <2>1, <2>2
  <2>. QED  BY <1>3, <2>1, <2>2, <2>3, <2>4 DEF Own
<1>7. CASE OpenSelectPhoto
  <2>1. UNCHANGED <<stored, user, uploads>>
    BY <1>7 DEF OpenSelectPhoto
  <2>2. page = "none" /\ Present' = << >> /\ Mine(user)' = Mine(user)
    BY <1>7, SelectFacts
  <2>3. \A up \in uploads' : ~up.live
    BY <1>2, <2>1, <2>2
  <2>. QED  BY <1>1, <1>3, <2>1, <2>2, <2>3, ByEmpty DEF Own
<1>8. CASE OpenProfile
  <2>1. UNCHANGED <<stored, user, lists, uploads>>
    BY <1>8 DEF OpenProfile
  <2>2. page = "none" /\ user # NoUser /\ Present' = Mine(user)
    BY <1>8, ProfileFacts
  <2>3. Mine(user)' = Mine(user)
    BY <2>1 DEF Mine
  <2>4. \A up \in uploads' : ~up.live
    BY <1>2, <2>1, <2>2
  <2>. QED  BY <1>1, <1>3, <2>1, <2>2, <2>3, <2>4 DEF Own
<1>9. CASE Back \/ LogOut \/ Submitted
  <2>1. Closed /\ UNCHANGED <<stored, lists>> /\ user' \in {user, NoUser} /\ page' = "none"
    BY <1>9 DEF Back, LogOut, Submitted, Closed
  <2>2. \A up \in uploads' : ~up.live
    BY <2>1, ClosedFacts
  <2>3. user' # NoUser => user' = user /\ Mine(user)' = Mine(user)
    BY <2>1 DEF Mine
  <2>. QED  BY <1>1, <1>3, <2>1, <2>2, <2>3 DEF Own
<1>10. ASSUME NEW i \in 1 .. Slots, RemovePhoto(i)
       PROVE  Own'
  <2>1. UNCHANGED <<page, shown, uploads>> /\ page # "none"
    BY <1>10 DEF RemovePhoto, screen
  <2>2. CASE i <= Len(Present)
    <3> DEFINE s == RemoveAt(Present, i)
    <3>1. i \in 1 .. Len(Present) /\ user # NoUser /\ Edited(shown, s) /\ Present \in Seq(Photos)
      BY <1>10, <2>2, RemoveEdits, TypeFacts
    <3>2. By(s, user.uid)
      BY <1>1, <2>1, <3>1, ByRemoveAt
    <3> HIDE DEF s
    <3>. QED  BY <1>5, <2>1, <3>1, <3>2
  <2>3. CASE ~(i <= Len(Present))
    <3>1. UNCHANGED <<stored, user, lists>>
      BY <1>10, <2>3 DEF RemovePhoto
    <3>. QED  BY <1>4, <2>1, <3>1
  <2>. QED  BY <2>2, <2>3
<1>11. CASE Drop
  <2>1. UNCHANGED <<page, shown, uploads>> /\ drag # NoDrag
    BY <1>11 DEF Drop
  <2>2. CASE drag.from > Len(Present) /\ UNCHANGED <<stored, user, lists, mishaps>>
    BY <1>4, <2>1, <2>2
  <2>3. CASE /\ drag.from <= Len(Present)
             /\ lists' = [lists EXCEPT ![shown] = RemoveAt(Present, drag.from)]
             /\ UNCHANGED <<stored, user>>
    <3> DEFINE s == RemoveAt(Present, drag.from)
    <3>1. /\ shown \in 1 .. Len(lists) /\ s \in Seq(Photos) /\ page # "none" /\ user # NoUser
          /\ drag.from \in 1 .. Len(Present) /\ Present \in Seq(Photos)
      BY <2>1, <2>3, DropTakes, TypeFacts
    <3>2. By(s, user.uid)
      BY <1>1, <3>1, ByRemoveAt
    <3>3. lists' = [lists EXCEPT ![shown] = s] /\ lists \in Seq(Seq(Photos))
      BY <2>3, TypeFacts
    <3> HIDE DEF s
    <3>4. /\ Len(lists') = Len(lists) /\ lists'[shown] = s
          /\ \A k \in 1 .. Len(lists) : k # shown => lists'[k] = lists[k]
      BY <3>1, <3>3, ListFacts
    <3>5. Present' = s
      BY <1>2, <2>1, <3>1, <3>4 DEF Present
    <3>6. Mine(user)' = s \/ Mine(user)' = Mine(user)
      <4>1. user.list \in 0 .. Len(lists)
        <5>1. user.list \in Nat /\ user.list <= Len(lists) /\ Len(lists) \in Nat
          BY <3>1, TypeFacts DEF ScreenInv, ListsInv
        <5>. QED  BY <5>1
      <4>2. CASE user.list = shown
        BY <1>2, <2>3, <3>1, <3>4, <4>2 DEF Mine
      <4>3. CASE user.list # shown
        BY <2>3, <3>4, <4>1, <4>3 DEF Mine
      <4>. QED  BY <4>2, <4>3
    <3>7. By(Mine(user)', user.uid)
      BY <1>1, <3>1, <3>2, <3>6
    <3>. QED  BY <1>1, <1>3, <2>1, <2>3, <3>2, <3>5, <3>7 DEF Own
  <2>4. CASE /\ drag.from <= Len(Present) /\ drag.to - 1 <= Len(RemoveAt(Present, drag.from))
             /\ lists' = [lists EXCEPT ![shown] = Dropped]
             /\ SetPhotos(shown)
    <3>1. user # NoUser /\ page # "none" /\ Edited(shown, Dropped)
      BY <2>1, <2>4, DropEdits, DropTakes
    <3>2. By(Dropped, user.uid)
      BY <1>1, <2>1, <2>4, <3>1, ByDropped
    <3>. QED  BY <1>5, <2>1, <3>1, <3>2
  <2>. QED  BY <1>11, <2>2, <2>3, <2>4 DEF Drop, Dropped
<1>12. ASSUME NEW up \in uploads, UploadDone(up)
       PROVE  Own'
  <2>1. page # "none" /\ user # NoUser /\ up.list = shown /\ up.photo.by = user.uid
    BY <1>1, <1>2, <1>12 DEF UploadDone
  <2> DEFINE t == lists[up.list]
             s == Append(t, up.photo)
  <2>2. t \in Seq(Photos) /\ up.photo \in Photos /\ Edited(shown, s)
    BY <1>12, <2>1, AddEdits DEF UploadDone
  <2>3. t = Present
    BY <1>2, <2>1 DEF Present
  <2> HIDE DEF t
  <2>4. By(s, user.uid)
    BY <1>1, <2>1, <2>2, <2>3, ByAppend
  <2>5. UNCHANGED <<page, shown>> /\ uploads' \subseteq uploads
    BY <1>12 DEF UploadDone
  <2> HIDE DEF s
  <2>. QED  BY <1>5, <2>1, <2>2, <2>4, <2>5
<1>13. ASSUME NEW up \in uploads, LateUploadDone(up)
       PROVE  FALSE
  BY <1>1, <1>13 DEF LateUploadDone
<1>14. ASSUME NEW up \in uploads, UploadFails(up)
       PROVE  Own'
  BY <1>4, <1>14 DEF UploadFails, screen
<1>15. CASE OnSubmit
  <2>1. user # NoUser /\ UNCHANGED <<user, lists, page, shown, uploads>>
    BY <1>2, <1>15 DEF OnSubmit
  <2>2. user.uid \in Accounts /\ stored \in [Accounts -> Docs \cup {NoDoc}]
    BY <2>1, TypeFacts DEF TypeOK
  <2>3. /\ stored'[user.uid].photos = Mine(user)
        /\ \A b \in Accounts : b # user.uid => stored'[b] = stored[b]
    BY <1>15, <2>2 DEF OnSubmit
  <2>4. Mine(user)' = Mine(user) /\ Present' = Present
    BY <2>1 DEF Mine, Present
  <2>5. ASSUME NEW a \in Accounts, Registered(a)'
        PROVE  By(stored'[a].photos, a)
    <3>1. CASE a = user.uid
      BY <1>1, <2>1, <2>3, <3>1
    <3>2. CASE a # user.uid
      BY <1>1, <2>3, <2>5, <3>2 DEF Registered
    <3>. QED  BY <3>1, <3>2
  <2>. QED  BY <1>1, <2>1, <2>4, <2>5 DEF Own
<1>16. CASE Frame \/ OnSelectPhoto \/ DismissSheet
  BY <1>4, <1>16 DEF Frame, OnSelectPhoto, DismissSheet
<1>17. CASE GetImage
  <2>1. UNCHANGED <<stored, user, lists, page, shown>>
    BY <1>17 DEF GetImage
  <2>2. \A up \in uploads' : up \in uploads \/ up.photo.by = user.uid
    BY <1>17 DEF GetImage
  <2>3. Mine(user)' = Mine(user) /\ Present' = Present
    BY <2>1 DEF Mine, Present
  <2>. QED  BY <1>1, <1>3, <2>1, <2>2, <2>3 DEF Own
<1>18. ASSUME NEW i \in 1 .. Slots, NEW j \in 1 .. Slots, Hover(i, j)
       PROVE  Own'
  BY <1>4, <1>18 DEF Hover
<1>19. CASE UNCHANGED vars
  BY <1>4, <1>19 DEF vars, screen
<1>. QED  BY <1>6, <1>7, <1>8, <1>9, <1>10, <1>11, <1>12, <1>13, <1>14, <1>15, <1>16, <1>17,
             <1>18, <1>19 DEF Next

LEMMA OwnedPhotos == TypeOK /\ OwnInv => OwnPhotos
<1>. SUFFICES ASSUME TypeOK, OwnInv, Without("late"), NEW a \in Accounts, NEW p \in PhotosOf(a)
              PROVE  p.by = a
  BY DEF OwnPhotos
<1>1. Registered(a) /\ p \in ToSet(stored[a].photos)
  BY DEF PhotosOf, Registered
<1>2. By(stored[a].photos, a) /\ stored[a].photos \in Seq(Photos)
  BY <1>1, TypeFacts DEF OwnInv, Own
<1>3. PICK i \in DOMAIN stored[a].photos : p = stored[a].photos[i]
  BY <1>1, <1>2, PhotosOfFacts
<1>. QED  BY <1>2, <1>3 DEF By

\* PhotosAreOwn: whoever signs in after whom, an account's document holds only
\* photos uploaded for it, unless an upload ended after its page had gone
\* (getImage, widget_profile_photo.dart:289-304).
THEOREM PhotosAreOwn == Spec => []OwnPhotos
<1> DEFINE I == StateInv /\ OwnInv
<1>1. Init => I
  BY TypeInit, ScreenInit, CoverInit, FitInit, OwnInit DEF StateInv
<1>2. I /\ [Next]_vars => I'
  BY TypeStep, ListsStep, PageStep, CoverStep, FitStep, OwnStep DEF StateInv, ScreenInv
<1>3. I => OwnPhotos
  BY OwnedPhotos DEF StateInv
<1> HIDE DEF I
<1>. QED  BY <1>1, <1>2, <1>3, PTL DEF Spec

-----------------------------------------------------------------------------
(* KeepsOnePhoto *)

\* KeepsOnePhoto is not inductive: the wizard's button, once enabled, must
\* still have a photo to store when it is pressed.
One ==
    /\ \A a \in Accounts : Registered(a) => stored[a].photos # << >>
    /\ submit => Mine(user) # << >>

OneInv == mishaps \cap {"tap", "drop", "late"} = {} => One

LEMMA OneInit == Init => OneInv
<1>. SUFFICES ASSUME Init  PROVE One
  BY DEF OneInv
<1>1. ASSUME NEW a \in Accounts, Registered(a)
      PROVE  stored[a].photos # << >>
  <2>1. stored[a].photos = <<First(a)>>
    BY <1>1 DEF Init, Registered
  <2>. QED  BY <2>1
<1>. QED  BY <1>1 DEF One, Init

LEMMA OneStep ==
    ASSUME TypeOK, ScreenInv, CoverInv, OneInv, [Next]_vars
    PROVE  OneInv'
<1>. SUFFICES ASSUME (mishaps \cap {"tap", "drop", "late"} = {})'  PROVE One'
  BY DEF OneInv
<1>1. /\ {"tap", "drop", "late"} \cap mishaps' = {}
      /\ \A a \in Accounts : Registered(a) => stored[a].photos # << >>
      /\ submit => Mine(user) # << >>
      /\ page # "none" => user # NoUser
      /\ page = "none" => ~submit
  BY MishapsStay DEF OneInv, One, ScreenInv, PageInv
<1>2. Tapped => Idle
  BY <1>1 DEF Tapped
<1>3. ASSUME stored' = stored
      PROVE  \A a \in Accounts : Registered(a)' => stored'[a].photos # << >>
  BY <1>1, <1>3 DEF Registered
<1>4. ASSUME UNCHANGED <<stored, user, lists>>, submit' => submit \/ Mine(user) # << >>
      PROVE  One'
  <2>1. Mine(user)' = Mine(user)
    BY <1>4 DEF Mine
  <2>. QED  BY <1>1, <1>3, <1>4, <2>1 DEF One
<1>5. ASSUME NEW l, NEW s, Edited(l, s), s # << >>
      PROVE  One'
  <2>1. ASSUME NEW a \in Accounts, Registered(a)'
        PROVE  stored'[a].photos # << >>
    <3>1. CASE a = user.uid /\ page = "profile"
      BY <1>5, <3>1 DEF Edited
    <3>2. CASE a # user.uid \/ page # "profile"
      <4>1. Registered(a) /\ stored'[a] = stored[a]
        BY <1>5, <2>1, <3>2 DEF Edited
      <4>. QED  BY <1>1, <4>1
    <3>. QED  BY <3>1, <3>2
  <2>. QED  BY <1>5, <2>1 DEF Edited, One
<1>6. ASSUME NEW a \in Accounts, Login(a)
      PROVE  One'
  <2>1. stored' = stored /\ submit' = submit
    BY <1>6 DEF Login, screen
  <2>2. ~submit
    BY <1>6, LoginFacts
  <2>. QED  BY <1>3, <2>1, <2>2 DEF One
<1>7. CASE OpenSelectPhoto
  <2>1. stored' = stored
    BY <1>7 DEF OpenSelectPhoto
  <2>2. Mine(user)' = Mine(user) /\ (submit' => Mine(user) # << >>)
    BY <1>7, SelectFacts
  <2>. QED  BY <1>3, <2>1, <2>2 DEF One
<1>8. CASE OpenProfile
  <2>1. stored' = stored
    BY <1>8 DEF OpenProfile
  <2>. QED  BY <1>3, <1>8, <2>1, ProfileFacts DEF One
<1>9. CASE Back \/ LogOut \/ Submitted
  <2>1. stored' = stored /\ ~submit'
    BY <1>9 DEF Back, LogOut, Submitted, Closed
  <2>. QED  BY <1>3, <2>1 DEF One
<1>10. ASSUME NEW i \in 1 .. Slots, RemovePhoto(i)
       PROVE  One'
  <2>1. submit' = submit
    BY <1>10 DEF RemovePhoto, screen
  <2>2. CASE i <= Len(Present)
    <3> DEFINE s == RemoveAt(Present, i)
    <3>1. Len(s) = Len(Present) - 1 /\ s \in Seq(Photos) /\ Edited(shown, s)
      BY <1>10, <2>2, RemoveEdits
    <3>2. built = Len(Present) /\ built > 1 /\ Len(Present) \in Nat
      BY <1>2, <1>10, TypeFacts DEF RemovePhoto, Idle, Removable
    <3> HIDE DEF s
    <3>3. Len(s) # 0
      BY <3>1, <3>2
    <3>4. s # << >>
      BY <3>3
    <3>. QED  BY <1>5, <3>1, <3>4
  <2>3. CASE ~(i <= Len(Present))
    <3>1. UNCHANGED <<stored, user, lists>>
      BY <1>10, <2>3 DEF RemovePhoto
    <3>. QED  BY <1>4, <2>1, <3>1
  <2>. QED  BY <2>2, <2>3
<1>11. CASE Drop
  <2>1. submit' = submit /\ drag # NoDrag
    BY <1>11 DEF Drop
  <2>2. CASE UNCHANGED <<stored, user, lists>>
    BY <1>4, <2>1, <2>2
  <2>3. CASE /\ drag.from <= Len(Present) /\ drag.to - 1 <= Len(RemoveAt(Present, drag.from))
             /\ lists' = [lists EXCEPT ![shown] = Dropped]
             /\ SetPhotos(shown)
    BY <1>5, <2>1, <2>3, DropEdits
  <2>4. "drop" \notin mishaps'
    BY <1>1
  <2>. QED  BY <1>11, <2>2, <2>3, <2>4 DEF Drop, Dropped
<1>12. ASSUME NEW up \in uploads, UploadDone(up)
       PROVE  One'
  <2>1. user # NoUser
    BY <1>12 DEF UploadDone, ScreenInv, PageInv
  <2> DEFINE t == lists[up.list]
  <2>2. t \in Seq(Photos) /\ up.photo \in Photos /\ Edited(up.list, Append(t, up.photo))
    BY <1>12, <2>1, AddEdits DEF UploadDone
  <2> HIDE DEF t
  <2>3. Append(t, up.photo) # << >>
    BY <2>2, AppendFacts
  <2>. QED  BY <1>5, <2>2, <2>3
<1>13. ASSUME NEW up \in uploads, LateUploadDone(up)
       PROVE  FALSE
  <2>1. "late" \notin mishaps'
    BY <1>1
  <2>. QED  BY <1>13, <2>1 DEF LateUploadDone
<1>14. ASSUME NEW up \in uploads, UploadFails(up)
       PROVE  One'
  BY <1>4, <1>14 DEF UploadFails, screen
<1>15. CASE OnSubmit
  <2>1. submit /\ UNCHANGED <<user, lists, submit>> /\ page = "select"
    BY <1>15 DEF OnSubmit
  <2>2. user.uid \in Accounts /\ stored \in [Accounts -> Docs \cup {NoDoc}]
    BY <1>1, <2>1, TypeFacts DEF TypeOK
  <2>3. /\ stored'[user.uid].photos = Mine(user)
        /\ \A b \in Accounts : b # user.uid => stored'[b] = stored[b]
    BY <1>15, <2>2 DEF OnSubmit
  <2>4. Mine(user)' = Mine(user)
    BY <2>1 DEF Mine
  <2>5. ASSUME NEW a \in Accounts, Registered(a)'
        PROVE  stored'[a].photos # << >>
    <3>1. CASE a = user.uid
      BY <1>1, <2>1, <2>3, <3>1
    <3>2. CASE a # user.uid
      BY <1>1, <2>3, <2>5, <3>2 DEF Registered
    <3>. QED  BY <3>1, <3>2
  <2>. QED  BY <1>1, <2>1, <2>4, <2>5 DEF One
<1>16. CASE Frame \/ OnSelectPhoto \/ DismissSheet
  BY <1>4, <1>16 DEF Frame, OnSelectPhoto, DismissSheet
<1>17. CASE GetImage
  <2>1. UNCHANGED <<stored, user, lists>> /\ (submit' => Mine(user) # << >>)
    BY <1>17 DEF GetImage
  <2>. QED  BY <1>4, <2>1
<1>18. ASSUME NEW i \in 1 .. Slots, NEW j \in 1 .. Slots, Hover(i, j)
       PROVE  One'
  BY <1>4, <1>18 DEF Hover
<1>19. CASE UNCHANGED vars
  BY <1>4, <1>19 DEF vars, screen
<1>. QED  BY <1>6, <1>7, <1>8, <1>9, <1>10, <1>11, <1>12, <1>13, <1>14, <1>15, <1>16, <1>17,
             <1>18, <1>19 DEF Next

LEMMA OneKept == TypeOK /\ OneInv => KeepsOnePhoto
<1>. SUFFICES ASSUME TypeOK, OneInv, mishaps \cap {"tap", "drop", "late"} = {},
                     NEW a \in Accounts, Registered(a)
              PROVE  PhotosOf(a) # {}
  BY DEF KeepsOnePhoto
<1>1. stored[a].photos # << >> /\ stored[a].photos \in Seq(Photos)
  BY TypeFacts DEF OneInv, One
<1>. QED  BY <1>1, PhotosOfFacts DEF PhotosOf, Registered

\* OnePhotoIsKept: a stored profile has a photo, whichever of the wizard and
\* PageProfile stored it, unless one of three mishaps has happened (the minus
\* button, widget_profile_photo.dart:162-177; page_select_photo.dart:148-157).
THEOREM OnePhotoIsKept == Spec => []KeepsOnePhoto
<1> DEFINE I == StateInv /\ OneInv
<1>1. Init => I
  BY TypeInit, ScreenInit, CoverInit, FitInit, OneInit DEF StateInv
<1>2. I /\ [Next]_vars => I'
  BY TypeStep, ListsStep, PageStep, CoverStep, FitStep, OneStep DEF StateInv, ScreenInv
<1>3. I => KeepsOnePhoto
  BY OneKept DEF StateInv
<1> HIDE DEF I
<1>. QED  BY <1>1, <1>2, <1>3, PTL DEF Spec

-----------------------------------------------------------------------------
(* SixSlots *)

\* SixSlots is not inductive: a sheet and the upload that follows keep the slot
\* that was free, because the page is then busy for anything else, so that one
\* upload at a time is under way and none while the wizard submits.
Alone ==
    /\ sheets <= 1
    /\ sheets = 1 => ~loading
    /\ \A up, vp \in uploads : up = vp
    /\ \A up \in uploads : up.live => loading
    /\ Submitting => loading /\ \A up \in uploads : ~up.live

Waiting == sheets = 1 \/ \E up \in uploads : up.live

Fits ==
    /\ \A a \in Accounts : Registered(a) => Len(stored[a].photos) <= Slots
    /\ user # NoUser => Len(Mine(user)) <= Slots
    /\ Len(Present) <= Slots
    /\ Waiting => Len(Present) < Slots

Quietly == mishaps \cap {"overlap", "tap", "late"} = {}

BusyInv == Quietly => Alone /\ Fits

LEMMA BusyInit == Init => BusyInv
<1>. SUFFICES ASSUME Init  PROVE Alone /\ Fits
  BY DEF BusyInv
<1>1. /\ user = NoUser /\ uploads = {} /\ sheets = 0 /\ page = "none" /\ shown = 0
      /\ loading = FALSE /\ Slots \in Nat /\ Slots >= 1
  BY BoundsAssumption DEF Init
<1>2. Len(<< >>) = 0
  OBVIOUS
<1>3. ASSUME NEW a \in Accounts, Registered(a)
      PROVE  Len(stored[a].photos) <= Slots
  <2>1. stored[a].photos = <<First(a)>>
    BY <1>3 DEF Init, Registered
  <2>2. Len(<<First(a)>>) = 1
    OBVIOUS
  <2>. QED  BY <1>1, <2>1, <2>2
<1>4. Alone
  BY <1>1 DEF Alone, Submitting
<1>5. Fits
  BY <1>1, <1>2, <1>3 DEF Fits, Waiting, Present
<1>. QED  BY <1>4, <1>5

\* A quiet step starts no upload beside another, and finds the page idle where
\* the user touches it.
LEMMA QuietFacts ==
    ASSUME Quietly', [Next]_vars
    PROVE  /\ Quietly
           /\ "overlap" \notin mishaps' /\ "late" \notin mishaps'
           /\ Tapped => Idle
<1>1. mishaps \subseteq mishaps' /\ mishaps' \cap {"overlap", "tap", "late"} = {}
  BY MishapsStay DEF Quietly
<1>2. Quietly /\ "overlap" \notin mishaps' /\ "late" \notin mishaps' /\ "tap" \notin mishaps'
  BY <1>1 DEF Quietly
<1>. QED  BY <1>2 DEF Tapped

LEMMA AloneStep ==
    ASSUME TypeOK, ScreenInv, CoverInv, BusyInv, [Next]_vars, Quietly'
    PROVE  Alone'
<1>1. /\ sheets \in Nat /\ sheets <= 1
      /\ sheets = 1 => ~loading
      /\ \A up, vp \in uploads : up = vp
      /\ \A up \in uploads : up.live => loading
      /\ Submitting => loading /\ \A up \in uploads : ~up.live
      /\ page = "none" => sheets = 0
      /\ page # "none" => user # NoUser
      /\ \A up \in uploads : up.live => page # "none"
  BY QuietFacts DEF BusyInv, Alone, TypeOK, ScreenInv, PageInv
<1>2. "overlap" \notin mishaps' /\ "late" \notin mishaps' /\ (Tapped => Idle)
  BY QuietFacts
<1>3. ASSUME UNCHANGED <<page, loading, sheets>>, uploads' \subseteq uploads,
             page = "select" => /\ user'.uid = user.uid
                                /\ stored'[user.uid] # NoDoc => stored[user.uid] # NoDoc
      PROVE  Alone'
  <2>1. Submitting' => Submitting
    BY <1>3 DEF Submitting, Registered
  <2>. QED  BY <1>1, <1>3, <2>1 DEF Alone
<1>4. ASSUME NEW l, NEW s, Edited(l, s), user # NoUser, page' = page
      PROVE  Submitting' => Submitting
  <2>1. user.uid \in Accounts
    BY <1>4, TypeFacts
  <2>2. user'.uid = user.uid /\ (stored'[user.uid] # NoDoc <=> stored[user.uid] # NoDoc)
    BY <1>4, <2>1 DEF Edited, Registered
  <2>. QED  BY <1>4, <2>2 DEF Submitting, Registered
<1>5. ASSUME UNCHANGED <<page, loading, sheets>>, uploads' \subseteq uploads, Submitting' => Submitting
      PROVE  Alone'
  BY <1>1, <1>5 DEF Alone
<1>6. ASSUME NEW a \in Accounts, Login(a)
      PROVE  Alone'
  <2>1. page = "none"
    BY <1>6, LoginFacts
  <2>. QED  BY <1>3, <1>6, <2>1 DEF Login, screen
<1>7. CASE OpenSelectPhoto \/ OpenProfile
  <2>1. /\ page = "none" /\ sheets' = 0 /\ uploads' = uploads /\ UNCHANGED <<stored, user>>
        /\ page' = "select" => ~Registered(user.uid)
    BY <1>7 DEF OpenSelectPhoto, OpenProfile, Show
  <2>2. ~Submitting'
    BY <2>1 DEF Submitting, Registered
  <2>. QED  BY <1>1, <2>1, <2>2 DEF Alone
<1>8. CASE Back \/ LogOut \/ Submitted
  <2>1. Closed
    BY <1>8 DEF Back, LogOut, Submitted
  <2>2. page' = "none" /\ sheets' = 0
    BY <2>1 DEF Closed
  <2>3. \A up \in uploads' : ~up.live
    BY <2>1, ClosedFacts
  <2>4. \A up, vp \in uploads' : up = vp
    BY <1>1, <2>1 DEF Closed
  <2>. QED  BY <2>2, <2>3, <2>4 DEF Alone, Submitting
<1>9. ASSUME NEW i \in 1 .. Slots, RemovePhoto(i)
      PROVE  Alone'
  <2>1. UNCHANGED <<page, loading, sheets, uploads>>
    BY <1>9 DEF RemovePhoto, screen
  <2>2. CASE i <= Len(Present)
    BY <1>4, <1>5, <1>9, <2>1, <2>2, RemoveEdits
  <2>3. CASE ~(i <= Len(Present))
    BY <1>3, <1>9, <2>1, <2>3 DEF RemovePhoto
  <2>. QED  BY <2>2, <2>3
<1>10. CASE Drop
  <2>1. UNCHANGED <<page, loading, sheets, uploads>> /\ drag # NoDrag
    BY <1>10 DEF Drop
  <2>2. CASE UNCHANGED <<stored, user>>
    BY <1>3, <2>1, <2>2
  <2>3. CASE /\ drag.from <= Len(Present) /\ drag.to - 1 <= Len(RemoveAt(Present, drag.from))
             /\ lists' = [lists EXCEPT ![shown] = Dropped]
             /\ SetPhotos(shown)
    BY <1>4, <1>5, <2>1, <2>3, DropEdits, DropTakes
  <2>. QED  BY <1>10, <2>2, <2>3 DEF Drop, Dropped
<1>11. CASE OnSelectPhoto
  <2>1. ~loading /\ sheets = 0
    BY <1>2, <1>11 DEF OnSelectPhoto, Idle
  <2>2. sheets' = 1 /\ UNCHANGED <<stored, user, page, loading, uploads>>
    BY <1>11, <2>1 DEF OnSelectPhoto
  <2>3. Submitting' => Submitting
    BY <2>2 DEF Submitting, Registered
  <2>. QED  BY <1>1, <2>1, <2>2, <2>3 DEF Alone
<1>12. CASE DismissSheet
  <2>1. sheets' = 0 /\ UNCHANGED <<stored, user, page, loading, uploads>>
    BY <1>1, <1>12 DEF DismissSheet
  <2>2. Submitting' => Submitting
    BY <2>1 DEF Submitting, Registered
  <2>. QED  BY <1>1, <2>1, <2>2 DEF Alone
<1>13. CASE GetImage
  <2>1. sheets = 1 /\ sheets' = 0 /\ UNCHANGED <<stored, user, page>>
    BY <1>1, <1>13 DEF GetImage
  <2>2. ~loading /\ (\A up \in uploads : ~up.live) /\ ~Submitting
    BY <1>1, <2>1
  <2>3. ~Submitting'
    BY <2>1, <2>2 DEF Submitting, Registered
  <2>4. CASE uploads' = uploads
    BY <1>1, <2>1, <2>2, <2>3, <2>4 DEF Alone
  <2>5. CASE uploads' # uploads
    <3>1. uploads = {} /\ loading'
      BY <1>2, <1>13, <2>5 DEF GetImage
    <3>2. \A up, vp \in uploads' : up = vp
      BY <1>13, <2>5, <3>1 DEF GetImage
    <3>. QED  BY <2>1, <2>3, <3>1, <3>2 DEF Alone
  <2>. QED  BY <2>4, <2>5
<1>14. ASSUME NEW up \in uploads, UploadDone(up)
       PROVE  Alone'
  <2>1. user # NoUser /\ loading /\ ~Submitting /\ sheets = 0
    <3>1. sheets = 0 \/ sheets = 1
      BY <1>1
    <3>. QED  BY <1>1, <1>14, <3>1 DEF UploadDone
  <2>2. uploads' = {} /\ page' = page /\ sheets' = sheets
    BY <1>1, <1>14 DEF UploadDone
  <2>3. ~Submitting'
    BY <1>4, <1>14, <2>1, <2>2, AddEdits DEF UploadDone
  <2>. QED  BY <2>1, <2>2, <2>3 DEF Alone
<1>15. ASSUME NEW up \in uploads, LateUploadDone(up)
       PROVE  FALSE
  BY <1>2, <1>15 DEF LateUploadDone
<1>16. ASSUME NEW up \in uploads, UploadFails(up)
       PROVE  Alone'
  BY <1>3, <1>16 DEF UploadFails, screen
<1>17. CASE OnSubmit
  <2>1. ~loading /\ sheets = 0
    BY <1>2, <1>17 DEF OnSubmit, Idle
  <2>2. loading' /\ UNCHANGED <<sheets, uploads>>
    BY <1>17 DEF OnSubmit
  <2>. QED  BY <1>1, <2>1, <2>2 DEF Alone
<1>18. CASE Frame
  BY <1>3, <1>18 DEF Frame
<1>19. ASSUME NEW i \in 1 .. Slots, NEW j \in 1 .. Slots, Hover(i, j)
       PROVE  Alone'
  BY <1>3, <1>19 DEF Hover
<1>20. CASE UNCHANGED vars
  BY <1>3, <1>20 DEF vars, screen
<1>. QED  BY <1>6, <1>7, <1>8, <1>9, <1>10, <1>11, <1>12, <1>13, <1>14, <1>15, <1>16, <1>17,
             <1>18, <1>19, <1>20 DEF Next

LEMMA FitsStep ==
    ASSUME TypeOK, ScreenInv, CoverInv, BusyInv, [Next]_vars, Quietly'
    PROVE  Fits'
<1>1. /\ sheets \in Nat /\ sheets <= 1 /\ Slots \in Nat /\ Slots >= 1
      /\ sheets = 1 => ~loading
      /\ \A up, vp \in uploads : up = vp
      /\ \A up \in uploads : up.live => loading
      /\ page # "none" => user # NoUser
      /\ page = "none" <=> shown = 0
      /\ page = "none" => sheets = 0
      /\ \A up \in uploads : up.live => page # "none" /\ up.list = shown
  BY QuietFacts, BoundsAssumption DEF BusyInv, Alone, TypeOK, ScreenInv, PageInv
<1>2. /\ \A a \in Accounts : Registered(a) => Len(stored[a].photos) <= Slots
      /\ user # NoUser => Len(Mine(user)) <= Slots
      /\ Len(Present) <= Slots
      /\ Waiting => Len(Present) < Slots
  BY QuietFacts DEF BusyInv, Fits
<1>3. "overlap" \notin mishaps' /\ "late" \notin mishaps' /\ (Tapped => Idle)
  BY QuietFacts
<1>4. Len(Present) \in Nat /\ Len(<< >>) = 0
  BY TypeFacts
<1>5. ASSUME stored' = stored
      PROVE  \A a \in Accounts : Registered(a)' => Len(stored'[a].photos) <= Slots
  BY <1>2, <1>5 DEF Registered
<1>6. ASSUME UNCHANGED <<stored, user, lists, shown>>, Waiting' => Len(Present) < Slots
      PROVE  Fits'
  <2>1. Mine(user)' = Mine(user) /\ Present' = Present
    BY <1>6 DEF Mine, Present
  <2>. QED  BY <1>2, <1>5, <1>6, <2>1 DEF Fits
<1>7. ASSUME NEW s, Edited(shown, s), shown' = shown, shown # 0, Len(s) <= Slots,
             Waiting' => Len(s) < Slots
      PROVE  Fits'
  <2>1. Mine(user)' = s /\ Present' = s
    BY <1>7 DEF Edited, Present
  <2>2. ASSUME NEW a \in Accounts, Registered(a)'
        PROVE  Len(stored'[a].photos) <= Slots
    <3>1. CASE a = user.uid /\ page = "profile"
      BY <1>7, <3>1 DEF Edited
    <3>2. CASE a # user.uid \/ page # "profile"
      <4>1. Registered(a) /\ stored'[a] = stored[a]
        BY <1>7, <2>2, <3>2 DEF Edited
      <4>. QED  BY <1>2, <4>1
    <3>. QED  BY <3>1, <3>2
  <2>. QED  BY <1>7, <2>1, <2>2 DEF Fits
<1>8. ASSUME NEW a \in Accounts, Login(a)
      PROVE  Fits'
  <2>1. UNCHANGED <<stored, shown, sheets, uploads>>
    BY <1>8 DEF Login, screen
  <2>2. page = "none" /\ shown = 0
    BY <1>8, LoginFacts
  <2>3. Len(Mine(user)') <= Slots
    <3>1. CASE Registered(a)
      BY <1>2, <1>8, <3>1, LoginFacts
    <3>2. CASE ~Registered(a)
      BY <1>1, <1>4, <1>8, <3>2, LoginFacts
    <3>. QED  BY <3>1, <3>2
  <2>4. Present' = << >> /\ ~Waiting'
    BY <1>1, <2>1, <2>2 DEF Present, Waiting
  <2>. QED  BY <1>1, <1>4, <1>5, <2>1, <2>3, <2>4 DEF Fits
<1>9. CASE OpenSelectPhoto
  <2>1. UNCHANGED <<stored, user, uploads>> /\ sheets' = 0
    BY <1>9 DEF OpenSelectPhoto, Show
  <2>2. page = "none" /\ Present' = << >> /\ Mine(user)' = Mine(user)
    BY <1>9, SelectFacts
  <2>3. ~Waiting'
    BY <1>1, <2>1, <2>2 DEF Waiting
  <2>. QED  BY <1>1, <1>2, <1>4, <1>5, <2>1, <2>2, <2>3 DEF Fits
<1>10. CASE OpenProfile
  <2>1. UNCHANGED <<stored, user, lists, uploads>> /\ sheets' = 0
    BY <1>10 DEF OpenProfile, Show
  <2>2. page = "none" /\ user # NoUser /\ Present' = Mine(user)
    BY <1>10, ProfileFacts
  <2>3. Mine(user)' = Mine(user) /\ ~Waiting'
    BY <1>1, <2>1, <2>2 DEF Mine, Waiting
  <2>. QED  BY <1>2, <1>5, <2>1, <2>2, <2>3 DEF Fits
<1>11. CASE Back \/ LogOut \/ Submitted
  <2>1. Closed /\ UNCHANGED <<stored, lists>> /\ user' \in {user, NoUser} /\ shown' = 0 /\ sheets' = 0
    BY <1>11 DEF Back, LogOut, Submitted, Closed
  <2>2. \A up \in uploads' : ~up.live
    BY <2>1, ClosedFacts
  <2>3. user' # NoUser => user' = user /\ Mine(user)' = Mine(user)
    BY <2>1 DEF Mine
  <2>4. Present' = << >> /\ ~Waiting'
    BY <2>1, <2>2 DEF Present, Waiting
  <2>. QED  BY <1>1, <1>2, <1>4, <1>5, <2>1, <2>3, <2>4 DEF Fits
<1>12. ASSUME NEW i \in 1 .. Slots, RemovePhoto(i)
       PROVE  Fits'
  <2>1. UNCHANGED <<shown, sheets, uploads>>
    BY <1>12 DEF RemovePhoto, screen
  <2>2. Waiting' = Waiting
    BY <2>1 DEF Waiting
  <2>3. CASE i <= Len(Present)
    <3> DEFINE s == RemoveAt(Present, i)
    <3>1. Len(s) = Len(Present) - 1 /\ page # "none" /\ Edited(shown, s)
      BY <1>12, <2>3, RemoveEdits
    <3> HIDE DEF s
    <3>2. Len(s) <= Slots /\ (Waiting' => Len(s) < Slots)
      BY <1>1, <1>2, <1>4, <2>2, <3>1
    <3>. QED  BY <1>1, <1>7, <2>1, <3>1, <3>2
  <2>4. CASE ~(i <= Len(Present))
    <3>1. UNCHANGED <<stored, user, lists>>
      BY <1>12, <2>4 DEF RemovePhoto
    <3>. QED  BY <1>2, <1>6, <2>1, <2>2, <3>1
  <2>. QED  BY <2>3, <2>4
<1>13. CASE Drop
  <2>1. UNCHANGED <<shown, sheets, uploads>> /\ drag # NoDrag
    BY <1>13 DEF Drop
  <2>2. Waiting' = Waiting
    BY <2>1 DEF Waiting
  <2>3. CASE drag.from > Len(Present) /\ UNCHANGED <<stored, user, lists, mishaps>>
    BY <1>2, <1>6, <2>1, <2>2, <2>3
  <2>4. CASE /\ drag.from <= Len(Present)
             /\ lists' = [lists EXCEPT ![shown] = RemoveAt(Present, drag.from)]
             /\ UNCHANGED <<stored, user>>
    <3> DEFINE s == RemoveAt(Present, drag.from)
    <3>1. /\ shown \in 1 .. Len(lists) /\ s \in Seq(Photos) /\ page # "none" /\ user # NoUser
          /\ Len(s) = Len(Present) - 1
      BY <2>1, <2>4, DropTakes
    <3>2. lists' = [lists EXCEPT ![shown] = s] /\ lists \in Seq(Seq(Photos))
      BY <2>4, TypeFacts
    <3> HIDE DEF s
    <3>3. /\ Len(lists') = Len(lists) /\ lists'[shown] = s
          /\ \A k \in 1 .. Len(lists) : k # shown => lists'[k] = lists[k]
      BY <3>1, <3>2, ListFacts
    <3>4. Present' = s
      BY <1>1, <2>1, <3>1, <3>3 DEF Present
    <3>5. Mine(user)' = s \/ Mine(user)' = Mine(user)
      <4>1. user.list \in 0 .. Len(lists)
        <5>1. user.list \in Nat /\ user.list <= Len(lists) /\ Len(lists) \in Nat
          BY <3>1, TypeFacts DEF ScreenInv, ListsInv
        <5>. QED  BY <5>1
      <4>2. CASE user.list = shown
        BY <1>1, <2>4, <3>1, <3>3, <4>2 DEF Mine
      <4>3. CASE user.list # shown
        BY <2>4, <3>3, <4>1, <4>3 DEF Mine
      <4>. QED  BY <4>2, <4>3
    <3>6. Len(s) <= Slots /\ (Waiting' => Len(s) < Slots)
      BY <1>1, <1>2, <1>4, <2>2, <3>1
    <3>7. Len(Mine(user)') <= Slots
      BY <1>2, <3>1, <3>5, <3>6
    <3>. QED  BY <1>5, <2>4, <3>4, <3>6, <3>7 DEF Fits
  <2>5. CASE /\ drag.from <= Len(Present) /\ drag.to - 1 <= Len(RemoveAt(Present, drag.from))
             /\ lists' = [lists EXCEPT ![shown] = Dropped]
             /\ SetPhotos(shown)
    <3>1. Len(Dropped) = Len(Present) /\ page # "none" /\ Edited(shown, Dropped)
      BY <2>1, <2>5, DropEdits, DropTakes
    <3>2. Len(Dropped) <= Slots /\ (Waiting' => Len(Dropped) < Slots)
      BY <1>2, <2>2, <3>1
    <3>. QED  BY <1>1, <1>7, <2>1, <3>1, <3>2
  <2>. QED  BY <1>13, <2>3, <2>4, <2>5 DEF Drop, Dropped
<1>14. CASE OnSelectPhoto
  <2>1. built = Len(Present) /\ built < Slots
    BY <1>3, <1>14 DEF OnSelectPhoto, Idle, FreeSlot
  <2>2. UNCHANGED <<stored, user, lists, shown>>
    BY <1>14 DEF OnSelectPhoto
  <2>. QED  BY <1>6, <2>1, <2>2
<1>15. CASE DismissSheet \/ GetImage
  <2>1. sheets = 1 /\ UNCHANGED <<stored, user, lists, shown>>
    BY <1>1, <1>15 DEF DismissSheet, GetImage
  <2>2. Len(Present) < Slots
    BY <1>2, <2>1 DEF Waiting
  <2>. QED  BY <1>6, <2>1, <2>2
<1>16. ASSUME NEW up \in uploads, UploadDone(up)
       PROVE  Fits'
  <2>1. /\ page # "none" /\ user # NoUser /\ up.list = shown /\ shown # 0
        /\ loading /\ Waiting
    BY <1>1, <1>16 DEF UploadDone, Waiting
  <2>2. uploads' = {} /\ sheets' = sheets /\ shown' = shown
    BY <1>1, <1>16 DEF UploadDone
  <2>3. ~Waiting'
    <3>1. sheets # 1
      BY <1>1, <2>1
    <3>. QED  BY <2>2, <3>1 DEF Waiting
  <2> DEFINE t == lists[up.list]
             s == Append(t, up.photo)
  <2>4. t \in Seq(Photos) /\ up.photo \in Photos /\ Edited(shown, s)
    BY <1>16, <2>1, AddEdits DEF UploadDone
  <2>5. t = Present
    BY <2>1 DEF Present
  <2> HIDE DEF t
  <2>6. Len(s) = Len(Present) + 1
    BY <2>4, <2>5, AppendFacts
  <2>7. Len(s) <= Slots
    BY <1>1, <1>2, <1>4, <2>1, <2>6
  <2> HIDE DEF s
  <2>. QED  BY <1>7, <2>1, <2>2, <2>3, <2>4, <2>7
<1>17. ASSUME NEW up \in uploads, LateUploadDone(up)
       PROVE  FALSE
  BY <1>3, <1>17 DEF LateUploadDone
<1>18. ASSUME NEW up \in uploads, UploadFails(up)
       PROVE  Fits'
  <2>1. UNCHANGED <<stored, user, lists, shown, sheets>> /\ uploads' \subseteq uploads
    BY <1>18 DEF UploadFails, screen
  <2>2. Waiting' => Waiting
    BY <2>1 DEF Waiting
  <2>. QED  BY <1>2, <1>6, <2>1, <2>2
<1>19. CASE OnSubmit
  <2>1. user # NoUser /\ UNCHANGED <<user, lists, shown, sheets, uploads>>
    BY <1>1, <1>19 DEF OnSubmit
  <2>2. user.uid \in Accounts /\ stored \in [Accounts -> Docs \cup {NoDoc}]
    BY <2>1, TypeFacts DEF TypeOK
  <2>3. /\ stored'[user.uid].photos = Mine(user)
        /\ \A b \in Accounts : b # user.uid => stored'[b] = stored[b]
    BY <1>19, <2>2 DEF OnSubmit
  <2>4. Mine(user)' = Mine(user) /\ Present' = Present /\ Waiting' = Waiting
    BY <2>1 DEF Mine, Present, Waiting
  <2>5. ASSUME NEW a \in Accounts, Registered(a)'
        PROVE  Len(stored'[a].photos) <= Slots
    <3>1. CASE a = user.uid
      BY <1>2, <2>1, <2>3, <3>1
    <3>2. CASE a # user.uid
      BY <1>2, <2>3, <2>5, <3>2 DEF Registered
    <3>. QED  BY <3>1, <3>2
  <2>. QED  BY <1>2, <2>1, <2>4, <2>5 DEF Fits
<1>20. ASSUME UNCHANGED <<stored, user, lists, shown, sheets, uploads>>
       PROVE  Fits'
  <2>1. Waiting' = Waiting
    BY <1>20 DEF Waiting
  <2>. QED  BY <1>2, <1>6, <1>20, <2>1
<1>21. CASE Frame
  BY <1>20, <1>21 DEF Frame
<1>22. ASSUME NEW i \in 1 .. Slots, NEW j \in 1 .. Slots, Hover(i, j)
       PROVE  Fits'
  BY <1>20, <1>22 DEF Hover
<1>23. CASE UNCHANGED vars
  BY <1>20, <1>23 DEF vars, screen
<1>. QED  BY <1>8, <1>9, <1>10, <1>11, <1>12, <1>13, <1>14, <1>15, <1>16, <1>17, <1>18, <1>19,
             <1>21, <1>22, <1>23 DEF Next

LEMMA BusyStep ==
    ASSUME TypeOK, ScreenInv, CoverInv, BusyInv, [Next]_vars
    PROVE  BusyInv'
BY AloneStep, FitsStep DEF BusyInv

\* NoMoreThanSix: a document has no more photos than the page has places, for
\* any number of places and of uploads, as long as uploads do not overlap, end
\* late, or follow a touch on a page that was busy (the empty slots of
\* widget_profile_photo.dart:81-105).
THEOREM NoMoreThanSix == Spec => []SixSlots
<1> DEFINE I == StateInv /\ BusyInv
<1>1. Init => I
  BY TypeInit, ScreenInit, CoverInit, FitInit, BusyInit DEF StateInv
<1>2. I /\ [Next]_vars => I'
  BY TypeStep, ListsStep, PageStep, CoverStep, FitStep, BusyStep DEF StateInv, ScreenInv
<1>3. I => SixSlots
  BY DEF SixSlots, BusyInv, Fits, Quietly
<1> HIDE DEF I
<1>. QED  BY <1>1, <1>2, <1>3, PTL DEF Spec

-----------------------------------------------------------------------------
(* EditsAreStored *)

\* EditsAreStored is not inductive: whichever page is open, the model of a
\* registered account that has a list holds what the document holds, and
\* PageProfile shows that list; no edit ends while the wizard submits.
Same ==
    /\ user # NoUser /\ Registered(user.uid) /\ user.list # 0 =>
          stored[user.uid].photos = Mine(user)
    /\ page = "profile" => shown = user.list

SameInv == mishaps = {} => Same

LEMMA SameInit == Init => SameInv
BY DEF Init, SameInv, Same

LEMMA SameStep ==
    ASSUME TypeOK, ScreenInv, CoverInv, BusyInv, SameInv, [Next]_vars
    PROVE  SameInv'
<1>. SUFFICES ASSUME (mishaps = {})'  PROVE Same'
  BY DEF SameInv
<1>1. mishaps = {} /\ Quietly /\ (Tapped => Idle) /\ "late" \notin mishaps' /\ "drop" \notin mishaps'
  <2>1. Quietly'
    BY DEF Quietly
  <2>. QED  BY <2>1, MishapsStay, QuietFacts
<1>2. /\ user # NoUser /\ Registered(user.uid) /\ user.list # 0 =>
            stored[user.uid].photos = Mine(user)
      /\ page = "profile" => shown = user.list
  BY <1>1 DEF SameInv, Same
<1>3. /\ Submitting => loading /\ \A up \in uploads : ~up.live
      /\ page = "none" <=> shown = 0
      /\ page # "none" => user # NoUser
      /\ \A up \in uploads : up.live => page # "none" /\ up.list = shown
      /\ page \in {"none", "select", "profile"}
  BY <1>1 DEF BusyInv, Alone, ScreenInv, PageInv, TypeOK
<1>4. ASSUME UNCHANGED <<stored, user, lists>>,
             page' = "profile" => shown' = user.list
      PROVE  Same'
  <2>1. Mine(user)' = Mine(user)
    BY <1>4 DEF Mine
  <2>. QED  BY <1>2, <1>4, <2>1 DEF Same, Registered
<1>5. ASSUME UNCHANGED <<stored, user, lists, page, shown>>
      PROVE  Same'
  BY <1>2, <1>4, <1>5
<1>6. ASSUME NEW s, Edited(shown, s), UNCHANGED <<page, shown>>, page # "none", ~Submitting
      PROVE  Same'
  <2>1. user # NoUser /\ user'.uid = user.uid /\ user'.list = shown /\ Mine(user)' = s
    BY <1>3, <1>6 DEF Edited
  <2>2. user.uid \in Accounts
    BY <2>1, TypeFacts
  <2>3. stored'[user.uid] # NoDoc <=> stored[user.uid] # NoDoc
    BY <1>6, <2>2 DEF Edited, Registered
  <2>4. CASE page = "profile"
    <3>1. stored'[user.uid].photos = s
      BY <1>6, <2>4 DEF Edited
    <3>. QED  BY <1>6, <2>1, <3>1 DEF Same
  <2>5. CASE page = "select"
    <3>1. stored'[user.uid] = NoDoc
      BY <1>6, <2>3, <2>5 DEF Submitting, Registered
    <3>. QED  BY <1>6, <2>1, <2>5, <3>1 DEF Same, Registered
  <2>. QED  BY <1>3, <1>6, <2>4, <2>5
<1>7. ASSUME NEW a \in Accounts, Login(a)
      PROVE  Same'
  <2>1. UNCHANGED <<stored, page>>
    BY <1>7 DEF Login, screen
  <2>2. page = "none" /\ user'.uid = a /\ (Registered(a) => Mine(user)' = stored[a].photos)
    BY <1>7, LoginFacts
  <2>. QED  BY <2>1, <2>2 DEF Same, Registered
<1>8. CASE OpenSelectPhoto
  <2>1. UNCHANGED <<stored, user>>
    BY <1>8 DEF OpenSelectPhoto
  <2>2. ~Registered(user.uid) /\ page' = "select"
    BY <1>8, SelectFacts
  <2>. QED  BY <2>1, <2>2 DEF Same, Registered
<1>9. CASE OpenProfile
  BY <1>4, <1>9, ProfileFacts DEF OpenProfile
<1>10. CASE Back \/ Submitted
  BY <1>4, <1>10 DEF Back, Submitted, Closed
<1>11. CASE LogOut
  BY <1>11 DEF LogOut, Closed, Same
<1>12. ASSUME NEW i \in 1 .. Slots, RemovePhoto(i)
       PROVE  Same'
  <2>1. UNCHANGED <<page, shown>>
    BY <1>12 DEF RemovePhoto, screen
  <2>2. CASE i <= Len(Present)
    <3>1. ~Submitting
      BY <1>1, <1>3, <1>12 DEF RemovePhoto, Idle
    <3>. QED  BY <1>6, <1>12, <2>1, <2>2, <3>1, RemoveEdits
  <2>3. CASE ~(i <= Len(Present))
    BY <1>5, <1>12, <2>1, <2>3 DEF RemovePhoto
  <2>. QED  BY <2>2, <2>3
<1>13. CASE Drop
  <2>1. UNCHANGED <<page, shown>> /\ drag # NoDrag
    BY <1>13 DEF Drop
  <2>2. CASE drag.from > Len(Present) /\ UNCHANGED <<stored, user, lists, mishaps>>
    BY <1>5, <2>1, <2>2
  <2>3. CASE /\ drag.from <= Len(Present) /\ drag.to - 1 <= Len(RemoveAt(Present, drag.from))
             /\ lists' = [lists EXCEPT ![shown] = Dropped]
             /\ SetPhotos(shown) /\ Tapped
    <3>1. ~Submitting
      BY <1>1, <1>3, <2>3 DEF Idle
    <3>. QED  BY <1>6, <2>1, <2>3, <3>1, DropEdits, DropTakes
  <2>. QED  BY <1>1, <1>13, <2>2, <2>3 DEF Drop, Dropped
<1>14. ASSUME NEW up \in uploads, UploadDone(up)
       PROVE  Same'
  <2>1. /\ page # "none" /\ user # NoUser /\ up.list = shown /\ ~Submitting
    BY <1>3, <1>14 DEF UploadDone
  <2>2. UNCHANGED <<page, shown>>
    BY <1>14 DEF UploadDone
  <2>3. Edited(up.list, Append(lists[up.list], up.photo))
    BY <1>14, <2>1, AddEdits DEF UploadDone
  <2>. QED  BY <1>6, <2>1, <2>2, <2>3
<1>15. ASSUME NEW up \in uploads, LateUploadDone(up)
       PROVE  FALSE
  BY <1>1, <1>15 DEF LateUploadDone
<1>16. ASSUME NEW up \in uploads, UploadFails(up)
       PROVE  Same'
  BY <1>5, <1>16 DEF UploadFails, screen
<1>17. CASE OnSubmit
  <2>1. user # NoUser /\ page = "select" /\ UNCHANGED <<user, lists, page, shown>>
    BY <1>3, <1>17 DEF OnSubmit
  <2>2. user.uid \in Accounts /\ stored \in [Accounts -> Docs \cup {NoDoc}]
    BY <2>1, TypeFacts DEF TypeOK
  <2>3. stored'[user.uid].photos = Mine(user)
    BY <1>17, <2>2 DEF OnSubmit
  <2>4. Mine(user)' = Mine(user)
    BY <2>1 DEF Mine
  <2>. QED  BY <2>1, <2>3, <2>4 DEF Same
<1>18. CASE Frame \/ OnSelectPhoto \/ DismissSheet \/ GetImage
  BY <1>5, <1>18 DEF Frame, OnSelectPhoto, DismissSheet, GetImage
<1>19. ASSUME NEW i \in 1 .. Slots, NEW j \in 1 .. Slots, Hover(i, j)
       PROVE  Same'
  BY <1>5, <1>19 DEF Hover
<1>20. CASE UNCHANGED vars
  BY <1>5, <1>20 DEF vars, screen
<1>. QED  BY <1>7, <1>8, <1>9, <1>10, <1>11, <1>12, <1>13, <1>14, <1>15, <1>16, <1>17, <1>18,
             <1>19, <1>20 DEF Next

LEMMA SameStored == ScreenInv /\ CoverInv /\ SameInv => EditsAreStored
<1>. SUFFICES ASSUME ScreenInv, CoverInv, SameInv, mishaps = {}, page = "profile"
              PROVE  stored[user.uid].photos = Present
  BY DEF EditsAreStored
<1>1. user # NoUser /\ Registered(user.uid) /\ shown = user.list /\ shown # 0
  BY DEF ScreenInv, PageInv, CoverInv, SameInv, Same
<1>. QED  BY <1>1 DEF SameInv, Same, Mine, Present

\* ShownIsStored: what PageProfile shows is what the document holds, across
\* signing out and in, the wizard and its submission, as long as no mishap has
\* happened (onSave, page_profile.dart:560-565).
THEOREM ShownIsStored == Spec => []EditsAreStored
<1> DEFINE I == StateInv /\ BusyInv /\ SameInv
<1>1. Init => I
  BY TypeInit, ScreenInit, CoverInit, FitInit, BusyInit, SameInit DEF StateInv
<1>2. I /\ [Next]_vars => I'
  BY TypeStep, ListsStep, PageStep, CoverStep, FitStep, BusyStep, SameStep DEF StateInv, ScreenInv
<1>3. I => EditsAreStored
  BY SameStored DEF StateInv
<1> HIDE DEF I
<1>. QED  BY <1>1, <1>2, <1>3, PTL DEF Spec

=============================================================================
