# JanDating in TLA+

JanDating ("Jan") is a Flutter dating app (`src/lib`, Dart) that talks directly to Firebase
Auth, Cloud Firestore and Firebase Storage. There is no server code of its own
(`src/functions/index.js` is a stub), so every protocol between two users is a sequence of reads
and writes that two phones issue against shared documents, and every protocol on one phone is a
set of Dart handlers that await platform answers while pages come and go. This directory models
that logic: what the handlers read, write and await, in which order, and what may happen between
two of their steps.

Source paths below are relative to `src/lib`.

## 1. Inventory

### Likes and matches
*Code*: `services/firestore_database.dart` (`chooseUser`, `selectUser`, `deleteUser`, `passUser`,
`getUser`, `likedByPeopleStream`). `chooseUser` is called from `ui/liked_by/page_liked_by_people.dart`;
the swipe stack of `ui/home/page_main_search.dart`, which called `passUser` as well, is commented
out, and both are modelled as the protocol that the service offers.
*State*: three sub-collections of `users/u`: `checkedList` (u has decided), `selectedList` (who
likes u), `matchedList` (u's matches).
*Hard*: a decision is one to three separate writes; two of them are awaited by nobody; both
users may decide at the same time; reads may come from the offline cache; the app may be killed
between any two steps while its queued writes survive.
*Correct when*: a match has two consenting users, no acknowledged like is lost, a match that one
user sees reaches the other or there is a dead process to blame.

### Start-up, sign-in session and registration
*Code*: `jan_app.dart`, `providers/auth_provider.dart`, `ui/splash/page_landing.dart`,
`ui/auth/page_login_confirm.dart`, `ui/auth/register/*.dart`, log out in
`ui/profile/page_profile.dart`.
*State*: Firebase's signed-in user (kept on the phone), `AuthProvider.currentUser` and
`location`, the Navigator's stack, the document `users/u`.
*Hard*: sign-ins, `authStateChanges` events and profile reads answer after their page, or their
account, has gone; an interrupted registration leaves a signed-in account without a document.
*Correct when*: the model a page fills is that of the signed-in account, only complete profiles
are stored, Home is shown only for a stored profile, a signed-out account's model does not
come back.

### Phone number verification
*Code*: `ui/auth/page_login.dart`, `ui/auth/page_login_confirm.dart`, `verifyPhone` and
`verifyPhoneAgain` of `AuthProvider`.
*State*: `verificationId`, `phoneNumber`, the resend counter and its periodic timers.
*Hard*: four callbacks per request, some of them after the page or the number has changed; a
resend with callbacks of its own; timers that overlap.
*Correct when*: a code is checked with the id of the request it belongs to, and the resend button
comes back after its countdown and not before.

### Chat
*Code*: `ui/threads/page_chat.dart`.
*State*: the messages and the document `blocked` under `chats/<id>/messages`; on each page the
last `isBlocked`/`blockedBy` received, the dialog, the text field and the send button.
*Hard*: both users block and unblock on what their page shows; writes are queued; an upload ends
after the chat was blocked; acknowledgements of one message act on the next one, and a refusal is
dropped.
*Correct when*: pages converge to the server's document, a block stays until its author lifts it,
the page does what its texts say.

### Profile photos
*Code*: `shared-widgets/widget_profile_photo.dart`, on `ui/auth/register/page_select_photo.dart`
and `ui/profile/page_profile.dart`; `setPhotos` of `models/user_model.dart`.
*State*: a list object shared by the widget, its page and the model; `photoUrl`; what the last
frame drew; uploads.
*Hard*: taps act on what was drawn; uploads end after their page, or their account, has gone;
a dropped photo's slot may have gone; `setPhotos` saves only when a listening page is open.
*Correct when*: a stored profile has one to six photos, all of its own, and `photoUrl` is the
first of them.

### Profile editing and storage
*Code*: `ui/profile/page_profile.dart`, `shared-widgets/widget_profile_fields.dart`,
`ui/auth/register/page_select_height.dart`, `models/user_model.dart`, the distance slider of `ui/profile/page_filters.dart`.
*State*: the document `users/u`; on each device the `UserModel` it read once, and the queue of
Firestore's client. In a sheet and on the wizard's page of the height: the list of options, the
index chosen, the picker.
*Hard*: every save writes the whole document as this device last read it; two fields are written
under one key and read under another; some setters notify the saving listener and some do not;
the options are appended again at every build.
*Correct when*: an edit that was saved stays until it is edited again, a device shows what it has
stored, what is chosen from a list of options is one of them.

### Profile languages
*Code*: `ui/profile/page_profile_languages.dart`, `ui/auth/register/page_select_languages.dart`.
*State*: `currentUser.knownLanguages`, edited in place. *Hard*: a list of codes is searched for
the path of a document. *Correct when*: one to five languages, each once.

### Search filters
*Code*: `models/filters.dart`, `ui/profile/page_filters.dart`.
*State*: two preferences per range, in memory and on disk; the slider of the open page.
*Hard*: the two are written one after the other and nobody waits. *Correct when*: both ends that
are kept come from one save, the last.

### Liked-by dialogs
*Code*: `ui/liked_by/page_liked_by_people.dart`.
*State*: the grid of tiles, the Navigator's stack, the calls of `chooseUser` under way.
*Hard*: a handler pops "the top route" after an await, with the context of a tile that may have
gone. *Correct when*: an answer closes its own dialog, Home stays, a match is announced.

### Home and its connectivity dialogs
*Code*: `ui/home/home.dart`, `shared-widgets/widget_no_connection.dart`,
`shared-widgets/widget_geolocation.dart`.
*State*: two flags of Home; the timers, listeners and questions to the platform of two widgets
that exist while their flag is set. *Hard*: answers and events cross; listeners are never
cancelled; a timer is stopped for a retry that may fail. *Correct when*: a dialog that should go
is about to be looked at again.

### Chat identity
*Code*: `chatId` in `ui/threads/widget_matches.dart`. No state: two phones must compute one id.

### Not modelled
| Part | Why |
|---|---|
| Explorer and search (`ui/home/page_global_explorer.dart`, `page_main_search.dart`, `widget_user_card.dart`) | an index into a list that is read once, without calls to anything else; the list is assigned without `setState`, which a property could only restate |
| Chat list (`ui/threads/widget_recent_chats.dart`, `page_threads.dart`), drawer | they draw what other parts store |
| The sheets of lists (education, smoking, ...) | one choice each: `SetField` of `ProfileSync` |
| Language filter, filter by place | one preference saved at once; nothing saves the place |
| Deleting the profile | its button prints a word and closes the sheet |
| Theme, language, settings; lookup lists; sliders, tagging, tutorial, timer, store | layout, or data without operations |
| `services/firestore_service.dart` | wrappers; they appear as the reads and writes of the other modules |
| `auth_widget_builder.dart`, `authorization.dart`, `page_information.dart`, `splash_screen.dart` | unused |
| `ios/Pods`, `android`, generated and vendored code | not this program's |

### How the parts interact
`PhoneVerification` ends where a code is accepted; `Session` begins there. `Session` decides
whose `UserModel` the pages hold, and the calls of `MatchMaking` are made on its behalf. A match
in `matchedList` opens a `Chat`. The shared state between parts is `AuthProvider` (one phone) and
the Firestore documents (all phones); the modules keep it apart, and meet in these assumptions:
`Session` treats "the code is accepted" as a choice, `MatchMaking` lets any process act for any
user, `Chat` starts from two matched users, `ProfileSync` and the other parts of `Home` from a
registered user. `ProfileSync` takes from the sheets, the languages and the filters only that a
field was set; `LikedByDialog` takes from `MatchMaking` where `chooseUser` awaits.

## 2. Modules

| Module | What it is |
|---|---|
| `Matches` | abstract specification: choose, and show a match once both have chosen |
| `MatchMaking` | the list protocol; implements `Matches` |
| `MatchMakingProofs` | its theorems |
| `Session` | one phone from start-up to Home and back |
| `PhoneVerification` | request, callbacks, resend and countdown |
| `Chat` | two pages of one chat and the server |
| `ProfilePhotos` | the photos page of the wizard and of the profile, with uploads |
| `Home` | the parts below, of which one moves in a behaviour |
| `HeightSheet` | the choice of a height, on the wizard's page and in the sheet, and of a weight in its sheet |
| `KnownLanguages` | the switches of the languages page |
| `FilterPrefs` | a range of the filters page and its two preferences |
| `LikedByDialog` | the dialogs of the liked-by tab and the routes they pop |
| `HomeDialogs` | the dialogs for a lost network and an unknown place |
| `ProfileSync` | one profile document, saved whole from several devices |
| `ChatIdentity` | the chat id, with its theorems |
| `SessionProofs`, `PhoneVerificationProofs`, `ChatProofs`, `ProfilePhotosProofs`, `HomeProofs` | the theorems of these modules, `HomeProofs` those of all six parts |
| `SequenceLemmas` | what taking from, adding to and moving within a sequence does, and that a set of numbers below a bound has a largest one |
| `MCMatchMaking`, `MCSession`, `MCPhoneVerification`, `MCChat`, `MCProfilePhotos`, `MCHome` | instances for TLC: symmetry, the wizard's pages, a liveness specification |

Definitions named `... \* mutant of X` are plausible mistakes in X; no specification uses them.
Putting one in the place of X must make a property fail, which shows that the property looks at
the code.

### MatchMaking
A *call* is one app process working for one user on another. `call[c].pc` is where `chooseUser`
or `passUser` awaits; an action runs the handler to its next await. `queue[c]` holds the writes
that Firestore's client has accepted and not delivered; an awaited write is over when the queue
is empty (`Acked`); `Apply` delivers the oldest. `Kill` ends the process and keeps the queue, as
the client's disk cache does. `selectedList.get()` answers from the server or from `cache`, which
`Refresh` brings up to date. `SelectUser` issues the delete and the first `matchedList` set in
one step, because `selectUser` does not await the delete (326-338), and announces the match in the
same step, because `chooseUser` returns `true` without awaiting `selectUser` (157-159).
A process starts a call only when its last call's writes are delivered.
`chosen`, `liked`, `notified` and `torn` are history variables: no guard reads them.
Left out: the contents of the documents, the order in which `getUsers` lists users, and errors
thrown by Firestore (with a queueing client they are permission errors only).
`PassUser` and `GetUser` are the service's other protocol, which no page runs at present: they take
part in every interleaving, and what they promise (`PassMovesOn`) is proved but not run, since it
says nothing of two users, who leave nobody to offer after a pass.

### Session
Each handler that awaits is split at the await, and each split keeps what the code checks when it
goes on, which is nearly always nothing: `reads` are `getCurrentUser` calls with a flag whether
their page is still there, `incoming` are sign-ins whose page no longer waits for them. `stack`
is the Navigator's stack; `Forms` is the list of wizard pages. A profile is the set of fields
that have been set. `docs` is the database as this phone sees it, so a write is visible at once,
and `SaveDone` is its acknowledgement. A profile read answers with the document as of any moment between
request and answer (`seen` or the present one). Answers of the platform arrive in the order sent
(`Delivered`): method-channel results and `authStateChanges` events share the platform thread.
Two details that a reader may doubt: `setUser` right after sign-in stores nothing for a new
account, because `toMap` calls `photos.map` on null (`user_model.dart:134-166`); and
`getCurrentUser` throws for an account without document when `location` is null
(`auth_provider.dart:76`). `AuthProvider.status` is written and never read, so it is left out.
Here a profile's photos are one field; `ProfilePhotos` has them one by one. `stray` is history: accounts whose sign-in or read
ended after its page had gone. Left out: a profile read at start-up that fails for want of a network.

### PhoneVerification
`OnLogin` starts a request; `SmsOTPSent`, `VerificationFailed`, `VerifyPhoneThrows` and
`CodeAutoRetrievalTimeout` are what may come of it. An SMS is identified by its position in `sms`.
`verificationCompleted` signs in, which is in `Session`. A periodic timer is an element of
`timers`; in each `Second` each timer ticks once (`due`), in any order, interleaved with
everything else. `elapsed` and `overtaken` are history.

### Chat
`queue[u]` is the phone's queue as above. `news[u]` are the versions of `blocked` sent to u's
phone and not yet handed to the page. The page of u sees its own queued write if there is one,
otherwise the next of `news[u]`; when the server applies u's own write, older news of u are
dropped, since the listener only moves forward. A block dialog is modal, so nothing else of the
page is pressed while it is open, but its listeners run. `Reopen` leaves the page and enters it
again: fresh state, the listener's first snapshot, uploads that go on. A message's document is
its author and its `isRead`; `GenerateMessages` marks only the newest received message because
drawing a received message throws (`documentSnapshot.data['image_url']` on a method,
`page_chat.dart:243`) before the list gets to older ones. The server may refuse a message
(`RefuseAdd`), which is the one failed write that the page has code for: `catchError` drops the
error of a text (588-592), after the field was cleared, and leaves the button enabled. Its rules are
not in the repository, so that refused blocks and marks, which the page does not notice, are left
out. `wants`, `raced` and `heard` are history; `heard` is what the server has answered to a page's
texts since its field changed.

### ProfilePhotos
`lists` holds the list objects and a list is known by its position, because what matters is who
shares one: the model (`user.list`), the page's widget (`shown`) and an upload's closure. `built`
and `covered` are what the last frame drew: how many photos, and whether a loader or a sheet was
in the way. Every tap is guarded by them and acts on the present list, as the closures do;
`Frame` brings them up to date. Picking, cropping and the start of an upload are one step
(`GetImage`), since the picker covers the app. `LateUploadDone` has two outcomes, because
`setState` on a page that has gone throws before its callback in a debug build and after it in a
release build. `Saved` stands for the model's listener `onSave`: it writes only while a
PageProfile is open. `mishaps` is history: which of four accidents of timing have happened; each
property names those that break it, and holds otherwise.
Left out: the picker's permission errors (they only end the loader), a sheet row tapped twice,
and leaving PageSelectPhoto with the system's back button while it is being stored.

### Home and its parts
The six parts have no variable in common, and no property relates two of them. Interleaving them
would multiply their states and show nothing new, so `Home` has a variable `part`: in each
behaviour one part moves and the others stand. The parts are small modules of their own, each with
`Init`, `Next` and `Spec`, and `Home` brings them in with `INSTANCE`.

*HeightSheet.* A behaviour is about a height or about a weight (`field`). The height is first
chosen on the wizard's page, whose Continue gives it to the model, and later edited in the sheet,
whose picker does so when it closes; page and sheet share the defect that `builds` is about: each
build of the widget appends the options again, so that `_heightOptions` is `builds` times the list.
The page of photos lies over the wizard's, which is still built below it. The picker's list is that
of its own last build (`picker`), since a modal sheet is not rebuilt by the `setState` of the widget
below it, but is when it is dragged or the screen turns; turning the picker builds that widget once
more. The history variable `relisted` says that a picker has listed the options of two builds or
more. An app that ends in the wizard begins it again with a new model; once stored, the height stays.

*KnownLanguages.* The branch that removes a language is never taken
(`page_profile_languages.dart:147`), so `Toggled` has no such case.

*FilterPrefs.* `prefs` is SharedPreferences' copy in memory, which a set changes at once; `writes`
are the sets that the platform has not stored, and the one of `maxAge` is issued when that of
`minAge` is done. The preferences are loaded before `PageFilters` can open, because the provider of
the theme loads them at start-up (though it no longer reads the theme), so the page reads them before
the user can move a thumb. The sliders save with `toInt()` and show with `round()`; ages here are
whole.

*LikedByDialog.* A tile is known by its place on the grid, since that is how the framework keeps
it when the list changes; `tile = 0` is a tile that has gone, whose context cannot pop. `Match`
is one step because `chooseUser` does not await `selectUser`. A call is known by its user and tile;
`twice`, `left`, `shrunk` and `silent` are history.

*HomeDialogs.* `inbox` keeps the platform's answers and events in their order. That a listener is
added every five seconds is abstracted to `listening`, as ten of them ask the same question ten
times; `streaming` is the platform's side, which outlives a log out. `strays` are permission
checks whose widget has gone; they still call back. `missed` and `failedAgain` are history.

*ProfileSync.* A field is `Loud` (its setter notifies and `onSave` stores the model), `Unread`
(loud, but read back under another key) or quiet: the text `about`, and `maxDistance`, which is
set where no page listens. `PageProfile` opens and closes without a variable: it changes
nothing, and listeners of pages that have gone fail. What a device sees is its own newest queued
write or the server's document (`Stored`). `edited`, `wanted`, `fresh` and `conflict` are history:
`conflict` is a save by a device that had not read another's.

## 3. What the runs check

| Run | Instance | Result |
|---|---|---|
| `match_safety` | 2 users, 2 processes, symmetry | `TypeOK`, `Consent`, `LikeImpliesChecked`, `LikeKept`, `TileAnswersMatch`, `OneSidedExplained` hold, and `MatchesRefined`: `MatchMaking` implements `Matches` |
| `match_live` | 2 users with one phone each, `LikesFairSpec` | `MatchBecomesMutual` holds |
| `match_announced` | 1 process, `FairSpec` | `AnnouncedMatchIsSeen` fails: "This is a match!" and the app dies before the second set |
| `session_safety` | 2 accounts, 2 wizard pages and the photo page, 2 reads at a time, symmetry | `OwnProfile`, `HomeRegistered`, `CompleteProfiles`, `SignedOutForgotten` hold |
| `session_start_up` | 1 account, `FairSpec` | `CheckingEnds` fails: the app stays blank |
| `verification_safety` | 2 numbers, 3 SMS, 3 timers, a wait of 4, `FairSpec` | `IdOfLastRequest`, `CountdownRuns`, `CountdownSpeed`, `ResendComesBack` hold |
| `verification_newest_code` | 1 number, 2 SMS | `NewestCodeWorks` fails: the resent SMS's id is dropped |
| `chat_safety` | 2 messages, 2 answered dialogs, `FairSpec` | `ViewsAgree`, `BlockHolds`, `WritingExplained`, `NewestIsRead` hold |
| `chat_unblocked_by_other` | 1 message, 3 answered dialogs | `NobodyElseUnblocks` fails: an unblock under way lifts the other's block |
| `chat_dialog` | " | `DialogHonest` fails: Yes to "Block" unblocks |
| `photos_safety` | 2 accounts, 2 slots, 2 uploads, 3 list objects, symmetry | `OwnPhotos`, `CoverIsFirst`, `KeepsOnePhoto`, `SixSlots`, `EditsAreStored` hold, up to the mishaps each one names |
| `home_safety` | each part of `Home` alone: 2 options and 3 builds, 4 languages of which 3 fit, 3 ages and 2 writes, 2 likers, 2 calls and a page, 3 messages, 2 devices with 2 saves | `HeightOffered`, `LanguagesOnce`, `FiltersKept`, `HomeStays`, `MatchesAnnounced`, `DialogsExplained`, `SavedEditsKept`, `ModelIsStored` hold, up to the accidents each one names |

A run that is expected to fail checks one sentence of the app's own texts or comments against
what the code does; `PROJECT.json` quotes the sentence.

What the properties that hold say about known weak spots: `CountdownSpeed` admits two timers
on one counter, so "Try again in: 30" may take 15 seconds after a resend in the last second of a
countdown; `WritingExplained` admits that a second press of the send button sends a blank text, while
the first one's text is under way or after it was refused;
each part of `Home` has its accidents: a height over the last one offered is stored, by the wizard
or the sheet, and the sheet then throws when it opens (`relisted`), switching a language off adds it again
(`switchedOff`), half a range is shown and saved (`early`, `torn`), a late answer pops Home
(`twice`, `left`), a match goes unannounced (`shrunk`), a dialog stays (`missed`, `failedAgain`),
an edit is taken back by another device (`conflict`). `BlockHolds` and `OwnProfile` hold up to
`raced` and `stray`, which name the only ways to break them. Two more observations have no run: an image whose upload was under way is sent to a chat that
was blocked meanwhile (`UploadEnds`), and a failed profile read after an accepted code is
reported as an invalid code (`ReadFails`).

### Bounds
- *Two users, two processes*: every list entry is a pair of users and a call touches one pair, so
  two users give both directions of a pair; two processes give each race between both phones of
  one pair and between two processes of the same user. The proofs drop the bound.
- *Two wizard pages*: the pages between gender and photo are alike (set a field, push the next).
- *MaxReads*: pressing Continue twice while the profile is read starts two reads; a third adds no
  new relation between them.
- *Wait* (30 in the code): the countdown is compared with 0 only; 4 seconds leave room for a
  second and a third timer to overtake it. *MaxSms*, *MaxTimers* = 3: a first SMS, one of another number, one resent.
- *MaxYes*: 2 for a decision of each user or two of one, 3 for block, unblock and the other user's
  block in between. *MaxMsgs = 2*: a text acknowledged while another text or an image is under
  way.
- *Slots = 2* (6 in the code), *MaxPhotos = 2*: with the registered account's first photo an
  upload fills the page and an overlapping one overfills it; two photos are enough to move and to
  remove. *MaxLists = 3*: the models of two accounts and a new wizard page.
- `home_safety`: *Options = 2* (141 heights), *MaxBuilds = 3* list each height a second and a third
  time: a height of the third list is one that a sheet draws only after two more builds.
  *Ages* = 3: an old and a new range that share an end, or none. *MaxWrites = 2*: a second save
  between the two writes of a first. *Codes* = 4, *MaxLanguages = 3* (5): the list fills and a
  language is left over. *Likers, MaxCalls = 2*: the answer of one swipe on another's dialog, or
  the same one pressed twice; *MaxPages = 1* puts a page where a dialog was. *MaxPending = 3*: an
  answer and an event that contradict each other, and a question behind them. *Devices, MaxSaves,
  MaxQueue = 2*: one device saves over another, in either order of delivery.

### Fairness
- `MatchMaking.FairSpec`: the running code and Firestore go on (`Continue`), nobody has to call,
  to be killed or to refresh. It includes that a phone is online again at some time, without
  which no queued write says anything. `LikesFairSpec` of `MCMatchMaking` keeps only the calls of
  `chooseUser` with one phone per user: `passUser` adds to `checkedList` only, which `chooseUser`
  does not read.
- `Session.FairSpec`: Firebase and the event loop answer (`Answer`); the user does nothing.
- `PhoneVerification.FairSpec`: seconds pass, timers tick, a resend request is answered. The
  user's leaving the page is not needed and not fair.
- `Chat.Fairness`: pages rebuild on a snapshot and phones deliver their writes. Nobody has to
  open, answer or send anything.

`ProfilePhotos` and `Home` have no fairness: nobody has to do anything. What must be looked at
again at some time is in `DialogsExplained` as a safety property: a timer runs or a question is
under way. Deadlock is checked in every run but `photos_safety`, where the bound on list objects ends the behaviours.

## 4. What is proved

Every invariant and action property of every passing run is a theorem of its specification, for
every value of the constants that the module's named assumptions allow. A run's instance
satisfies them (TLC evaluates them), and each theorem drops its run's bounds: any users, accounts,
devices, processes, pages and lengths of queues. Each proof has one step per action.
Four kinds of assumption are made: bounds are numbers; the model values for "nothing" (`NoUser`,
`NoDoc`) are none of the things they stand beside; the lists of languages and of likers are finite,
being read from a database; and what the code fixes (the wizard begins with the gender, a field is
not both read back and not).

### `MatchMakingProofs`
From `NoUserAssumption` (the empty `UserModel` is no user) only.

- `TypeCorrect`. Sequences are the delicate part: `QueueIssue` and `QueueApply` say once what
  appending to and taking from a process's queue does to the set of queued writes, and every later
  proof cites them instead of indexing sequences.
- `ConsentHolds`. `Consent` is not inductive: a match is written long after
  the decisions. `ConsentInv` adds that every like in `selectedList`, in `cache` or queued, and
  every queued match and running call, rests on the decisions in `chosen`.
- `MatchMakingRefines`: `Spec => MatchesRefined`. With `ConsentInv` at hand each step of
  `MatchMaking` is `Choose`, `Show` or a stutter of `Matches`.
- `LikesAreKept`, `TilesAnswerMatch`, `OneSidedIsExplained`: from the joint invariant `KeptInv`,
  which says where the successor of a removed like or a one-sided match is at each moment:
  in a list, in a queue, in a running call, or in `torn`. `Stability` is the lemma that a list
  entry or a queued match is never lost; it makes the step proof one case per action.
- `LikesAreChecked`, `PassOffersAnother` (`PassMovesOn`): from `DecidedInv`, the order that the awaits give:
  a call that waits for its check has it queued or stored, one that has gone on has it stored, and
  a queued like has its check stored.

### `SessionProofs`
From `FormsAssumption` (the wizard begins with the gender and asks for nothing twice) and
`NoneAssumption`. All five theorems come from one invariant, `SessionInv`, because none of the
properties carries itself: which account a page belongs to depends on the pages below it, on the
events still queued and on the reads under way. Its parts: `Routes` (pages before
the sign-in lie below those after it), `Reading` (a read of a page that is still there is that of
the account that signed in), `Owner` (every page after the sign-in, not only the top one, has a
model, the signed-in account's unless `stray`), `Stored` (Home comes after the document), `Wizard`
(a page comes after the fields of those before it), `Undelivered` (what may follow a sign-out in
the queue of events).

- `ModelIsOwn`, `HomeNeedsDocument`, `ProfilesComplete`, `SignedOutIsForgotten`, `TypeCorrect`.

### `PhoneVerificationProofs`
From `BoundsAssumption`. `TypeInv` is `TypeOK` with `Phases`, which says which page a request and a
resend belong to; without it, that an SMS goes to an entered number does not follow.

- `CodeOfLastRequest`: on PageLoginConfirm the code is checked with the id of the last SMS that
  PageLogin asked for, unless `overtaken`.
- `CountdownHasTimer`, `CountdownRate`: a countdown above zero has a timer, and goes down by one per
  second and running timer, for any number of overlapping timers.

### `ChatProofs`
From `BoundsAssumption`. That a chat has two users is not needed: what is proved holds of any
number of pages. `ChatInv` is `TypeOK` with `ReadsOnLog`, `Told`, `WritingExplained` and `Ruled`.

- `PagesAgree` (`ViewsAgree`): by `Told`, the last version on its way to a phone is the server's,
  and a phone with neither news nor a block of its own under way shows it.
- `BlockIsKept` (`BlockHolds`): by `Ruled`, while nobody races at most one block is under way, and
  its document, or the server's if there is none, names everybody who wants the block.
- `ButtonExplained` (`WritingExplained`): an invariant as it stands. `HeardStep` carries what the
  page has heard of, `WaitingStep` that an enabled button over a blank field has its text in the
  queue until the server answers.
- `TypeCorrect`.

### `ProfilePhotosProofs`
From `BoundsAssumption` and `NoneAssumption`. List objects are shared, so the proofs rest on which
object is whose. `EditFacts` says once what `setPhotos` does to the model, the objects and the
document, and each of the five ways to change a list (add, late add, remove, move, failed drop) is
a corollary.

- `PhotoTypes`: from `StateInv`: models and uploads name objects that exist (`ListsInv`), only the
  open page waits for an upload, on its own list (`PageInv`), a model without a cover has no photos
  (`CoverInv`), and no list is longer than what was uploaded (`FitInv`). The last is why `built`
  is bounded at all: the sum of the uploads under way and the photos of any list never grows
  without a new upload.
- `CoverIsTheFirst`: `HeadsInv`; `CoverIsFirst` with its converse for lists without photos.
- `PhotosAreOwn`: `OwnInv`; the model's, the page's and each live upload's photos are the
  signed-in account's.
- `OnePhotoIsKept`: `OneInv`; once the wizard's button is enabled its model has a photo.
- `NoMoreThanSix`: `BusyInv`; a sheet and the upload that follows it reserve a slot because the
  page is busy for anything else, so that one at a time is under way (`Alone`, `Fits`).
- `ShownIsStored`: `SameInv`; whichever page is open, the model of a registered account holds what
  its document holds, and PageProfile shows the model's list.

### `HomeProofs`
From `BoundsAssumption`, `FieldsAssumption` and `FiniteAssumption`. One part moves in a behaviour,
so each invariant is proved over the actions of its part; `HomeInv` joins the types.

- `HeightIsOffered`: `HeightInv`; the wizard draws its index because the picker that gave it lists
  no more builds than there have been, and while no picker was built twice over, what is chosen lies
  in the first list. `MoreBuildsList` is the arithmetic: more builds list no fewer options.
- `LanguagesAreOnce`: `LanguagesInv`, which is the property with its type.
- `FiltersAreKept`: `FilterInv`. The property speaks of moments with no write under way;
  `Expected` says what is known of each end from its last write while there is one.
- `DialogsAreExplained`: `DialogsInv`. `Waited`: until a widget listens there is exactly one answer
  to come, or it has shown the dialog; `Told`: after that, a phone that is online has an answer or
  good news on its way.
- `ModelsAreStored`, `EditsAreKept`: `SyncInv`. A fresh device has nobody else's save before it
  (`FreshAlone`); without a conflict the saves under way are of one device, and the last one holds
  what was saved (`NothingLost`).
- `HomeIsNotPopped`, `MatchesAreAnnounced`: `LikedByInv`. `Stays`: without the two accidents the one
  call under way is that of the dialog on top; `TilesKnown`: a dialog without a tile has seen the
  grid shrink.
- `HomeTypes`: `HomeInv`.

### `ChatIdentity`
It has no behaviour, so nothing of it is model-checked; its theorems are about `ChatId`
for any users and any hash codes.

- `ChatIdShared`: both users compute one id if their hash codes differ.
- `ChatIdCollision`: if the hash codes are equal, the ids differ, and each user writes to a chat
  that the other never opens. That Dart's `hashCode` is the same on both phones is not part of it.
- `ChatIdOfOnePair`: no two pairs share an id.

### Only model-checked
Liveness: `MatchBecomesMutual`, `ResendComesBack` and `NewestIsRead`, since the prover handles no
fairness. The five runs that expect a violation are counterexamples, which need no proof.

## 5. Plan

Every part with a protocol of its own is modelled and every safety property proved. What is left:

1. An abstract specification of the document that several devices save (`ProfileSync`): a set of
   fields that is replaced at once; it implements that while no device saves over another.
2. An abstract specification of `blocked` in `Chat`, a register that phones set and see in order.
3. The safety lemmas that the liveness arguments rest on: that a queued write is applied unless
   it is never delivered, that a timer due this second leaves the countdown lower.
