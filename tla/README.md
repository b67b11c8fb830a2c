# A verification project for mock_project

mock_project is an iOS app (Swift, UIKit) for pet owners. It keeps accounts and
profiles in Firebase Auth, Firestore and Storage, and favourite animals in Core
Data. Its state changes on the main thread, in touch handlers, in callbacks of
Firebase requests, in blocks queued with `DispatchQueue.main.async`, in timers
and in observers of `NotificationCenter`. The repository also vendors the client
libraries the app stands on (`Pods/`); of these the Firestore client and the
part of Firebase Auth it talks to are modelled as well, since every record,
profile and login of the app goes through them.

What is hard to test here is order: what an answer that fails or comes late does
to state another screen reads, and what the three queues below the app (main
queue, worker queue, Auth queue) make of a stream that fails, a user that
changes and a process that dies. That is what the modules model.

Paths of the app are relative to `src/mock_project/mock_project/`, those of the
libraries to `src/mock_project/Pods/`. The directory `ViewControllẻ` occurs
twice, its name composed and decomposed; the composed one is modelled (the
other, and some files of the first that are in no group of the Xcode project,
are older copies). It is written `V/`.

## The parts of the system

| Part | Code | Module |
| --- | --- | --- |
| Favourites store | `CoreData/Favorite+CoreData*.swift`, `AppDelegate`, `SceneDelegate` | `Favorites`, promise in `DurableFavorites` |
| Favourites grid, detail screen with the heart, strip on the home tab | `V/AccountVC/FavoriteVC`, `V/ListVC/DetailItem`, `V/HomeVC/.../FavoriteCell` | `Favorites` |
| Sign-up form | `V/LoginVC/SignUpViewController`, `SuccessViewController` | `SignUp` |
| Login, current profile, account and profile screens | `V/LoginVC/LoginViewController`, `Model/UserManager`, `V/Layout/LoadingView`, `V/AccountVC/UserAccountVC` | `Session` |
| My pets, health book | `V/AccountVC/ListPet`, `V/AccountVC/PetHealthBook` | `Records` |
| Catalogue, handbook, training | `V/ListVC`, `V/HomeVC/HandBookVC`, `V/HomeVC/TrainingVC`, `PetApi` | `Catalog` |
| Firestore: writes | `remote_store.cc`, `stream.cc`, `write_stream.cc`, `grpc_stream.cc`, `sync_engine.cc`, `leveldb_mutation_queue.cc` | `WritePipeline`, promise in `Outbox` |
| Firestore: queries | `query_core.cc`, `event_manager.cc`, `query_listener.cc`, `sync_engine.cc`, `remote_store.cc`, `remote_event.cc`, `online_state_tracker.cc` | `Reads` |
| Firestore and Auth: who a stream speaks for | `FIRAuth.m`, `firebase_auth_credentials_provider_apple.mm`, `stream.cc`, `firestore_client.cc` | `Credentials` |

`PROJECT.json` lists the parts, the lines each definition models, the runs with
one mutation of the code per property, the hazards and the theorems. Each `MC*`
module is the instance of a module for TLC, each `*Proofs` module its theorems.

## Modules

**Favorites.** One Core Data context (`Visible`: what a fetch sees; `disk`: what
has been saved), the grid, the detail screen and the strip on the home tab. A
favourite is a numbered object of a species, because the heart matches by name
while Core Data deletes by object. `insertFavorite` and `deleteFavorite` try to
save and only print a failure, so a change may stay pending. The heart works on
the snapshot `favorites` taken in `viewDidLoad` and renewed by a queued block
(`RefreshSnapshot`); the grid works on an array and on indices captured by its
cells (`CellReused`, `Unsave`). `PostFavoriteChanged` is the notification and
its observer. `EnterBackground` is `sceneDidEnterBackground` with `saveContext`,
which ends the process when it cannot save.

**DurableFavorites** is the promise of the store: a set of favourites and the
set a relaunch would find, which only moves to the current set.

**SignUp.** The five fields, their labels, the button, the requests in flight and
the accounts and documents at Firebase. A handler of an edit validates its own
field, then `checkValidForm` enables the button by looking at the labels.
`signUp` sends address and password captured at the tap; on success the callback
writes a document.

**Session.** `auth` is Firebase's current user and `user` the profile held by
`UserManager.shared`. A chain of three callbacks (users query, avatar, queued
block) keeps the second in step with the first; each chain captures the user
and the login screen it was started for. Every login screen stays alive below
what it presents, so late answers of old ones still run. What the component does
not decide (whose documents are complete, whether queries fail, whether the user
acts while a request is in flight) is a rigid variable `env`, chosen in `Init`.

**Catalog.** The three screens with categories and a search field share one
module, with `kind` fixed at the start; where their code differs (when documents
are stored, whether an error removes the overlay, which array a tap indexes)
there is an action or a case per screen. The list has a second stage: its
animals are in a collection view inside one table cell, whose array (`cell`)
changes before what it displays (`shown`) does. A timer started by a keystroke is
a count, since none is cancelled and each reads the field when it fires. `env`
says what `contains("")` answers, whether UIKit may refuse the loading view,
whether touches overtake queued blocks, and where queries fail.

**Records.** The list of pets and the health book, their forms and the
collections all users share. `Pop` is the callback of a write, which pops the
top screen if its form is still on the navigation controller. `failed` is the one
history variable: it records that the last query that ended failed.

**WritePipeline.** `WriteMutations` appends a batch to the mutation queue of the
current user, which is on disk; `FillWritePipeline` takes the oldest batches into
the pipeline; the write stream opens, shakes hands, sends the pipeline and is
answered in order by responses that carry no batch number. A handler of the
worker queue is one action, with all it calls: an answer removes the batch,
tells the writer and refills the pipeline. The faults are a call that ends
(`TransientFailure`), connectivity that changes, a change of user and a process
that dies (`Relaunch`, which keeps only what is on disk and recomputes
`next_batch_id_`). A call that ends leaves requests that the backend may have
committed; the model lets it commit any accepted prefix of them.

**Outbox** is the promise of the write path: the writes of a user are committed
in the order they were issued, and one leaves only from the front, committed or
refused.

**Reads.** `getDocuments` is a listener that waits for a snapshot in sync with the
backend, or takes the cache once the client knows that it is offline, and removes
itself when its first event runs. Everything the worker queue owns is the record
`w`; its handlers are chains of functions on `w` named after the methods they
stand for (`Listen`, `StopListening`, `UpdateState`, `OnWatchStreamClose`,
`ApplyRemoteEvent`, `ProcessTargetError`, ...). `OnlineStateTracker` with its
timer decides whether the client is offline. `no` numbers the listens of a query,
so that a property can say which of them an answer is for; the code has only the
target id, which stays the same. `WatchChangeAggregator` keeps a `TargetState` for
each target: the answers it waits for (`pending`), `current_` (`current`, kept as
the number of the listen whose CURRENT set it) and `has_pending_changes_`
(`changes`). CURRENT and reset are messages about one target; a snapshot is a
message of its own about all of them. It is dropped when its version is below the
last one of the local store; otherwise each active target with pending changes
gets a TargetChange, and its view is in sync exactly if the target is current.
The backend may send a snapshot at any time, also before the CURRENT of a watch.

**Credentials.** The user changes on the Auth queue; the news travels through the
main queue to the credentials provider and through the worker queue to the sync
engine, which restarts its streams; a token that a stream asks for travels the
same way back. `token_counter` and `close_count_` are what the code uses to
recognise a token that comes too late.

The modules meet in a few facts. `Records`, `Catalog` and `Session` take from
Firestore that a query is answered once, with a result or an error, and that a
write calls back with a verdict: `AnsweredOnce`, `GetsAnswered` and
`VerdictsHold`. `WritePipeline` takes a change of user as one step;
`Credentials` shows what happens between Auth and that step
(`OpenStreamSpeaksForUser`), and that the document `SignUp` writes in the callback
of `createUser` joins the new user's queue (`WritesOwnedBySignedIn`). The screens
behind the tab bar rely on `TabsHaveUser` of `Session`. That a user has at most
one document, which `Session` uses when it follows one chain per lookup, is
`OneProfilePerAccount` of `SignUp`. `Favorites` assumes that one stack of pushed
screens is up at a time, because the grid and the detail screen hide the tab bar.

## Assumptions about what the modelled code uses

Where the behaviour of a framework is uncertain the model allows every outcome.

* Touches may overtake blocks already queued on the main queue, or not:
  `responsive` in the environments of `Favorites` and of `Catalog`. Touches are ignored
  while a push or pop is animated.
* Core Data: a fetch sees unsaved changes; a failed save leaves them pending;
  values of a deleted object may read as nil; deleting an object the context no
  longer knows does nothing or raises. Loading the store succeeds. The container
  is an `NSPersistentCloudKitContainer`, but the app has no entitlements, so
  nothing arrives from CloudKit.
* Collection views: `deleteItems` raises unless the item count dropped by one;
  the cached attributes of the layout may make it raise after an unsave.
* UIKit refuses a presentation by a controller that already presents, and may
  refuse one from `viewDidLoad`.
* Firebase Auth keeps one account per address, rejects an empty one and
  remembers the current user across launches. All callbacks come on the main
  thread. Nothing dismisses a login screen, so none is deallocated in one process.
* A LevelDB transaction is atomic and durable. The worker queue is serial.
* A gRPC call delivers in order and ends with a status. The backend answers
  requests in order and does not end a write call with OK while writes are
  pending (the client would stop on an assertion).
* In `Reads` the backend always refuses the queries in `Refusable`; one snapshot is
  under way at a time; it may carry documents or a resume token for any of the
  active targets; failures of the stream beyond the first are not told apart. The
  two queues of a get on the main thread are one inbox per get.
* In `Credentials` one stream stands for each of the two, and the token of
  AppCheck, which the app does not install, is there at once.

## Runs

| Run | Bounds | Shows |
| --- | --- | --- |
| `favorites` | 3 insertions per species in three environments: 2 species with the queue drained and fetches that succeed; 1 species with overtaking taps (2 queued refreshes), with and without failing fetches | the store implements `DurableFavorites`; nothing is pending in the background; strip and grid agree with it; a detail screen that stays up gets a current snapshot; with the queue drained and fetches that succeed (`Patient`), no species twice and a truthful heart |
| `signup` | a few texts per field, each passing and failing every validator; 2 submissions | submissions are sound, documents match accounts, one per account |
| `session` | 3 users in three environments: one who overlaps requests (3 chains, 3 login screens), one who waits (5 and 4), and a Firebase that always succeeds | tabs have a complete profile; for a user who waits it is the signed-in user's; the overlay clears |
| `catalog` | 4 documents, 2 categories, 1 word, 2 timers, 24 environments | rows in range; categories respected; with a loading view an emptied search shows the category; with queued reloads run before the next touch, a tap opens what is displayed; loading views go away |
| `records` | 4 submissions, 3 forms, 1 other user, failing queries and writes | no saved pet is missing unless the last query failed; loading views go away |
| `writes` | 2 users, pipeline of 3, 4 writes, 2 faults | responses are taken for their batches; the pipeline is the front of the queue; verdicts are true; the queue implements `Outbox` and drains |
| `reads` | 2 gets of 2 queries, one refused, 1 fault (failure, restart, reset or old snapshot) | gets are answered, once, and never forgotten before; targets become current by their own listen; the client's assertions hold |
| `credentials` | 2 users, 2 changes, 1 failure | an open stream carries its user's token; tokens find the stream that asked; no stream waits for ever |
| `signup_validity` | as `signup` | violated: see below |
| `writes_verdict` | 1 user, 3 writes, no fault | violated: see below |
| `reads_unknown` | 2 gets of 1 query, a backend that never answers | violated: see below |
| `reads_current` | 2 gets of 1 query, no fault | violated: see below |

Why the bounds are enough. Two species let one favourite be taken for another;
three insertions of one species let a stale tap meet an object inserted after
its twin was deleted. Two submissions let one answer after the other. Three login
screens and three chains let an old chain end after two newer ones started; three
users are there because one has no complete document and the profile must change
between the other two. Two timers let one fire after the text was removed and
typed again. Four submissions from three forms cover a double tap on one form
with a write of an earlier form outstanding. A pipeline of three with four writes
overflows, and two faults give a failure during the recovery from another; ids
are handed out again after a relaunch with an empty queue. Two gets of one query
share a target id, one after the other or together; the one fault may come at any
point of either, and the proofs are for any number. Two changes of user while a
token is under way are what the two counters are for.

`CHECK_DEADLOCK FALSE` is set where the system may really stop: the sign-up form
ends at the login screen, a handbook or training screen whose query failed stays
covered, and the Firestore modules come to rest when their bounded work is done.

Fairness is weak and never on the user or on faults: blocks of the main and the
worker queue run, timers fire, and services answer a request with a result or an
error. `reads_unknown` assumes only the client's half of it. `OverlayClears`
holds only when queries succeed and documents are complete, and `LoadingEnds` of
`Catalog` leaves out the handbook and training when their query fails; the code
dismisses nothing then.

### Four disagreements

* `signup_validity` (`SubmittableFormIsValid`). The form says of a blank field
  "Không được để trống thông tin này" (`SignUpViewController.swift:66`) and of two
  different passwords "Mật khẩu không chính xác" (line 178). But a field that was
  never edited has no visible label and counts as valid, and `passwordChanged`
  does not look at the confirmation again.
* `writes_verdict` (`RejectedWasRefused`). `remote_store.cc:513` says of a
  permanent error that "the request itself was the problem". When the error is
  noticed by a request that fails to go out, responses that have arrived and were
  not read are cancelled (`grpc_stream.cc:231`), and the batch at the front, which
  gets the error, may be one the backend has committed. Its writer is told of a
  failure; the batch at fault is sent again and refused in its turn.
* `reads_unknown` (`OnlineStateDecided`). `online_state_tracker.cc:48` promises a
  timeout "rather than waiting indefinitely". A get that was answered from the
  cache after the timeout is removed while its stream is still starting;
  `StopListening` then sets the state to Unknown, and the next get finds a stream
  that is started, so that no timer runs. With a backend that never answers it
  waits for ever.
* `reads_current` (`SyncedByOwnListen`). `remote_event.h:159` says that a current
  target has been sent "all changes up to the point at which the target was
  added", and `remote_event.cc:156` that a freshly added target needs "to reset
  any state that we had previously". When a query is unwatched and watched again
  before the backend has answered the unwatch, its `TargetState` is never removed,
  and `ClearPendingChanges` does not reset `current_`. A snapshot before the
  CURRENT of the second listen then puts the new view in sync by the CURRENT of
  the first. The run relies on the backend sending a snapshot of the stream in
  between; nothing in the client waits for CURRENT.

## Proofs

Every theorem holds for every value of the constants that satisfies the named
assumption of its module (`FavoritesAssumption`, `SignUpAssumption`,
`SessionAssumption`, `CatalogAssumption`, `RecordsAssumption`, `WriteAssumption`,
`ReadsAssumption`, `CredentialsAssumption`), in particular for any bounds.

`FavoritesProofs`. The invariant `Inv` is `TypeOK`, `GridMatchesDataSource`,
`DetailHasAnimal` (a detail screen on the stack has an animal) and `StoreInv`:
finite sets, and `Numbered`, which says that no object has a number beyond those
created, so that an insertion is always new. `TypeOK` alone is not inductive: the
grid's indices and the insertion need the rest. `TypeCorrect` and `GridSound`
follow. `Refinement` shows that every step changes the store as
`DurableFavorites` allows or leaves it alone. `HomeStripSound` and
`BackgroundDurable` add what the strip and the background need. `HeartSound` uses
`HeartInv` (no two objects of a species visible or on disk, and a snapshot that
is current unless its refresh is queued).

`SignUpProofs`. `SubmissionsSound` from `FormInv`, which relates each label to its
field: a hidden label means that the text is empty or passed its validator, and
an enabled button means a password was given; `ProfilesSound` by induction over
the answers.

`SessionProofs`. `TabsHaveUser` needs `Checked` (a chain past the users query has
a complete document) and `Promised` (behind the login there is a complete
profile or a block that will set it). `ProfileIsSignedInUser` needs, for a user
who waits, `OneAtATime` and `InStep`: whatever is in flight is alone and is for
the user signed in, and it finds the screen it was started from.

`RecordsProofs`. `NoSavedPetMissing` speaks of a settled list; the invariant adds
that the loading view covers the list exactly while a query is in flight, so that
nobody submits meanwhile, and that from the answer on the user's records are in
what will be shown.

`CatalogProofs`. What a filter returns is proved for every sequence:
`SelectionsRecur` and `SelectedProperties` follow the loop of `filter` element by
element (`Induction`, a lemma about sets of numbers, takes the place of an
induction rule), and say that the result is no longer than the array, holds
elements that satisfy the condition only, and is the whole array when all do.
The invariant `CInv` is `TypeOK`, `RowsFollow` (nothing is there before the
answer, a filtered array is no longer than the whole one, and the rows are those
of the current array, or none yet), `CategoryFiltered` (with a category chosen
the filter is on and its array is of that category), `CoveredUntilDone` (behind a
loading view nobody types or chooses before the load is done) and
`BlankSearchShowsAll` itself. `TypeCorrect`, `RowsSound`,
`CategorySound` and `BlankSearchSound` follow; `TapSound` needs only that the
list displays the array a tap indexes, or that the reload of its grid is queued.

`WritePipelineProofs`. The queues are sorted by id, which makes
`NextMutationBatchAfterBatchId` find the next batch and `FillWritePipeline` the
front of the queue. `SInv` is `TypeOK`, the sorted queues, `PipelineIsQueueFront`,
`StreamOK` (on an open stream what was sent and not yet answered is the handshake
or, after it, the whole pipeline; a call that was ended with an error was ended
at a batch the backend does not accept) and `Backend` (what was served is
committed, what was denied is refused). A second layer, `Writers`, adds `CallbackFindsItsWrite` and
`VerdictsHold`; it needs that tags, unlike ids, are not used again and that nobody who
still waits was told something.
`OutboxImplemented` maps each queue to its tags and shows, action by action, a
step of `Outbox` or a stutter; an answer of the backend commits a prefix of the
outbox because of `PipelineIsQueueFront`.

`ReadsProofs`. One lemma per function on `w` says which fields it may change and
that it keeps the invariants of `w`: `Watched`, `Timer` and `Idle`. For
`AnsweredOnce` the invariant follows a get across the queues: it is registered
once (`Registered`, `QueuedOnce`), a refusal is the last event it gets, and a get
that was answered without being muted was refused (`GetsOK`, `Counted`).

`CurrentSound` (`CurrentByOwnListen`) says what does hold of CURRENT: no message of
an earlier listen marks the target of a later one. It is about the step that sets
`current_`; what a view makes of a `current_` that was set earlier is
`reads_current`. The proof rests on a second invariant, `Stream`. A stream without a call
carries nothing and, once started, waits for nothing. On an open one the answers
a target waits for are the requests and answers under way for it, one by one
(`Outstanding`; `Count` counts the elements of a sequence that are in a set), and
whatever is under way for a listen that is over has the end of its watch behind
it (`Superseded`). A target that waits for nothing therefore has no end of a
watch under way, so that the CURRENT it takes belongs to its latest listen
(`ActiveIsCurrent`); this is what `IsActiveTarget` relies on. A refusal is not
counted off, so refusable queries are left out of `Outstanding`; they never
become current (`Proper`).

`GetsKept` is the safety half of `GetsAnswered`: a get that is not answered yet is
queued, has an event that its callback will take, or listens on a started stream
with no reason to have been told. Its invariant is `WInv`: whoever listens and has
not been told had no reason to be (`Told`), the stream is started while something
is watched (`Running`), and a get that is not told is queued or listens while one
that was told has an event left until it is answered (`Asked`). One lemma per
function on `w` shows `Tells`: it takes away no listener and no event, and
gives everybody to whom it gives a reason an event. Offline is broadcast to the
queries that have a view; `Watched` is why these are all that somebody listens to.

What `Count` and a list of the targets obey (`CountLaws`, `ListLaws`) is assumed
by name in the lemmas that use it and proved from the theorems about finite sets
at the end of the module (`Counting`, `Listing`), so that these are not in the way
of every other proof; the theorems discharge the two. For the same reason most
steps name the prover that finds them at once.

`CredentialsProofs`. `Latest(s, op, b, n, u)` says that u is the user of the last
element of kind `op` among the first n of a queue, or b if there is none. The
invariant says of each queue that what comes out of it is in step with the news
before it: an answer whose counter is the provider's belongs to the user the
provider has then; a resume belongs to the user the sync engine has when it gets
there; while the stream is Starting at most one request with its close count is
under way, and none otherwise. `TokensSound`, `StreamsSpeakForUser`,
`ResumesSound` and `WritesSound` follow.

Only model-checked: liveness (`SnapshotSettles`, `OverlayClears`, `LoadingEnds`,
`QueueDrains`, `GetsAnswered`, `StartingEnds`), for which the prover has no rules.
Every invariant, action property and refinement that a passing run checks is also
proved.

## Not modelled, and known limits

* Profile editor: saving the fields and the avatar, which writes one fixed
  document (`UserDetailVC.swift:54`). The contents of documents are abstracted to
  whether they are complete, and no line of the repository says which document an
  edit should reach.
* Contents of records and cells: the image picker, rows scrolled out of view
  (`AddPetViewController.swift:106`, `PetHealthBookViewController.swift:33` and
  `:173`), images resized in floating point (`ListViewController.swift:279`).
* `PinterestLayout` (floating-point columns and a cache of attributes); the crash
  a stale cache may cause is an outcome of `Unsave`.
* Tab bar and navigation (`HomeViewController.swift:174`): presenting tabs and
  screens is UIKit's; the category tapped on the home tab is in `Catalog`.
* Firestore: documents, overlays, limbo resolution, existence filters (with the
  watch they repeat, `remote_store.cc:319`), resume tokens, indexes and garbage collection; `DisableNetwork` and
  `waitForPendingWrites`, which the app does not call; a backend that changes its
  mind about a refused query.
* A client created in the callback of a sign-in after Auth has moved on takes the
  newer user for its own; `WritesOwnedBySignedIn` leaves this case out (`heard`).
* Styling, cells that only display values, and code nothing calls
  (`validationSignUp`, `getUserImage`,
  `LoginViewController.onGetCurrentUserLogin`, `didLoadTraining` of
  `Model/Training.swift`).
* The other vendored libraries: gRPC, BoringSSL, abseil, LevelDB, nanopb, the
  network side of Auth, Storage, Functions. They are by far the most lines of the
  repository, some 860,000 of C and its relatives, and appear only as what the
  modelled code sees of them. Measured against all of those lines the modelled
  share is well below one percent; of the files that carry the behaviour above it
  is large (`remote_store.cc` 70 %, `stream.cc` 65 %, `sync_engine.cc` 35 %,
  the sign-up and favourites screens 70 %, the login screen 50 %).
