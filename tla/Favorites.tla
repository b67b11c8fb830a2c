------------------------------ MODULE Favorites ------------------------------
(***************************************************************************)
(* The favourites of the app: the Core Data context that stores them and   *)
(* the three screens that each keep their own copy of what is stored.      *)
(*                                                                         *)
(*   Favorite+CoreDataClass.swift    insert, fetch and delete, each with   *)
(*                                   a save whose failure is swallowed     *)
(*   AppDelegate / SceneDelegate     saveContext on entering background    *)
(*   FavoriteTableCell               the strip on the home screen          *)
(*   FavoriteVC                      the grid with its unsave buttons      *)
(*   DetailItemViewController        the heart button of one animal        *)
(*                                                                         *)
(* All of it runs on the main thread: a handler is one atomic step, and    *)
(* what it hands to DispatchQueue.main.async is a later step.  While one   *)
(* of the two pushed screens is up the tab bar is hidden, so there is one  *)
(* stack of them at a time.                                                *)
(*                                                                         *)
(* An environment says what the component cannot: which animals the        *)
(* catalogue lists, whether the main queue is drained before the next      *)
(* touch, and whether a fetch may throw.  It does not change.              *)
(***************************************************************************)
EXTENDS Naturals, Sequences, FiniteSets, SequencesExt

CONSTANTS
  Species,       \* values of Animal.species, the key the screens compare
  MaxInserts,    \* bound: favourites ever created per species
  MaxPending,    \* bound: main-queue refreshes waiting at once
  Environments   \* environments: records with the fields
                 \*   listed        species of the animals the catalogue lists
                 \*   responsive    the main queue is drained before a touch
                 \*   fetchMayFail  a fetch may throw, which yields an empty array

ASSUME FavoritesAssumption ==
  /\ MaxInserts \in Nat
  /\ MaxPending \in Nat
  /\ Environments \subseteq
       [listed : SUBSET Species, responsive : BOOLEAN, fetchMayFail : BOOLEAN]

VARIABLES
  env,        \* the environment, which does not change
  disk,       \* rows of the persistent store
  ins,        \* objects inserted in the context and not yet saved
  del,        \* stored objects deleted in the context and not yet saved
  created,    \* per species, how many Favorite objects were ever created
  app,        \* "active", "background" or "dead" (killed or crashed)
  stack,      \* pushed screens above the tab's root
  strip,      \* FavoriteTableCell.animalsFavorite
  favorites,  \* FavoriteVC.favorites
  cells,      \* per item of the grid, the index its unsave closure captured
  animal,     \* DetailItemViewController.animal?.species
  snapshot,   \* DetailItemViewController.favorites
  heart,      \* tint of the heart button
  refreshes   \* main-queue blocks that will refresh snapshot

store  == <<disk, ins, del, created>>
grid   == <<favorites, cells>>
detail == <<animal, snapshot, heart, refreshes>>
vars   == <<env, store, app, stack, strip, grid, detail>>

(***************************************************************************)
(* Managed objects.  Two favourites of one species are distinct objects.   *)
(***************************************************************************)
Favorite == [species : Species, id : 1 .. MaxInserts]

NoAnimal == "none"

\* What a successful fetch returns: it sees unsaved changes.
Visible == (disk \cup ins) \ del

\* What the context still holds, changed or not.
Registered == disk \cup ins

SpeciesOf(S) == {o.species : o \in S}

\* The outcomes of getFavoriteOfCurrentUser when the context shows v.
getFavoriteOfCurrentUser(v) ==
  {v} \cup (IF env.fetchMayFail THEN {{}} ELSE {})

\* The orders in which the fetch, which has no sort descriptor, may list v.
Listings(v) == UNION {SetToSeqs(r) : r \in getFavoriteOfCurrentUser(v)}

----------------------------------------------------------------------------
(***************************************************************************)
(* The store.  A save writes every pending change or, when it throws,      *)
(* leaves all of them pending: nothing rolls the context back.             *)
(***************************************************************************)
Save(i, d) ==
  \/ /\ disk' = (disk \cup i) \ d
     /\ ins' = {}
     /\ del' = {}
  \/ /\ ins' = i
     /\ del' = d
     /\ UNCHANGED disk

\* Mutation: the failed insert is rolled back, as the nil it returns suggests.
insertFavorite_RollsBack(s) ==
  /\ created[s] < MaxInserts
  /\ created' = [created EXCEPT ![s] = @ + 1]
  /\ \/ Save(ins \cup {[species |-> s, id |-> created[s] + 1]}, del) /\ ins' = {}
     \/ UNCHANGED <<disk, ins, del>>

insertFavorite(s) ==
  /\ created[s] < MaxInserts
  /\ created' = [created EXCEPT ![s] = @ + 1]
  /\ Save(ins \cup {[species |-> s, id |-> created[s] + 1]}, del)

\* Mutation: every favourite of the species is deleted, not the one given.
deleteFavorite_AllOfSpecies(o) ==
  LET same == {f \in Visible : f.species = o.species} IN
  /\ Save(ins \ same, del \cup (same \cap disk))
  /\ UNCHANGED created

\* Deleting an object the context no longer holds changes nothing, but the
\* save that follows still writes what is pending.
deleteFavorite(o) ==
  /\ IF o \in Visible
       THEN Save(ins \ {o}, del \cup ({o} \cap disk))
       ELSE Save(ins, del)
  /\ UNCHANGED created

\* Mutation: the notification is not posted.
PostFavoriteChanged_Dropped == UNCHANGED strip

\* notiFicationNameFavorite: the strip's observer runs inside the post.
PostFavoriteChanged == strip' \in getFavoriteOfCurrentUser(Visible')

\* The process is gone; what it held in memory no longer matters.
Die == app' = "dead"

----------------------------------------------------------------------------
Top == IF stack = <<>> THEN "root" ELSE Last(stack)

\* A touch reaches screen s.
Touch(s) ==
  /\ app = "active"
  /\ Top = s
  /\ env.responsive => refreshes = 0

Init ==
  /\ env \in Environments
  /\ disk = {} /\ ins = {} /\ del = {}
  /\ created = [s \in Species |-> 0]
  /\ app = "active"
  /\ stack = <<>>
  /\ strip = {}
  /\ favorites = <<>> /\ cells = <<>>
  /\ animal = NoAnimal /\ snapshot = {} /\ heart = "white" /\ refreshes = 0

(***************************************************************************)
(* The grid, FavoriteVC.                                                   *)
(***************************************************************************)
CapturedIndices(q) == [i \in DOMAIN q |-> i]

OpenFavorites ==
  /\ Touch("root")
  /\ stack' = <<"FavoriteVC">>
  /\ favorites' \in Listings(Visible)
  /\ cells' = CapturedIndices(favorites')
  /\ UNCHANGED <<env, store, app, strip, detail>>

LeaveFavorites ==
  /\ Touch("FavoriteVC")
  /\ stack' = <<>>
  /\ favorites' = <<>>
  /\ cells' = <<>>
  /\ UNCHANGED <<env, store, app, strip, detail>>

\* cellForItemAt for an item that scrolled back in: it captures the index anew.
CellReused(p) ==
  /\ app = "active"
  /\ Top = "FavoriteVC"
  /\ cells' = [cells EXCEPT ![p] = p]
  /\ UNCHANGED <<env, store, app, stack, strip, favorites, detail>>

\* Mutation: the item is not removed from the collection view.
DeleteItems_Skipped(k, q) == UNCHANGED cells

\* deleteItems(at:) of item k when the data source lists q; the collection view
\* accepts it only if the count dropped by exactly one.
DeleteItems(k, q) ==
  /\ Len(q) + 1 = Len(cells)
  /\ cells' = RemoveAt(cells, k)

\* The unsave button of item p, whose closure captured index k.
\* Three ways to die: k is out of range, the object is not of this context,
\* or the collection view rejects the update (or, after it, the layout's
\* attributes for an item that is no longer there).
Unsave(p) ==
  LET k == cells[p] IN
  /\ Touch("FavoriteVC")
  /\ \/ /\ ~(k \in DOMAIN favorites /\ favorites[k] \in Registered)
        /\ Die
        /\ UNCHANGED <<env, store, stack, strip, grid, detail>>
     \/ /\ k \in DOMAIN favorites
        /\ deleteFavorite(favorites[k])
        /\ favorites' \in Listings(Visible')
        /\ \/ /\ DeleteItems(k, favorites')
              /\ PostFavoriteChanged
              /\ UNCHANGED app
           \/ /\ Die
              /\ UNCHANGED <<cells, strip>>
        /\ UNCHANGED <<env, stack, detail>>

----------------------------------------------------------------------------
(***************************************************************************)
(* The detail screen.                                                      *)
(***************************************************************************)
HeartColour(s, S) == IF s \in SpeciesOf(S) THEN "red" ELSE "white"

OpenDetail(s) ==
  /\ stack' = Append(stack, "Detail")
  /\ animal' = s
  /\ snapshot' \in getFavoriteOfCurrentUser(Visible)
  /\ heart' = HeartColour(s, snapshot')
  /\ refreshes' = 0
  /\ UNCHANGED <<env, store, app, strip, grid>>

OpenFromCatalogue(s) == Touch("root") /\ s \in env.listed /\ OpenDetail(s)

\* An object that is gone may have lost its image; then nothing opens.
OpenFromFavorites(p) == Touch("FavoriteVC") /\ OpenDetail(favorites[p].species)

\* The refreshes still queued hold the screen weakly and do nothing.
LeaveDetail ==
  /\ Touch("Detail")
  /\ stack' = Front(stack)
  /\ animal' = NoAnimal
  /\ snapshot' = {}
  /\ heart' = "white"
  /\ refreshes' = 0
  /\ UNCHANGED <<env, store, app, strip, grid>>

\* The name row scrolls back in and is configured again.
NameCellReused ==
  /\ Touch("Detail")
  /\ heart' = HeartColour(animal, snapshot)
  /\ UNCHANGED <<env, store, app, stack, strip, grid, animal, snapshot, refreshes>>

\* The objects of the snapshot whose species still reads as the animal's;
\* one that is gone from the context may read as nil.
Matches(lost) == {o \in snapshot \ lost : o.species = animal}

HeartTap ==
  /\ Touch("Detail")
  /\ refreshes < MaxPending
  /\ \E lost \in SUBSET (snapshot \ Registered) :
       \/ \E o \in Matches(lost) : deleteFavorite(o) /\ heart' = "white"
       \/ Matches(lost) = {} /\ insertFavorite(animal) /\ heart' = "red"
  /\ PostFavoriteChanged
  /\ refreshes' = refreshes + 1
  /\ UNCHANGED <<env, app, stack, grid, animal, snapshot>>

\* A heart tap that deletes an object the context no longer holds may raise.
HeartTapRaises ==
  /\ Touch("Detail")
  /\ \E o \in snapshot \ Registered : o.species = animal
  /\ Die
  /\ UNCHANGED <<env, store, stack, strip, grid, detail>>

\* Mutation: the queued block does not reload the snapshot.
RefreshSnapshot_Stale ==
  /\ app # "dead"
  /\ refreshes > 0
  /\ refreshes' = refreshes - 1
  /\ UNCHANGED <<env, store, app, stack, strip, grid, animal, snapshot, heart>>

RefreshSnapshot ==
  /\ app # "dead"
  /\ refreshes > 0
  /\ refreshes' = refreshes - 1
  /\ snapshot' \in getFavoriteOfCurrentUser(Visible)
  /\ UNCHANGED <<env, store, app, stack, strip, grid, animal, heart>>

----------------------------------------------------------------------------
(***************************************************************************)
(* Life cycle of the process.                                              *)
(***************************************************************************)
\* Mutation: the error is swallowed, as it is in the other saves.
saveContext_Swallows == Save(ins, del) /\ app' = "background"

\* saveContext: unlike the other saves, a failure here is a fatalError.
saveContext ==
  \/ Save(ins, del) /\ ins' \cup del' = {} /\ app' = "background"
  \/ ins \cup del # {} /\ Die /\ UNCHANGED <<disk, ins, del>>

EnterBackground ==
  /\ app = "active"
  /\ saveContext
  /\ UNCHANGED <<env, created, stack, strip, grid, detail>>

EnterForeground ==
  /\ app = "background"
  /\ app' = "active"
  /\ UNCHANGED <<env, store, stack, strip, grid, detail>>

Killed ==
  /\ app # "dead"
  /\ Die
  /\ UNCHANGED <<env, store, stack, strip, grid, detail>>

\* A new process, up to the home screen.
Launch ==
  /\ app = "dead"
  /\ app' = "active"
  /\ ins' = {} /\ del' = {}
  /\ stack' = <<>>
  /\ strip' \in getFavoriteOfCurrentUser(disk)
  /\ favorites' = <<>> /\ cells' = <<>>
  /\ animal' = NoAnimal /\ snapshot' = {} /\ heart' = "white" /\ refreshes' = 0
  /\ UNCHANGED <<env, disk, created>>

Next ==
  \/ OpenFavorites
  \/ LeaveFavorites
  \/ \E p \in DOMAIN cells : CellReused(p) \/ Unsave(p)
  \/ \E p \in DOMAIN favorites : OpenFromFavorites(p)
  \/ \E s \in Species : OpenFromCatalogue(s)
  \/ LeaveDetail
  \/ NameCellReused
  \/ HeartTap
  \/ HeartTapRaises
  \/ RefreshSnapshot
  \/ EnterBackground
  \/ EnterForeground
  \/ Killed
  \/ Launch

Spec == Init /\ [][Next]_vars

\* The run loop of a process that is not killed drains the main queue.
FairSpec == Spec /\ WF_vars(RefreshSnapshot)

----------------------------------------------------------------------------
(***************************************************************************)
(* Properties.                                                             *)
(***************************************************************************)
\* Every variable has its type, and the context's bookkeeping is in order:
\* pending inserts are not stored, pending deletes are.
TypeOK ==
  /\ env \in Environments
  /\ disk \subseteq Favorite /\ ins \subseteq Favorite /\ del \subseteq disk
  /\ ins \cap disk = {}
  /\ created \in [Species -> 0 .. MaxInserts]
  /\ app \in {"active", "background", "dead"}
  /\ stack \in {<<>>, <<"FavoriteVC">>, <<"Detail">>, <<"FavoriteVC", "Detail">>}
  /\ strip \subseteq Favorite
  /\ favorites \in Seq(Favorite) /\ cells \in Seq(Nat \ {0})
  /\ animal \in Species \cup {NoAnimal}
  /\ snapshot \subseteq Favorite
  /\ heart \in {"red", "white"}
  /\ refreshes \in Nat

\* The home strip never shows a favourite that was removed, whichever screen
\* removed it and whether or not the save or the refetch failed: every removal
\* posts notiFicationNameFavorite before the handler ends, or the process dies.
\* Without fetch failures it shows exactly the favourites of the context between
\* any two handlers.
HomeStripFresh ==
  app # "dead" => strip \subseteq Visible /\ (env.fetchMayFail \/ strip = Visible)

\* The queued refresh runs before the next touch and fetches do not fail.
Patient == env.responsive /\ ~env.fetchMayFail

\* Nothing in the data model forbids two favourites of one species; the heart
\* button alone does, by looking at its snapshot.  It succeeds, across saves
\* that fail, crashes and relaunches, when the refresh it queues runs before
\* the next touch and fetches do not fail.
UniqueSpecies ==
  Patient =>
    \A o1, o2 \in Visible : o1.species = o2.species => o1 = o2

\* Under the same conditions the heart is red exactly while the animal is a
\* favourite, although it is painted before the insert or the delete happens
\* and neither result is looked at.
HeartTruthful ==
  Patient /\ app # "dead" /\ Top = "Detail" =>
    (heart = "red" <=> animal \in SpeciesOf(Visible))

\* An app that survived going to the background has nothing left to lose:
\* saveContext wrote every change that earlier, failed saves left pending.
BackgroundIsDurable == app = "background" => disk = Visible

\* The grid's data source always has as many items as the collection view
\* displays, though FavoriteVC is not told of changes made on the detail
\* screen above it: an unsave that would break this ends the process.
GridMatchesDataSource == app # "dead" => Len(favorites) = Len(cells)

\* A detail screen that stays up eventually has a snapshot that is up to date.
SnapshotSettles ==
  (app # "dead" /\ Top = "Detail") ~>
    (app = "dead" \/ Top # "Detail" \/ snapshot \in getFavoriteOfCurrentUser(Visible))

\* The component implements its abstract specification: what a fetch shows is
\* the abstract set, the rows of the persistent store are its durable copy.
Abstract == INSTANCE DurableFavorites WITH favs <- Visible, durable <- disk

\* Saves that fail, crashes at any point and relaunches never leave the store
\* with part of a change: its rows are always an earlier set of favourites.
ImplementsDurableFavorites == Abstract!Spec
==============================================================================
