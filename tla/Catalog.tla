------------------------------- MODULE Catalog -------------------------------
(***************************************************************************)
(* The three screens that list documents of a collection under a row of    *)
(* categories and a search field: ListViewController ("list"),             *)
(* HandBookViewController ("handbook") and TrainingViewController          *)
(* ("training").  Each loads its collection once; a category filters at    *)
(* once, a keystroke starts a timer of one second that nothing cancels,    *)
(* and that searches for whatever the field holds when it fires.           *)
(*                                                                         *)
(* The list displays its animals in a collection view inside one table     *)
(* cell, whose contents are renewed by a block queued later; the other two *)
(* display one row per document.                                           *)
(***************************************************************************)
EXTENDS Naturals, Sequences, FiniteSets

CONSTANTS
  Kinds,          \* the screens considered
  Items,          \* documents
  Types,          \* categories, in lower case
  Words,          \* search texts, in lower case
  Blank,          \* the empty string: no category, no search text
  TypeOf,         \* the field "animal" of a document, Blank if it has none
  WordsIn,        \* the search texts contained in its species or title
  Snapshots,      \* what a query may return
  Environments,   \* the surroundings considered
  MaxTimers       \* bound: timers running at one time

(***************************************************************************)
(* An environment says what the screens cannot: what contains("") answers, *)
(* whether UIKit may refuse the overlay that viewDidLoad presents, whether *)
(* blocks already queued run before the next touch, and on which screens   *)
(* the query may fail.                                                     *)
(***************************************************************************)
Environment == [emptyMatches : BOOLEAN, overlayMayMiss : BOOLEAN,
                responsive : BOOLEAN, failing : SUBSET Kinds]

ASSUME CatalogAssumption ==
  /\ Kinds \subseteq {"list", "handbook", "training"}
  /\ Blank \notin Types \cup Words
  /\ TypeOf \in [Items -> Types \cup {Blank}]
  /\ WordsIn \in [Items -> SUBSET Words]
  /\ Snapshots \subseteq Seq(Items)
  /\ Environments \subseteq Environment
  /\ MaxTimers \in Nat

VARIABLES
  env,        \* the environment, which does not change
  kind,       \* which screen this is
  query,      \* "asked", "arrived" (its block is still to run), "done", "failed"
  arrived,    \* the documents that block carries
  overlay,    \* the loading view covers the screen
  all,        \* animals, handBookAnimals, trainingAnimals
  filtered,   \* filterAnimals, filterHandBook, filterTraining
  isFilter,   \* isSelectype, isFilter
  animalType, \* the category chosen
  text,       \* searchTextField.text
  removable,  \* deleteButton is visible
  timers,     \* timers running
  cell,       \* list: the array given to the cell and captured by tapCell
  shown,      \* what is displayed
  queued      \* list: reloads waiting in the main queue, "table" and "grid"

data   == <<all, filtered, isFilter, animalType>>
search == <<text, removable, timers>>
view   == <<cell, shown, queued>>
vars   == <<env, kind, query, arrived, overlay, data, search, view>>

----------------------------------------------------------------------------
\* Array.filter: for each n, the elements of P among the first n of s, in order,
Selections(s, P) ==
  LET F[n \in 0 .. Len(s)] ==
        IF n = 0 THEN <<>>
        ELSE IF s[n] \in P THEN Append(F[n - 1], s[n]) ELSE F[n - 1]
  IN  F

\* and those among all of s.
Selected(s, P) == Selections(s, P)[Len(s)]

OfType(s, t) == Selected(s, {i \in Items : TypeOf[i] = t})

Contains(i, v) == IF v = Blank THEN env.emptyMatches ELSE v \in WordsIn[i]

\* Mutation: a search looks in every category.
Found_AnyType(s, t, v) == Selected(s, {i \in Items : Contains(i, v)})

\* The list always compares the category, the other two only a chosen one.
Found(s, t, v) ==
  Selected(s, {i \in Items : /\ TypeOf[i] = t \/ (t = Blank /\ kind # "list")
                             /\ Contains(i, v)})

\* The array the data source uses.
Rows == IF isFilter THEN filtered ELSE all

\* The array a tap indexes: for the list the captured one, for the other two
\* the unfiltered one.
Opens == IF kind = "list" THEN cell ELSE all

\* Mutation: the collection view is not told that its array changed.
Reload_NoGrid(q) ==
  IF kind = "list"
    THEN /\ cell' = Rows'
         /\ shown' \in {shown, Rows'}
         /\ queued' = q
    ELSE /\ shown' = Rows'
         /\ queued' = q
         /\ UNCHANGED cell

\* reloadData of the table, up to the layout pass; q is what stays queued.  A
\* reused cell of the list displays its old items until its own reload.
Reload(q) ==
  IF kind = "list"
    THEN /\ cell' = Rows'
         /\ shown' \in {shown, Rows'}
         /\ queued' = q \cup {"grid"}
    ELSE /\ shown' = Rows'
         /\ queued' = q
         /\ UNCHANGED cell

\* Touches reach the screen unless it is covered.
Touch ==
  /\ ~overlay
  /\ env.responsive => queued = {} /\ ~(kind = "list" /\ query = "arrived")

Init ==
  /\ env \in Environments
  /\ kind \in Kinds
  /\ query = "asked" /\ arrived = <<>>
  /\ overlay \in IF env.overlayMayMiss THEN BOOLEAN ELSE {TRUE}
  /\ all = <<>> /\ filtered = <<>> /\ isFilter = FALSE
  /\ animalType \in IF kind = "list" THEN Types \cup {Blank} ELSE {Blank}
  /\ text = Blank /\ removable = FALSE /\ timers = 0
  /\ cell = <<>> /\ shown = <<>> /\ queued = {}

----------------------------------------------------------------------------
(***************************************************************************)
(* Loading.                                                                *)
(***************************************************************************)
\* initData of the list: the overlay goes at once, the block that stores the
\* documents is queued.
ListAnswered(s) ==
  /\ kind = "list" /\ query = "asked"
  /\ query' = "arrived"
  /\ arrived' = s
  /\ overlay' = FALSE
  /\ UNCHANGED <<env, kind, data, search, view>>

\* Mutation: the list returns on an error before it removes the overlay.
ListFailed_KeepsOverlay ==
  /\ kind = "list" /\ kind \in env.failing
  /\ query = "asked"
  /\ query' = "failed"
  /\ UNCHANGED <<env, kind, arrived, overlay, data, search, view>>

ListFailed ==
  /\ kind = "list" /\ kind \in env.failing
  /\ query = "asked"
  /\ query' = "failed"
  /\ overlay' = FALSE
  /\ UNCHANGED <<env, kind, arrived, data, search, view>>

\* The block queued by setData of the list.
ListLoaded ==
  /\ kind = "list" /\ query = "arrived"
  /\ query' = "done"
  /\ all' = arrived
  /\ UNCHANGED <<filtered, isFilter, animalType>>
  /\ Reload(queued)
  /\ UNCHANGED <<env, kind, arrived, overlay, search>>

\* getHandBook of the service and of the view model: the handbook stores the
\* documents before it displays them.
HandBookAnswered(s) ==
  /\ kind = "handbook" /\ query = "asked"
  /\ query' = "arrived"
  /\ arrived' = s
  /\ all' = s
  /\ UNCHANGED <<env, kind, overlay, filtered, isFilter, animalType, search, view>>

\* The block of a second later.
HandBookLoaded ==
  /\ kind = "handbook" /\ query = "arrived"
  /\ query' = "done"
  /\ overlay' = FALSE
  /\ UNCHANGED data
  /\ Reload(queued)
  /\ UNCHANGED <<env, kind, arrived, search>>

TrainingAnswered(s) ==
  /\ kind = "training" /\ query = "asked"
  /\ query' = "arrived"
  /\ arrived' = s
  /\ UNCHANGED <<env, kind, overlay, data, search, view>>

\* The block of a second later also stores the documents.
TrainingLoaded ==
  /\ kind = "training" /\ query = "arrived"
  /\ query' = "done"
  /\ overlay' = FALSE
  /\ all' = arrived
  /\ UNCHANGED <<filtered, isFilter, animalType>>
  /\ Reload(queued)
  /\ UNCHANGED <<env, kind, arrived, search>>

\* The handbook and training print an error and keep their overlay.
PostsFailed ==
  /\ kind # "list" /\ kind \in env.failing
  /\ query = "asked"
  /\ query' = "failed"
  /\ UNCHANGED <<env, kind, arrived, overlay, data, search, view>>

----------------------------------------------------------------------------
(***************************************************************************)
(* Categories and search.                                                  *)
(***************************************************************************)
tapCategory(t) ==
  /\ Touch
  /\ animalType' = t
  /\ isFilter' = TRUE
  /\ filtered' = OfType(all, t)
  /\ UNCHANGED all
  /\ Reload(queued)
  /\ UNCHANGED <<env, kind, query, arrived, overlay, search>>

\* A category tapped on the home tab reaches the list without a filter.
tapCategoryOnHome(t) ==
  /\ kind = "list"
  /\ animalType' = t
  /\ UNCHANGED <<env, kind, query, arrived, overlay, all, filtered, isFilter, search, view>>

didStartSearch(v) ==
  /\ Touch
  /\ timers < MaxTimers
  /\ timers' = timers + 1
  /\ text' = v
  /\ removable' = TRUE
  /\ UNCHANGED <<env, kind, query, arrived, overlay, data, view>>

\* Mutation: no screen reloads.
onSearch_NoReload ==
  /\ timers > 0
  /\ timers' = timers - 1
  /\ isFilter' = TRUE
  /\ filtered' = Found(all, animalType, text)
  /\ UNCHANGED <<env, kind, query, arrived, overlay, all, animalType, text, removable, view>>

\* The list queues its reload, the other two reload at once.
onSearch ==
  /\ timers > 0
  /\ timers' = timers - 1
  /\ isFilter' = TRUE
  /\ filtered' = Found(all, animalType, text)
  /\ UNCHANGED <<all, animalType>>
  /\ IF kind = "list"
       THEN queued' = queued \cup {"table"} /\ UNCHANGED <<cell, shown>>
       ELSE Reload(queued)
  /\ UNCHANGED <<env, kind, query, arrived, overlay, text, removable>>

\* Mutation: the filter is left as it was.
didTapRemoveText_KeepsFilter ==
  /\ Touch
  /\ removable
  /\ text' = Blank
  /\ removable' = FALSE
  /\ UNCHANGED data
  /\ Reload(queued)
  /\ UNCHANGED <<env, kind, query, arrived, overlay, timers>>

didTapRemoveText ==
  /\ Touch
  /\ removable
  /\ text' = Blank
  /\ removable' = FALSE
  /\ isFilter' = (animalType # Blank)
  /\ filtered' = OfType(all, animalType)
  /\ UNCHANGED <<all, animalType>>
  /\ Reload(queued)
  /\ UNCHANGED <<env, kind, query, arrived, overlay, timers>>

\* reloadData queued by a search of the list.
ReloadTable ==
  /\ "table" \in queued
  /\ UNCHANGED data
  /\ Reload(queued \ {"table"})
  /\ UNCHANGED <<env, kind, query, arrived, overlay, search>>

\* reloadData queued by setData of the cell.
ReloadGrid ==
  /\ "grid" \in queued
  /\ queued' = queued \ {"grid"}
  /\ shown' = cell
  /\ UNCHANGED <<env, kind, query, arrived, overlay, data, search, cell>>

Load ==
  \/ \E s \in Snapshots : ListAnswered(s) \/ HandBookAnswered(s) \/ TrainingAnswered(s)
  \/ ListFailed \/ PostsFailed
  \/ ListLoaded \/ HandBookLoaded \/ TrainingLoaded

Next ==
  \/ Load
  \/ \E t \in Types : tapCategory(t) \/ tapCategoryOnHome(t)
  \/ \E v \in Words \cup {Blank} : didStartSearch(v)
  \/ onSearch \/ didTapRemoveText
  \/ ReloadTable \/ ReloadGrid

Spec == Init /\ [][Next]_vars

\* Firestore answers the query, and the main queue runs its blocks.
FairSpec == Spec /\ WF_vars(Load)

----------------------------------------------------------------------------
(***************************************************************************)
(* Properties.                                                             *)
(***************************************************************************)
\* Every variable has its type.
TypeOK ==
  /\ env \in Environments
  /\ kind \in Kinds
  /\ query \in {"asked", "arrived", "done", "failed"}
  /\ overlay \in BOOLEAN /\ isFilter \in BOOLEAN /\ removable \in BOOLEAN
  /\ {arrived, all, filtered, cell, shown} \subseteq Seq(Items)
  /\ animalType \in Types \cup {Blank}
  /\ text \in Words \cup {Blank}
  /\ timers \in 0 .. MaxTimers
  /\ queued \subseteq IF kind = "list" THEN {"table", "grid"} ELSE {}

\* The handbook and training index the unfiltered array when a row is tapped and
\* the current array when a row scrolls into view.  Whatever order load, timers
\* and taps come in, every displayed row has an element in both.
RowsInRange ==
  kind # "list" => DOMAIN shown \subseteq DOMAIN all \cap DOMAIN Rows

\* When a touch reaches the list and queued reloads run before it, the animal
\* displayed at an index is the one the captured array has there: a tap opens
\* what was tapped.
TapOpensShown == env.responsive /\ kind = "list" /\ Touch => shown = cell

\* Once a category is chosen in the handbook or in training, no late timer, no
\* removal of the search text and no late load brings a document of another
\* category onto the screen.
CategoryRespected ==
  kind # "list" /\ animalType # Blank =>
    \A i \in DOMAIN shown : TypeOf[shown[i]] = animalType

\* In the handbook and in training, once the load is done and the timers have
\* run, an empty search field shows the whole category, or everything when none
\* is chosen, although a timer may fire after the text was removed.  (This needs
\* a screen that is covered until then, and contains("") to be true.)
BlankSearchShowsAll ==
  env.emptyMatches /\ ~env.overlayMayMiss /\ kind # "list" /\ query = "done" /\ timers = 0 /\ text = Blank =>
    shown = IF animalType = Blank THEN all ELSE OfType(all, animalType)

\* The loading view goes away: in the list also when the query fails, in the
\* other two when it succeeds.
LoadingEnds ==
  (overlay /\ (kind = "list" \/ kind \notin env.failing)) ~> ~overlay
==============================================================================
