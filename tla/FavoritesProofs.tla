--------------------------- MODULE FavoritesProofs ---------------------------
(***************************************************************************)
(* Proofs about Favorites, for any set of species, any number of           *)
(* favourites and of queued refreshes, and any environment.                *)
(***************************************************************************)
EXTENDS Favorites, FiniteSetTheorems, SequenceTheorems, TLAPS

----------------------------------------------------------------------------
(***************************************************************************)
(* The store: what a save, an insert and a delete do to what a fetch shows *)
(* and to the rows on disk.                                                *)
(***************************************************************************)
\* The number of an object was given out before, so the next one is new.
Numbered == \A o \in disk \cup ins : o.id <= created[o.species]

StoreInv ==
  /\ disk \subseteq Favorite /\ ins \subseteq Favorite
  /\ del \subseteq disk /\ ins \cap disk = {}
  /\ created \in [Species -> 0 .. MaxInserts]
  /\ Numbered
  /\ IsFiniteSet(disk \cup ins)

\* Whether a save succeeds or throws, a fetch shows the same afterwards, and the
\* rows on disk are what it shows or what they were.
LEMMA SaveEffect ==
  ASSUME NEW i, NEW d, i \cap disk = {}, d \subseteq disk, Save(i, d)
  PROVE  /\ Visible' = (disk \cup i) \ d
         /\ disk' = Visible' \/ disk' = disk
         /\ disk' \cup ins' \subseteq disk \cup i
         /\ del' \subseteq disk' /\ ins' \cap disk' = {}
BY DEF Save, Visible

\* insertFavorite adds one object, which was neither shown nor stored.
LEMMA InsertEffect ==
  ASSUME StoreInv, NEW s \in Species, insertFavorite(s)
  PROVE  /\ StoreInv'
         /\ disk' = Visible' \/ disk' = disk
         /\ \E o \in Favorite : /\ o.species = s
                                /\ o \notin Visible \cup disk
                                /\ Visible' = Visible \cup {o}
<1> DEFINE n == created[s] + 1
           o == [species |-> s, id |-> n]
<1>1. o \in Favorite /\ o.species = s /\ o.id = n
  BY FavoritesAssumption
  DEF FavoritesAssumption, StoreInv, insertFavorite, Favorite
<1>2. o \notin disk \cup ins
  BY <1>1 DEF StoreInv, Numbered
<1>3. /\ Visible' = (disk \cup (ins \cup {o})) \ del
      /\ disk' = Visible' \/ disk' = disk
      /\ disk' \cup ins' \subseteq disk \cup (ins \cup {o})
      /\ del' \subseteq disk' /\ ins' \cap disk' = {}
  <2> HIDE DEF o
  <2>1. (ins \cup {o}) \cap disk = {} /\ del \subseteq disk
    BY <1>2 DEF StoreInv
  <2>2. Save(ins \cup {o}, del)
    BY DEF insertFavorite, o
  <2> QED
    BY <2>1, <2>2, SaveEffect
<1>4. created' = [created EXCEPT ![s] = n] /\ n <= MaxInserts /\ n \in 1 .. MaxInserts
  BY FavoritesAssumption DEF FavoritesAssumption, StoreInv, insertFavorite
<1> HIDE DEF o
<1>5. IsFiniteSet((disk \cup ins) \cup {o})
  BY FS_AddElement DEF StoreInv
<1>6. disk' \cup ins' \subseteq (disk \cup ins) \cup {o}
  BY <1>3
<1>7. IsFiniteSet(disk' \cup ins')
  BY <1>5, <1>6, FS_Subset
<1>8. Numbered'
  <2> SUFFICES ASSUME NEW q \in (disk \cup ins) \cup {o}
               PROVE  q.id <= created'[q.species]
    BY <1>6 DEF Numbered
  <2>1. CASE q = o
    BY <2>1, <1>1, <1>4 DEF StoreInv
  <2>2. CASE q \in disk \cup ins
    <3>1. q.species \in Species /\ q.id \in Nat /\ q.id <= created[q.species]
      BY <2>2, FavoritesAssumption
      DEF FavoritesAssumption, StoreInv, Numbered, Favorite
    <3>2. created[q.species] \in Nat /\ created[q.species] <= created'[q.species]
      BY <3>1, <1>4, FavoritesAssumption DEF FavoritesAssumption, StoreInv
    <3> QED
      BY <3>1, <3>2, <1>4, FavoritesAssumption DEF FavoritesAssumption, StoreInv
  <2> QED
    BY <2>1, <2>2
<1>9. created' \in [Species -> 0 .. MaxInserts]
  BY <1>4, FavoritesAssumption DEF FavoritesAssumption, StoreInv
<1>10. Visible' = Visible \cup {o}
  BY <1>2, <1>3 DEF Visible, StoreInv
<1> QED
  BY <1>1, <1>2, <1>3, <1>6, <1>7, <1>8, <1>9, <1>10 DEF StoreInv, Visible

\* The effects of a save that only removes objects from the context.
LEMMA ShrinkEffect ==
  ASSUME StoreInv, NEW i, NEW d, i \subseteq ins, d \subseteq disk,
         Save(i, d), UNCHANGED created
  PROVE  /\ StoreInv'
         /\ Visible' = (disk \cup i) \ d
         /\ disk' = Visible' \/ disk' = disk
<1>1. /\ Visible' = (disk \cup i) \ d
      /\ disk' = Visible' \/ disk' = disk
      /\ disk' \cup ins' \subseteq disk \cup ins
      /\ del' \subseteq disk' /\ ins' \cap disk' = {}
  BY SaveEffect DEF StoreInv
<1>2. IsFiniteSet(disk' \cup ins')
  BY <1>1, FS_Subset DEF StoreInv
<1>3. Numbered'
  BY <1>1 DEF StoreInv, Numbered
<1> QED
  BY <1>1, <1>2, <1>3 DEF StoreInv

\* deleteFavorite removes the given object and nothing else.
LEMMA DeleteEffect ==
  ASSUME StoreInv, NEW o, deleteFavorite(o)
  PROVE  /\ StoreInv'
         /\ Visible' = Visible \ {o}
         /\ disk' = Visible' \/ disk' = disk
<1>1. CASE o \in Visible
  <2>1. /\ Save(ins \ {o}, del \cup ({o} \cap disk)) /\ UNCHANGED created
        /\ ins \ {o} \subseteq ins
        /\ del \cup ({o} \cap disk) \subseteq disk
    BY <1>1 DEF deleteFavorite, StoreInv
  <2>2. /\ StoreInv'
        /\ Visible' = (disk \cup (ins \ {o})) \ (del \cup ({o} \cap disk))
        /\ disk' = Visible' \/ disk' = disk
    BY <2>1, ShrinkEffect
  <2> QED
    BY <2>2 DEF Visible, StoreInv
<1>2. CASE o \notin Visible
  <2>1. Save(ins, del) /\ UNCHANGED created /\ del \subseteq disk
    BY <1>2 DEF deleteFavorite, StoreInv
  <2>2. /\ StoreInv'
        /\ Visible' = (disk \cup ins) \ del
        /\ disk' = Visible' \/ disk' = disk
    BY <2>1, ShrinkEffect
  <2> QED
    BY <1>2, <2>2 DEF Visible
<1> QED
  BY <1>1, <1>2

\* Entering the background changes nothing a fetch shows, and either writes all
\* of it or ends the process with the rows as they were.
LEMMA BackgroundEffect ==
  ASSUME StoreInv, EnterBackground
  PROVE  /\ StoreInv'
         /\ Visible' = Visible
         /\ \/ app' = "background" /\ disk' = Visible'
            \/ app' = "dead" /\ disk' = disk
<1>1. CASE Save(ins, del) /\ ins' \cup del' = {} /\ app' = "background"
  <2>1. /\ StoreInv'
        /\ Visible' = (disk \cup ins) \ del
    BY <1>1, ShrinkEffect DEF EnterBackground, StoreInv
  <2> QED
    BY <1>1, <2>1 DEF Visible
<1>2. CASE Die /\ UNCHANGED <<disk, ins, del>>
  BY <1>2 DEF EnterBackground, Die, Visible, StoreInv, Numbered
<1> QED
  BY <1>1, <1>2 DEF EnterBackground, saveContext

----------------------------------------------------------------------------
(***************************************************************************)
(* The screens: stacks, listings and the grid's cells.                     *)
(***************************************************************************)
Stacks == {<<>>, <<"FavoriteVC">>, <<"Detail">>, <<"FavoriteVC", "Detail">>}

Pushed == {"FavoriteVC", "Detail"}

\* Appending to a sequence of one element gives the pair.
LEMMA AppendToOne ==
  ASSUME NEW S, NEW one \in Seq(S), Len(one) = 1, NEW y \in S,
         NEW two \in Seq(S), Len(two) = 2, two[1] = one[1], two[2] = y
  PROVE  Append(one, y) = two
<1>1. Append(one, y) \in Seq(S)
  OBVIOUS
<1>2. Len(Append(one, y)) = 2
  OBVIOUS
<1>3. Append(one, y)[1] = two[1]
  OBVIOUS
<1>4. Append(one, y)[2] = two[2]
  <2>1. Append(one, y)[Len(one) + 1] = y
    BY AppendProperties, Zenon
  <2>2. Len(one) + 1 = 2
    OBVIOUS
  <2> QED
    BY <2>1, <2>2, Zenon
<1>5. ASSUME NEW i \in 1 .. 2 PROVE Append(one, y)[i] = two[i]
  <2>1. i = 1 \/ i = 2
    OBVIOUS
  <2> QED
    BY <2>1, <1>3, <1>4
<1> QED
  BY <1>1, <1>2, <1>5, SeqEqual

\* Which screen is on top determines what a push or a pop leads to.
LEMMA StackMoves ==
  ASSUME stack \in Stacks
  PROVE  /\ Top = "root" => stack = <<>>
         /\ Top = "FavoriteVC" => stack = <<"FavoriteVC">>
         /\ Top = "Detail" => Front(stack) \in {<<>>, <<"FavoriteVC">>}
         /\ Top # "Detail" => Append(stack, "Detail") \in Stacks
<1>1. CASE stack = <<>>
  BY <1>1 DEF Stacks, Top
<1>2. CASE stack = <<"FavoriteVC">>
  <2>1. Append(stack, "Detail") = <<"FavoriteVC", "Detail">>
    <3>1. /\ stack \in Seq(Pushed) /\ Len(stack) = 1
          /\ <<"FavoriteVC", "Detail">> \in Seq(Pushed)
      BY <1>2 DEF Pushed
    <3>2. /\ Len(<<"FavoriteVC", "Detail">>) = 2
          /\ <<"FavoriteVC", "Detail">>[1] = stack[1]
          /\ <<"FavoriteVC", "Detail">>[2] = "Detail"
      BY <1>2
    <3>3. "Detail" \in Pushed
      BY DEF Pushed
    <3> QED
      BY <3>1, <3>2, <3>3, AppendToOne
  <2>2. Top = "FavoriteVC"
    BY <1>2 DEF Top, Last
  <2> QED
    BY <1>2, <2>1, <2>2 DEF Stacks
<1>3. CASE stack = <<"Detail">>
  <2>1. Front(stack) = <<>>
    BY <1>3, SubSeqEmpty DEF Front
  <2> QED
    BY <1>3, <2>1 DEF Top, Last
<1>4. CASE stack = <<"FavoriteVC", "Detail">>
  <2>1. stack \in Seq(Pushed) /\ Len(stack) = 2 /\ stack[1] = "FavoriteVC"
    BY <1>4 DEF Pushed
  <2>2. /\ Front(stack) \in Seq(Pushed)
        /\ Len(Front(stack)) = 1 /\ Front(stack)[1] = "FavoriteVC"
    <3>1. \A i \in 1 .. 1 : stack[i] \in Pushed
      BY <2>1
    <3>2. Front(stack) = SubSeq(stack, 1, 1)
      BY <2>1 DEF Front
    <3> QED
      BY <2>1, <3>1, <3>2, SubSeqProperties
  <2>3. Front(stack) = <<"FavoriteVC">>
    BY <2>2
  <2> QED
    BY <1>4, <2>3 DEF Top, Last
<1> QED
  BY <1>1, <1>2, <1>3, <1>4 DEF Stacks

\* A fetch that lists favourites yields a sequence of them.
LEMMA ListingIsSeq ==
  ASSUME NEW v \in SUBSET Favorite, IsFiniteSet(v), NEW q \in Listings(v)
  PROVE  /\ q \in Seq(Favorite)
         /\ CapturedIndices(q) \in Seq(Nat \ {0})
         /\ Len(CapturedIndices(q)) = Len(q)
<1>1. PICK r \in {v, {}} : q \in SetToSeqs(r)
  BY DEF Listings, getFavoriteOfCurrentUser
<1>2. Cardinality(r) \in Nat /\ r \subseteq Favorite
  BY <1>1, FS_CardinalityType, FS_EmptySet
<1>3. q \in [1 .. Cardinality(r) -> r]
  BY <1>1 DEF SetToSeqs
<1>4. q \in Seq(Favorite)
  BY <1>2, <1>3
<1>5. DOMAIN q = 1 .. Len(q) /\ Len(q) \in Nat
  BY <1>4, LenProperties
<1> QED
  BY <1>4, <1>5 DEF CapturedIndices

\* deleteItems shortens the list of cells by one.
LEMMA RemoveAtShortens ==
  ASSUME NEW S, NEW s \in Seq(S), NEW k \in 1 .. Len(s)
  PROVE  RemoveAt(s, k) \in Seq(S) /\ Len(RemoveAt(s, k)) = Len(s) - 1
<1>1. /\ Len(s) \in Nat
      /\ \A i \in 1 .. Len(s) : s[i] \in S
  BY LenProperties, ElementOfSeq
<1> DEFINE before == SubSeq(s, 1, k - 1)
           after == SubSeq(s, k + 1, Len(s))
<1>2. before \in Seq(S) /\ Len(before) = k - 1
  BY <1>1, SubSeqProperties
<1>3. after \in Seq(S) /\ Len(after) = Len(s) - k
  BY <1>1, SubSeqProperties
<1>4. RemoveAt(s, k) = before \o after
  BY DEF RemoveAt
<1> HIDE DEF before, after
<1>5. /\ before \o after \in Seq(S)
      /\ Len(before \o after) = Len(before) + Len(after)
  BY <1>2, <1>3, ConcatProperties
<1>6. Len(before) + Len(after) = Len(s) - 1
  BY <1>1, <1>2, <1>3
<1> QED
  BY <1>4, <1>5, <1>6

----------------------------------------------------------------------------
(***************************************************************************)
(* The inductive invariant.  An insert keeps its object in Favorite only   *)
(* if the detail screen has an animal, that animal may come from the grid, *)
(* and an unsave removes a cell only if the grid has as many as favourites.*)
(***************************************************************************)
DetailHasAnimal == Top = "Detail" => animal \in Species

Inv == StoreInv /\ TypeOK /\ DetailHasAnimal /\ GridMatchesDataSource

\* The actions that touch neither the context nor the rows.
Quiet ==
  \/ OpenFavorites \/ LeaveFavorites
  \/ \E p \in DOMAIN cells : CellReused(p)
  \/ \E p \in DOMAIN favorites : OpenFromFavorites(p)
  \/ \E s \in Species : OpenFromCatalogue(s)
  \/ LeaveDetail \/ NameCellReused \/ HeartTapRaises \/ RefreshSnapshot
  \/ EnterForeground \/ Killed
  \/ UNCHANGED vars

\* They leave the store as it is.
LEMMA QuietKeepsStore ==
  ASSUME Quiet PROVE UNCHANGED store
<1>1. CASE OpenFavorites \/ LeaveFavorites \/ \E p \in DOMAIN cells : CellReused(p)
  BY <1>1 DEF OpenFavorites, LeaveFavorites, CellReused
<1>2. CASE \/ \E p \in DOMAIN favorites : OpenFromFavorites(p)
           \/ \E s \in Species : OpenFromCatalogue(s)
  BY <1>2 DEF OpenFromFavorites, OpenFromCatalogue, OpenDetail
<1>3. CASE LeaveDetail \/ NameCellReused \/ HeartTapRaises \/ RefreshSnapshot
  BY <1>3 DEF LeaveDetail, NameCellReused, HeartTapRaises, RefreshSnapshot
<1>4. CASE EnterForeground \/ Killed \/ UNCHANGED vars
  BY <1>4 DEF EnterForeground, Killed, vars
<1> QED
  BY <1>1, <1>2, <1>3, <1>4 DEF Quiet

\* Every step is one of these, or an unsave, a heart tap, a move to the
\* background or a launch.
LEMMA StepCases ==
  ASSUME [Next]_vars
  PROVE  \/ Quiet
         \/ \E p \in DOMAIN cells : Unsave(p)
         \/ HeartTap \/ EnterBackground \/ Launch
BY DEF Next, Quiet

\* No step changes the environment.
LEMMA EnvironmentFixed ==
  ASSUME [Next]_vars PROVE UNCHANGED env
<1>1. CASE Quiet
  <2>1. CASE OpenFavorites \/ LeaveFavorites \/ \E p \in DOMAIN cells : CellReused(p)
    BY <2>1 DEF OpenFavorites, LeaveFavorites, CellReused
  <2>2. CASE \/ \E p \in DOMAIN favorites : OpenFromFavorites(p)
             \/ \E s \in Species : OpenFromCatalogue(s)
    BY <2>2 DEF OpenFromFavorites, OpenFromCatalogue, OpenDetail
  <2>3. CASE LeaveDetail \/ NameCellReused \/ HeartTapRaises \/ RefreshSnapshot
    BY <2>3 DEF LeaveDetail, NameCellReused, HeartTapRaises, RefreshSnapshot
  <2>4. CASE EnterForeground \/ Killed \/ UNCHANGED vars
    BY <2>4 DEF EnterForeground, Killed, vars
  <2> QED
    BY <1>1, <2>1, <2>2, <2>3, <2>4 DEF Quiet
<1>2. ASSUME NEW p \in DOMAIN cells, Unsave(p) PROVE UNCHANGED env
  BY <1>2 DEF Unsave
<1>3. CASE HeartTap \/ EnterBackground \/ Launch
  BY <1>3 DEF HeartTap, EnterBackground, Launch
<1> QED
  BY <1>1, <1>2, <1>3, StepCases

\* What the steps that change the store do to it, in the terms of
\* DurableFavorites.
StoreStep ==
  \/ \E o \in Favorite : Abstract!Add(o) \/ Abstract!Remove(o)
  \/ Abstract!Flush
  \/ Abstract!Crash
  \/ UNCHANGED <<Visible, disk>>

\* A deletion is a removal, or else a flush or nothing at all.
LEMMA DeleteRefines ==
  ASSUME StoreInv, NEW o, deleteFavorite(o)
  PROVE  StoreInv' /\ StoreStep
<1>1. /\ StoreInv'
      /\ Visible' = Visible \ {o}
      /\ disk' = Visible' \/ disk' = disk
  BY DeleteEffect
<1>2. CASE o \in Visible
  <2>1. o \in Favorite
    BY <1>2 DEF Visible, StoreInv
  <2>2. Abstract!Remove(o)
    BY <1>1, <1>2 DEF Abstract!Remove, Abstract!WriteThrough
  <2> QED
    BY <1>1, <2>1, <2>2 DEF StoreStep
<1>3. CASE o \notin Visible
  <2>1. Visible' = Visible
    BY <1>1, <1>3
  <2> QED
    BY <1>1, <2>1 DEF StoreStep, Abstract!Flush
<1> QED
  BY <1>2, <1>3

\* Each step keeps the store in order and implements a step, or a stutter, of
\* DurableFavorites.
LEMMA StoreStepLemma ==
  ASSUME Inv, [Next]_vars
  PROVE  StoreInv' /\ StoreStep
<1>1. CASE Quiet
  <2>1. UNCHANGED <<disk, ins, del, created>>
    BY <1>1, QuietKeepsStore DEF store
  <2> QED
    BY <2>1 DEF Inv, StoreInv, Numbered, StoreStep, Visible
<1>2. ASSUME NEW p \in DOMAIN cells, Unsave(p) PROVE StoreInv' /\ StoreStep
  <2>1. CASE UNCHANGED store
    <3>1. UNCHANGED <<disk, ins, del, created>>
      BY <2>1 DEF store
    <3> QED
      BY <3>1 DEF Inv, StoreInv, Numbered, StoreStep, Visible
  <2>2. CASE deleteFavorite(favorites[cells[p]])
    BY <2>2, DeleteRefines DEF Inv
  <2> QED
    BY <1>2, <2>1, <2>2 DEF Unsave
<1>3. CASE HeartTap
  <2>1. ASSUME NEW o, deleteFavorite(o) PROVE StoreInv' /\ StoreStep
    BY <2>1, DeleteRefines DEF Inv
  <2>2. CASE insertFavorite(animal)
    <3>1. animal \in Species
      BY <1>3 DEF HeartTap, Touch, Inv, DetailHasAnimal
    <3>2. /\ StoreInv'
          /\ disk' = Visible' \/ disk' = disk
      BY <3>1, <2>2, InsertEffect DEF Inv
    <3>3. PICK o \in Favorite : o \notin Visible \cup disk /\ Visible' = Visible \cup {o}
      BY <3>1, <2>2, InsertEffect DEF Inv
    <3>4. Abstract!Add(o)
      BY <3>2, <3>3 DEF Abstract!Add, Abstract!WriteThrough
    <3> QED
      BY <3>2, <3>4 DEF StoreStep
  <2> QED
    BY <1>3, <2>1, <2>2 DEF HeartTap
<1>4. CASE EnterBackground
  BY <1>4, BackgroundEffect DEF Inv, StoreStep, Abstract!Flush
<1>5. CASE Launch
  <2>1. Visible' = disk /\ disk' = disk
    BY <1>5 DEF Launch, Visible
  <2>2. IsFiniteSet(disk)
    BY FS_Subset DEF Inv, StoreInv
  <2>3. StoreInv'
    BY <1>5, <2>2 DEF Launch, Inv, StoreInv, Numbered
  <2> QED
    BY <2>1, <2>3 DEF StoreStep, Abstract!Crash
<1> QED
  BY <1>1, <1>2, <1>3, <1>4, <1>5, StepCases

----------------------------------------------------------------------------
(***************************************************************************)
(* The screens' part of the invariant.                                     *)
(***************************************************************************)
ScreenInv ==
  /\ app \in {"active", "background", "dead"}
  /\ stack \in Stacks
  /\ strip \subseteq Favorite
  /\ favorites \in Seq(Favorite) /\ cells \in Seq(Nat \ {0})
  /\ animal \in Species \cup {NoAnimal}
  /\ snapshot \subseteq Favorite
  /\ heart \in {"red", "white"}
  /\ refreshes \in Nat
  /\ DetailHasAnimal
  /\ GridMatchesDataSource

\* The invariant is the environment's, the store's and the screens' part.
LEMMA InvParts == Inv <=> env \in Environments /\ StoreInv /\ ScreenInv
BY DEF Inv, StoreInv, ScreenInv, TypeOK, Stacks

\* What a fetch returns, or lists, is made of favourites.
LEMMA FetchType ==
  ASSUME StoreInv
  PROVE  /\ \A r \in getFavoriteOfCurrentUser(Visible) : r \subseteq Favorite
         /\ \A q \in Listings(Visible) :
              /\ q \in Seq(Favorite)
              /\ CapturedIndices(q) \in Seq(Nat \ {0})
              /\ Len(CapturedIndices(q)) = Len(q)
<1>1. Visible \in SUBSET Favorite /\ Visible \in SUBSET (disk \cup ins)
  BY DEF StoreInv, Visible
<1>2. IsFiniteSet(Visible)
  BY <1>1, FS_Subset DEF StoreInv
<1> QED
  BY <1>1, <1>2, ListingIsSeq DEF getFavoriteOfCurrentUser

\* Opening the detail screen for a species from any screen but itself.
LEMMA OpenDetailScreen ==
  ASSUME StoreInv, ScreenInv, NEW s \in Species, Top # "Detail", OpenDetail(s)
  PROVE  ScreenInv'
<1>1. stack' \in Stacks
  BY StackMoves DEF OpenDetail, ScreenInv
<1>2. snapshot' \subseteq Favorite
  BY FetchType DEF OpenDetail
<1>3. /\ animal' = s /\ refreshes' = 0 /\ heart' \in {"red", "white"}
      /\ UNCHANGED <<app, strip, favorites, cells>>
  BY DEF OpenDetail, HeartColour, grid
<1> QED
  BY <1>1, <1>2, <1>3 DEF ScreenInv, DetailHasAnimal, GridMatchesDataSource

\* The steps that leave the store alone keep the screens in order.
LEMMA QuietScreens ==
  ASSUME StoreInv, ScreenInv, Quiet
  PROVE  ScreenInv'
<1> USE DEF ScreenInv, DetailHasAnimal, GridMatchesDataSource
<1>1. CASE OpenFavorites
  <2>1. /\ favorites' \in Seq(Favorite) /\ cells' \in Seq(Nat \ {0})
        /\ Len(favorites') = Len(cells')
    BY <1>1, FetchType DEF OpenFavorites
  <2>2. stack' \in Stacks /\ Top' # "Detail"
    BY <1>1 DEF OpenFavorites, Stacks, Top, Last
  <2> QED
    BY <1>1, <2>1, <2>2 DEF OpenFavorites, detail
<1>2. CASE LeaveFavorites
  <2>1. stack' \in Stacks /\ Top' # "Detail"
    BY <1>2 DEF LeaveFavorites, Stacks, Top
  <2> QED
    BY <1>2, <2>1, EmptySeq DEF LeaveFavorites, detail
<1>3. ASSUME NEW p \in DOMAIN cells, CellReused(p) PROVE ScreenInv'
  <2>1. p \in 1 .. Len(cells) /\ p \in Nat \ {0}
    BY LenProperties
  <2>2. cells' \in Seq(Nat \ {0}) /\ Len(cells') = Len(cells)
    BY <1>3, <2>1, ExceptSeq DEF CellReused
  <2>3. Top' = Top
    BY <1>3 DEF CellReused, Top
  <2> QED
    BY <1>3, <2>2, <2>3 DEF CellReused, detail
<1>4. ASSUME NEW p \in DOMAIN favorites, OpenFromFavorites(p) PROVE ScreenInv'
  <2>1. favorites[p] \in Favorite
    BY LenProperties, ElementOfSeq
  <2>2. favorites[p].species \in Species
    BY <2>1 DEF Favorite
  <2> QED
    BY <1>4, <2>2, OpenDetailScreen DEF OpenFromFavorites, Touch
<1>5. ASSUME NEW s \in Species, OpenFromCatalogue(s) PROVE ScreenInv'
  BY <1>5, OpenDetailScreen DEF OpenFromCatalogue, Touch
<1>6. CASE LeaveDetail
  <2>1. stack' \in {<<>>, <<"FavoriteVC">>}
    BY <1>6, StackMoves DEF LeaveDetail, Touch
  <2>2. stack' \in Stacks /\ Top' # "Detail"
    BY <2>1 DEF Stacks, Top, Last
  <2> QED
    BY <1>6, <2>2 DEF LeaveDetail, grid
<1>7. CASE NameCellReused
  BY <1>7 DEF NameCellReused, HeartColour, Top, grid
<1>8. CASE HeartTapRaises \/ Killed
  BY <1>8 DEF HeartTapRaises, Killed, Die, Top, grid, detail
<1>9. CASE RefreshSnapshot
  <2>1. snapshot' \subseteq Favorite
    BY <1>9, FetchType DEF RefreshSnapshot
  <2> QED
    BY <1>9, <2>1 DEF RefreshSnapshot, Top, grid
<1>10. CASE EnterForeground
  BY <1>10 DEF EnterForeground, Top, grid, detail
<1>11. CASE UNCHANGED vars
  BY <1>11 DEF vars, Top, grid, detail
<1> QED
  BY <1>1, <1>2, <1>3, <1>4, <1>5, <1>6, <1>7, <1>8, <1>9, <1>10, <1>11 DEF Quiet

\* An unsave takes the captured item out of the cells, or ends the process.
LEMMA UnsaveScreens ==
  ASSUME StoreInv, ScreenInv, StoreInv', NEW p \in DOMAIN cells, Unsave(p)
  PROVE  ScreenInv'
<1> USE DEF ScreenInv, DetailHasAnimal, GridMatchesDataSource
<1>1. CASE Die /\ UNCHANGED <<stack, strip, grid, detail>>
  BY <1>1 DEF Die, Top, grid, detail
<1>2. CASE /\ cells[p] \in DOMAIN favorites
           /\ favorites' \in Listings(Visible')
           /\ DeleteItems(cells[p], favorites') /\ PostFavoriteChanged
           /\ UNCHANGED <<app, stack, detail>>
  <2>1. favorites' \in Seq(Favorite) /\ strip' \subseteq Favorite
    <3>1. Visible' \in SUBSET Favorite /\ Visible' \in SUBSET (disk' \cup ins')
      BY DEF StoreInv, Visible
    <3>2. IsFiniteSet(Visible')
      BY <3>1, FS_Subset DEF StoreInv
    <3> QED
      BY <1>2, <3>1, <3>2, ListingIsSeq
      DEF PostFavoriteChanged, getFavoriteOfCurrentUser
  <2>2. app # "dead"
    BY DEF Unsave, Touch
  <2>3. cells[p] \in 1 .. Len(cells)
    BY <1>2, <2>2, LenProperties
  <2>4. cells' \in Seq(Nat \ {0}) /\ Len(cells') = Len(cells) - 1
    BY <1>2, <2>3, RemoveAtShortens DEF DeleteItems
  <2>5. Len(favorites') = Len(cells')
    <3>1. Len(favorites') + 1 = Len(cells)
      BY <1>2 DEF DeleteItems
    <3>2. Len(favorites') \in Nat /\ Len(cells) \in Nat
      BY <2>1, LenProperties
    <3> QED
      BY <2>4, <3>1, <3>2
  <2> QED
    BY <1>2, <2>1, <2>4, <2>5 DEF Top, detail
<1>3. CASE /\ favorites' \in Listings(Visible')
           /\ Die /\ UNCHANGED <<cells, strip, stack, detail>>
  <2>1. favorites' \in Seq(Favorite)
    <3>1. Visible' \in SUBSET Favorite /\ Visible' \in SUBSET (disk' \cup ins')
      BY DEF StoreInv, Visible
    <3>2. IsFiniteSet(Visible')
      BY <3>1, FS_Subset DEF StoreInv
    <3> QED
      BY <1>3, <3>1, <3>2, ListingIsSeq
  <2> QED
    BY <1>3, <2>1 DEF Die, Top, detail
<1> QED
  BY <1>1, <1>2, <1>3 DEF Unsave

\* The steps that change the store keep the screens in order too.
LEMMA ScreenStepLemma ==
  ASSUME Inv, [Next]_vars
  PROVE  ScreenInv'
<1>1. StoreInv /\ ScreenInv /\ StoreInv'
  BY InvParts, StoreStepLemma
<1> USE DEF ScreenInv, DetailHasAnimal, GridMatchesDataSource
<1>2. CASE Quiet
  BY <1>1, <1>2, QuietScreens
<1>3. ASSUME NEW p \in DOMAIN cells, Unsave(p) PROVE ScreenInv'
  BY <1>1, <1>3, UnsaveScreens
<1>4. CASE HeartTap
  <2>1. strip' \subseteq Favorite
    BY <1>1, <1>4
    DEF HeartTap, PostFavoriteChanged, getFavoriteOfCurrentUser, Visible, StoreInv
  <2>2. heart' \in {"red", "white"}
    BY <1>4 DEF HeartTap
  <2> QED
    BY <1>1, <1>4, <2>1, <2>2 DEF HeartTap, Top, grid
<1>5. CASE EnterBackground
  BY <1>1, <1>5, BackgroundEffect DEF EnterBackground, Top, grid, detail
<1>6. CASE Launch
  <2>1. strip' \subseteq Favorite
    BY <1>1, <1>6 DEF Launch, getFavoriteOfCurrentUser, StoreInv
  <2>2. stack' \in Stacks /\ Top' # "Detail"
    BY <1>6 DEF Launch, Stacks, Top
  <2> QED
    BY <1>6, <2>1, <2>2, EmptySeq DEF Launch
<1> QED
  BY <1>2, <1>3, <1>4, <1>5, <1>6, StepCases

\* The inductive invariant holds.
THEOREM Invariance == Spec => []Inv
<1>1. Init => Inv
  <2> SUFFICES ASSUME Init PROVE StoreInv /\ ScreenInv
    BY InvParts DEF Init
  <2>1. StoreInv
    BY FS_EmptySet, FavoritesAssumption
    DEF Init, StoreInv, Numbered, FavoritesAssumption
  <2>2. stack \in Stacks /\ Top # "Detail"
    BY DEF Init, Stacks, Top
  <2>3. ScreenInv
    BY <2>2, EmptySeq DEF Init, ScreenInv, DetailHasAnimal, GridMatchesDataSource
  <2> QED
    BY <2>1, <2>3
<1>2. Inv /\ [Next]_vars => Inv'
  <2> SUFFICES ASSUME Inv, [Next]_vars PROVE Inv'
    OBVIOUS
  <2>1. StoreInv' /\ ScreenInv'
    BY StoreStepLemma, ScreenStepLemma
  <2>2. (env \in Environments)'
    BY EnvironmentFixed DEF Inv, TypeOK
  <2> QED
    BY <2>1, <2>2 DEF Inv, StoreInv, ScreenInv, TypeOK, Stacks
<1> QED
  BY <1>1, <1>2, PTL DEF Spec

\* Every variable keeps its type, and the context its bookkeeping, whatever
\* saves and fetches fail and wherever the process dies.
THEOREM TypeCorrect == Spec => []TypeOK
<1>1. Inv => TypeOK
  BY DEF Inv
<1> QED
  BY <1>1, Invariance, PTL

\* The grid always displays as many items as its data source has, or the process
\* is dead.
THEOREM GridSound == Spec => []GridMatchesDataSource
<1>1. Inv => GridMatchesDataSource
  BY DEF Inv
<1> QED
  BY <1>1, Invariance, PTL

\* Favorites implements DurableFavorites: the rows on disk are always a whole
\* earlier set of favourites, through failing saves, crashes and relaunches.
THEOREM Refinement == Spec => ImplementsDurableFavorites
<1>1. Init => Abstract!Init
  BY DEF Init, Abstract!Init, Visible
<1>2. Inv /\ [Next]_vars => [Abstract!Next]_(Abstract!vars)
  <2> SUFFICES ASSUME Inv, [Next]_vars PROVE [Abstract!Next]_(Abstract!vars)
    OBVIOUS
  <2>1. StoreStep
    BY StoreStepLemma
  <2> QED
    BY <2>1 DEF StoreStep, Abstract!Next, Abstract!vars
<1> QED
  BY <1>1, <1>2, Invariance, PTL DEF Spec, ImplementsDurableFavorites, Abstract!Spec

----------------------------------------------------------------------------
(***************************************************************************)
(* The home strip and the background.                                      *)
(***************************************************************************)
\* The steps that leave the store alone neither touch the strip nor revive a
\* process nor send it to the background.
LEMMA QuietApp ==
  ASSUME Quiet
  PROVE  /\ UNCHANGED <<Visible, disk, strip>>
         /\ app' \in {app, "active", "dead"}
         /\ app = "dead" => app' = "dead"
<1>1. UNCHANGED <<Visible, disk>>
  BY QuietKeepsStore DEF store, Visible
<1>2. CASE OpenFavorites \/ LeaveFavorites \/ \E p \in DOMAIN cells : CellReused(p)
  BY <1>1, <1>2 DEF OpenFavorites, LeaveFavorites, CellReused
<1>3. CASE \/ \E p \in DOMAIN favorites : OpenFromFavorites(p)
           \/ \E s \in Species : OpenFromCatalogue(s)
  BY <1>1, <1>3 DEF OpenFromFavorites, OpenFromCatalogue, OpenDetail
<1>4. CASE LeaveDetail \/ NameCellReused \/ HeartTapRaises \/ RefreshSnapshot
  BY <1>1, <1>4
  DEF LeaveDetail, NameCellReused, HeartTapRaises, RefreshSnapshot, Die
<1>5. CASE EnterForeground \/ Killed \/ UNCHANGED vars
  BY <1>1, <1>5 DEF EnterForeground, Killed, Die, vars
<1> QED
  BY <1>2, <1>3, <1>4, <1>5 DEF Quiet

\* The home strip never shows a favourite that is gone, and without fetch
\* failures shows exactly the favourites there are.
THEOREM HomeStripSound == Spec => []HomeStripFresh
<1> USE DEF HomeStripFresh
<1>1. Init => HomeStripFresh
  BY DEF Init, Visible
<1>2. Inv /\ HomeStripFresh /\ [Next]_vars => HomeStripFresh'
  <2> SUFFICES ASSUME Inv, HomeStripFresh, [Next]_vars PROVE HomeStripFresh'
    OBVIOUS
  <2> UNCHANGED env
    BY EnvironmentFixed
  <2>1. CASE Quiet
    BY <2>1, QuietApp
  <2>2. CASE PostFavoriteChanged
    BY <2>2 DEF PostFavoriteChanged, getFavoriteOfCurrentUser
  <2>3. CASE app' = "dead"
    BY <2>3
  <2>4. ASSUME NEW p \in DOMAIN cells, Unsave(p) PROVE HomeStripFresh'
    BY <2>2, <2>3, <2>4 DEF Unsave, Die
  <2>5. CASE HeartTap
    BY <2>2, <2>5 DEF HeartTap
  <2>6. CASE EnterBackground
    <3>1. Visible' = Visible /\ strip' = strip /\ app # "dead"
      BY <2>6, BackgroundEffect DEF EnterBackground, Inv
    <3> QED
      BY <3>1
  <2>7. CASE Launch
    BY <2>7 DEF Launch, getFavoriteOfCurrentUser, Visible
  <2> QED
    BY <2>1, <2>4, <2>5, <2>6, <2>7, StepCases
<1> QED
  BY <1>1, <1>2, Invariance, PTL DEF Spec

\* In the background every favourite is on disk, however many earlier saves
\* failed.
THEOREM BackgroundDurable == Spec => []BackgroundIsDurable
<1> USE DEF BackgroundIsDurable
<1>1. Init => BackgroundIsDurable
  BY DEF Init
<1>2. Inv /\ BackgroundIsDurable /\ [Next]_vars => BackgroundIsDurable'
  <2> SUFFICES ASSUME Inv, BackgroundIsDurable, [Next]_vars
               PROVE  BackgroundIsDurable'
    OBVIOUS
  <2>1. CASE Quiet
    BY <2>1, QuietApp
  <2>2. ASSUME NEW p \in DOMAIN cells, Unsave(p) PROVE BackgroundIsDurable'
    BY <2>2 DEF Unsave, Touch, Die
  <2>3. CASE HeartTap \/ Launch
    BY <2>3 DEF HeartTap, Touch, Launch
  <2>4. CASE EnterBackground
    BY <2>4, BackgroundEffect DEF Inv
  <2> QED
    BY <2>1, <2>2, <2>3, <2>4, StepCases
<1> QED
  BY <1>1, <1>2, Invariance, PTL DEF Spec

----------------------------------------------------------------------------
(***************************************************************************)
(* The heart button.  It can only keep species unique, and its colour only *)
(* be right, if its snapshot is what a fetch would show now; and after a   *)
(* crash the rows on disk, which are then shown, must be unique as well.   *)
(***************************************************************************)
NoTwins(S) == \A o1, o2 \in S : o1.species = o2.species => o1 = o2

DetailFresh ==
  app # "dead" /\ Top = "Detail" =>
    /\ heart = "red" <=> animal \in SpeciesOf(Visible)
    /\ refreshes = 0 => snapshot = Visible

HeartInv == NoTwins(Visible) /\ NoTwins(disk) /\ DetailFresh

\* The steps that leave the store alone keep the detail screen up to date.
LEMMA QuietHeart ==
  ASSUME Patient, Inv, HeartInv, Quiet
  PROVE  HeartInv'
<1>1. UNCHANGED <<Visible, disk>> /\ (app = "dead" => app' = "dead")
  BY QuietApp
<1>2. \A r \in getFavoriteOfCurrentUser(Visible) : r = Visible
  BY DEF getFavoriteOfCurrentUser, Patient
<1>3. (NoTwins(Visible) /\ NoTwins(disk))'
  BY <1>1 DEF HeartInv, NoTwins
<1>4. ASSUME NEW s, OpenDetail(s) PROVE DetailFresh'
  <2>1. snapshot' = Visible /\ Visible' = Visible /\ animal' = s
    BY <1>1, <1>2, <1>4 DEF OpenDetail
  <2>2. heart' = "red" <=> s \in SpeciesOf(Visible)
    BY <1>4, <2>1 DEF OpenDetail, HeartColour
  <2> QED
    BY <2>1, <2>2 DEF DetailFresh, SpeciesOf
<1>5. DetailFresh'
  <2>1. CASE OpenFavorites \/ LeaveFavorites
    BY <2>1 DEF OpenFavorites, LeaveFavorites, DetailFresh, Top, Last
  <2>2. CASE \E p \in DOMAIN cells : CellReused(p)
    BY <2>2 DEF CellReused, DetailFresh, Top
  <2>3. CASE \/ \E p \in DOMAIN favorites : OpenFromFavorites(p)
             \/ \E s \in Species : OpenFromCatalogue(s)
    BY <2>3, <1>4 DEF OpenFromFavorites, OpenFromCatalogue
  <2>4. CASE LeaveDetail
    <3>1. stack' \in {<<>>, <<"FavoriteVC">>}
      BY <2>4, StackMoves, InvParts DEF LeaveDetail, Touch, ScreenInv
    <3> QED
      BY <3>1 DEF DetailFresh, Top, Last
  <2>5. CASE NameCellReused
    <3>1. snapshot = Visible
      BY <2>5 DEF NameCellReused, Touch, Patient, HeartInv, DetailFresh
    <3>2. heart' = "red" <=> animal \in SpeciesOf(Visible)
      BY <2>5, <3>1 DEF NameCellReused, HeartColour
    <3> QED
      BY <2>5, <1>1, <3>1, <3>2 DEF NameCellReused, DetailFresh, SpeciesOf
  <2>6. CASE HeartTapRaises \/ Killed
    BY <2>6 DEF HeartTapRaises, Killed, Die, DetailFresh
  <2>7. CASE RefreshSnapshot
    <3>1. /\ snapshot' = Visible /\ app # "dead"
          /\ UNCHANGED <<heart, animal, stack>>
      BY <2>7, <1>2 DEF RefreshSnapshot
    <3> QED
      BY <1>1, <3>1 DEF HeartInv, DetailFresh, SpeciesOf, Top
  <2>8. CASE EnterForeground \/ UNCHANGED vars
    <3>1. UNCHANGED <<stack, heart, animal, snapshot, refreshes>>
      BY <2>8 DEF EnterForeground, vars, detail
    <3> QED
      BY <1>1, <3>1 DEF HeartInv, DetailFresh, SpeciesOf, Top
  <2> QED
    BY <2>1, <2>2, <2>3, <2>4, <2>5, <2>6, <2>7, <2>8 DEF Quiet
<1> QED
  BY <1>3, <1>5 DEF HeartInv

\* A tap adds a favourite of a species that has none, or removes the only one.
LEMMA TapHeart ==
  ASSUME Patient, Inv, HeartInv, HeartTap
  PROVE  HeartInv'
<1>1. snapshot = Visible /\ animal \in Species
  BY DEF HeartTap, Touch, Patient, HeartInv, DetailFresh, Inv, DetailHasAnimal
<1>2. snapshot \ Registered = {}
  BY <1>1 DEF Registered, Visible
<1>3. /\ UNCHANGED <<app, stack, animal>> /\ refreshes' # 0
  BY DEF HeartTap, Inv, TypeOK
<1>4. ASSUME NEW o \in Visible, o.species = animal, deleteFavorite(o), heart' = "white"
      PROVE  HeartInv'
  <2>1. Visible' = Visible \ {o} /\ (disk' = Visible' \/ disk' = disk)
    BY <1>4, DeleteEffect DEF Inv
  <2>2. (NoTwins(Visible) /\ NoTwins(disk))'
    BY <2>1 DEF HeartInv, NoTwins
  <2>3. animal \notin SpeciesOf(Visible \ {o})
    BY <1>4 DEF HeartInv, NoTwins, SpeciesOf
  <2>4. animal' \notin SpeciesOf(Visible')
    BY <1>3, <2>1, <2>3
  <2> QED
    BY <1>3, <1>4, <2>2, <2>4 DEF HeartInv, DetailFresh, SpeciesOf
<1>5. ASSUME \A o \in Visible : o.species # animal,
             insertFavorite(animal), heart' = "red"
      PROVE  HeartInv'
  <2>1. disk' = Visible' \/ disk' = disk
    BY <1>1, <1>5, InsertEffect DEF Inv
  <2>2. PICK o \in Favorite : o.species = animal /\ Visible' = Visible \cup {o}
    BY <1>1, <1>5, InsertEffect DEF Inv
  <2>3. (NoTwins(Visible) /\ NoTwins(disk))'
    BY <1>5, <2>1, <2>2 DEF HeartInv, NoTwins
  <2>4. animal' \in SpeciesOf(Visible')
    BY <1>3, <2>2 DEF SpeciesOf
  <2> QED
    BY <1>3, <1>5, <2>3, <2>4 DEF HeartInv, DetailFresh, SpeciesOf
<1>6. PICK lost \in SUBSET (snapshot \ Registered) :
        \/ \E o \in Matches(lost) : deleteFavorite(o) /\ heart' = "white"
        \/ Matches(lost) = {} /\ insertFavorite(animal) /\ heart' = "red"
  BY DEF HeartTap
<1>7. Matches(lost) = {o \in Visible : o.species = animal}
  BY <1>1, <1>2, <1>6 DEF Matches
<1> QED
  BY <1>4, <1>5, <1>6, <1>7

\* When the queued refresh runs before the next touch and fetches do not fail,
\* there is at most one favourite per species and the heart tells the truth,
\* across failing saves, crashes and relaunches.
THEOREM HeartSound == Spec => [](UniqueSpecies /\ HeartTruthful)
<1> DEFINE Guarded == Patient => HeartInv
<1>1. Init => Guarded
  BY DEF Init, HeartInv, NoTwins, Visible, DetailFresh, Top
<1>2. Inv /\ Guarded /\ [Next]_vars => Guarded'
  <2> SUFFICES ASSUME Inv, HeartInv, [Next]_vars, Patient
               PROVE  HeartInv'
    BY EnvironmentFixed DEF Patient
  <2>1. CASE Quiet
    BY <2>1, QuietHeart
  <2>2. CASE HeartTap
    BY <2>2, TapHeart
  <2>3. ASSUME NEW p \in DOMAIN cells, Unsave(p) PROVE HeartInv'
    <3>1. Top' = "FavoriteVC"
      BY <2>3 DEF Unsave, Touch, Top
    <3>2. /\ Visible' \subseteq Visible
          /\ disk' = Visible' \/ disk' = disk
      <4>1. CASE UNCHANGED store
        BY <4>1 DEF store, Visible
      <4>2. CASE deleteFavorite(favorites[cells[p]])
        BY <4>2, DeleteEffect DEF Inv
      <4> QED
        BY <2>3, <4>1, <4>2 DEF Unsave
    <3> QED
      BY <3>1, <3>2 DEF HeartInv, NoTwins, DetailFresh
  <2>4. CASE EnterBackground
    <3>1. /\ Visible' = Visible
          /\ disk' = Visible' \/ disk' = disk
          /\ UNCHANGED <<stack, heart, animal, snapshot, refreshes>>
          /\ app # "dead"
      BY <2>4, BackgroundEffect DEF EnterBackground, Inv, detail
    <3> QED
      BY <3>1 DEF HeartInv, NoTwins, DetailFresh, SpeciesOf, Top
  <2>5. CASE Launch
    BY <2>5 DEF Launch, HeartInv, NoTwins, Visible, DetailFresh, Top
  <2> QED
    BY <2>1, <2>2, <2>3, <2>4, <2>5, StepCases
<1>3. Guarded => UniqueSpecies /\ HeartTruthful
  BY DEF HeartInv, NoTwins, DetailFresh, UniqueSpecies, HeartTruthful
<1> QED
  BY <1>1, <1>2, <1>3, Invariance, PTL DEF Spec

\* The first half of HeartSound on its own: no species is stored twice.
THEOREM SpeciesStoredOnce == Spec => []UniqueSpecies
BY HeartSound, PTL
==============================================================================
