---------------------------- MODULE CatalogProofs ----------------------------
(***************************************************************************)
(* Proofs about Catalog, for any documents, categories and environments:   *)
(* what a filter returns, by induction over the array it filters, and the  *)
(* invariants of the three screens.                                        *)
(***************************************************************************)
EXTENDS Catalog, SequenceTheorems, WellFoundedInduction, TLAPS

----------------------------------------------------------------------------
(***************************************************************************)
(* What a filter returns.                                                  *)
(***************************************************************************)
\* A set of numbers that is not empty has a least element,
LEMMA LeastElement ==
  ASSUME NEW T, T \subseteq Nat, T # {}
  PROVE  \E n \in T : \A m \in T : ~(m < n)
<1> DEFINE R == OpToRel(<, Nat)
<1>1. IsWellFoundedOn(R, Nat)
  BY NatLessThanWellFounded, Zenon
<1>2. \A n \in Nat, m \in Nat : m < n => <<m, n>> \in R
  BY Zenon DEF OpToRel
<1> HIDE DEF R
<1>3. \E n \in T : \A m \in T : ~(<<m, n>> \in R)
  BY <1>1, WFMin
<1> QED
  BY <1>2, <1>3

\* so that induction over the first numbers is a statement about sets.
LEMMA Induction ==
  ASSUME NEW T, NEW l \in Nat, 0 \in T,
         \A n \in 0 .. l : n < l /\ n \in T => n + 1 \in T
  PROVE  0 .. l \subseteq T
<1> DEFINE B == (0 .. l) \ T
<1> SUFFICES ASSUME B # {} PROVE FALSE
  OBVIOUS
<1>1. B \subseteq Nat
  OBVIOUS
<1> HIDE DEF B
<1>2. PICK n \in B : \A m \in B : ~(m < n)
  BY <1>1, LeastElement
<1>3. n \in 0 .. l /\ n \notin T
  BY <1>2 DEF B
<1>4. n - 1 \in 0 .. l /\ n - 1 < l /\ (n - 1) + 1 = n
  BY <1>3
<1>5. n - 1 \in T
  BY <1>2, <1>3, <1>4 DEF B
<1> QED
  BY <1>3, <1>4, <1>5

\* f is the recursion of Selections, as far as n.
Recurs(f, s, P, n) ==
  /\ f = [k \in 0 .. Len(s) |-> f[k]]
  /\ f[0] = <<>>
  /\ \A k \in 1 .. n : f[k] = IF s[k] \in P THEN Append(f[k - 1], s[k]) ELSE f[k - 1]

\* There is such a function, so Selections is one.
LEMMA SelectionsRecur ==
  ASSUME NEW S, NEW s \in Seq(S), NEW P
  PROVE  Recurs(Selections(s, P), s, P, Len(s))
<1> DEFINE l == Len(s)
           next(f, n) == IF s[n] \in P THEN Append(f[n - 1], s[n]) ELSE f[n - 1]
           body(f) == [n \in 0 .. l |-> IF n = 0 THEN <<>> ELSE next(f, n)]
           T == {n \in 0 .. l : \E f : Recurs(f, s, P, n)}
<1>1. l \in Nat
  BY LenProperties
<1>2. 0 \in T
  <2> DEFINE f == [n \in 0 .. l |-> <<>>]
  <2>1. Recurs(f, s, P, 0)
    BY <1>1 DEF Recurs
  <2> QED
    BY <1>1, <2>1
<1>3. ASSUME NEW n \in 0 .. l, n < l, n \in T PROVE n + 1 \in T
  <2>1. PICK f : Recurs(f, s, P, n)
    BY <1>3
  <2> DEFINE x == IF s[n + 1] \in P THEN Append(f[n], s[n + 1]) ELSE f[n]
             g == [k \in 0 .. l |-> IF k = n + 1 THEN x ELSE f[k]]
  <2>2. n + 1 \in 0 .. l /\ n + 1 # 0 /\ 0 \in 0 .. l
    BY <1>1, <1>3
  <2>3. g[n + 1] = x /\ g[n] = f[n] /\ g[0] = f[0]
    BY <1>1, <1>3, <2>2
  <2>4. \A k \in 1 .. n : g[k] = f[k] /\ g[k - 1] = f[k - 1]
    BY <1>1, <1>3
  <2>5. g = [k \in 0 .. l |-> g[k]]
    OBVIOUS
  <2> HIDE DEF g
  <2>6. ASSUME NEW k \in 1 .. n + 1
        PROVE  g[k] = IF s[k] \in P THEN Append(g[k - 1], s[k]) ELSE g[k - 1]
    <3>1. CASE k \in 1 .. n
      BY <2>1, <2>4, <3>1 DEF Recurs
    <3>2. CASE k = n + 1
      BY <1>1, <2>3, <3>2
    <3> QED
      BY <1>1, <3>1, <3>2
  <2>7. Recurs(g, s, P, n + 1)
    BY <2>1, <2>3, <2>5, <2>6 DEF Recurs
  <2> QED
    BY <2>2, <2>7
<1>4. l \in T
  <2> HIDE DEF T
  <2>1. 0 .. l \subseteq T
    BY <1>1, <1>2, <1>3, Induction
  <2> QED
    BY <1>1, <2>1
<1>5. PICK f : Recurs(f, s, P, l)
  BY <1>4
<1>6. f = body(f)
  <2>1. \A n \in 0 .. l : f[n] = IF n = 0 THEN <<>> ELSE next(f, n)
    <3>1. f[0] = <<>> /\ \A n \in 1 .. l : f[n] = next(f, n)
      BY <1>5 DEF Recurs
    <3>2. \A n \in 0 .. l : n = 0 \/ (n # 0 /\ n \in 1 .. l)
      BY <1>1
    <3> HIDE DEF next, l
    <3> QED
      BY <3>1, <3>2
  <2>2. f = [n \in 0 .. l |-> f[n]]
    BY <1>5 DEF Recurs
  <2> QED
    BY <2>1, <2>2
<1>7. Selections(s, P) = CHOOSE h : h = body(h)
  BY DEF Selections
<1>8. Selections(s, P) = body(Selections(s, P))
  BY <1>6, <1>7
<1> DEFINE F == Selections(s, P)
<1> HIDE DEF l, F
<1>9. F = [n \in 0 .. l |-> F[n]] /\ \A n \in 0 .. l : F[n] = IF n = 0 THEN <<>> ELSE next(F, n)
  BY <1>8 DEF F
<1> QED
  BY <1>1, <1>9 DEF Recurs, l, F

\* What a filter returns: elements of s that are in P, no more than s has, and
\* all of s when P has them all.
LEMMA SelectedProperties ==
  ASSUME NEW S, NEW s \in Seq(S), NEW P
  PROVE  /\ Selected(s, P) \in Seq(S)
         /\ Len(Selected(s, P)) <= Len(s)
         /\ \A i \in 1 .. Len(Selected(s, P)) : Selected(s, P)[i] \in P
         /\ S \subseteq P => Selected(s, P) = s
<1> DEFINE l == Len(s)
           F == Selections(s, P)
           T == {n \in 0 .. l : /\ F[n] \in Seq(S) /\ Len(F[n]) <= n
                                /\ \A i \in 1 .. Len(F[n]) : F[n][i] \in P
                                /\ S \subseteq P => /\ Len(F[n]) = n
                                                    /\ \A i \in 1 .. n : F[n][i] = s[i]}
<1>1. l \in Nat /\ (\A n \in 1 .. l : s[n] \in S)
  BY LenProperties, ElementOfSeq
<1>2. F[0] = <<>> /\ \A n \in 1 .. l : F[n] = IF s[n] \in P THEN Append(F[n - 1], s[n]) ELSE F[n - 1]
  BY SelectionsRecur DEF Recurs
<1> HIDE DEF F
<1>3. 0 \in T
  <2>1. <<>> \in Seq(S) /\ Len(<<>>) = 0
    BY EmptySeq
  <2>2. F[0] \in Seq(S) /\ Len(F[0]) = 0
    BY <1>2, <2>1
  <2>3. 0 \in 0 .. l /\ 1 .. 0 = {} /\ 0 <= 0
    BY <1>1
  <2> HIDE DEF l
  <2> QED
    BY <2>2, <2>3
<1>4. ASSUME NEW n \in 0 .. l, n < l, n \in T PROVE n + 1 \in T
  <2> DEFINE x == s[n + 1]
             y == F[n]
             m == Len(y)
  <2>1. /\ n + 1 \in 1 .. l /\ n + 1 \in 0 .. l /\ (n + 1) - 1 = n /\ n \in Nat
        /\ x \in S
    BY <1>1, <1>4
  <2>2. /\ y \in Seq(S) /\ m <= n
        /\ \A i \in 1 .. m : y[i] \in P
        /\ S \subseteq P => m = n /\ \A i \in 1 .. n : y[i] = s[i]
    BY <1>4
  <2>3. F[n + 1] = IF x \in P THEN Append(y, x) ELSE y
    BY <1>2, <2>1
  <2>4. m \in Nat
    BY <2>2, LenProperties
  <2>5. CASE x \in P
    <3> DEFINE z == Append(y, x)
    <3>1. /\ z \in Seq(S) /\ Len(z) = m + 1
          /\ \A i \in 1 .. m : z[i] = y[i]
          /\ z[m + 1] = x
      BY <2>1, <2>2, AppendProperties
    <3> HIDE DEF z
    <3>2. F[n + 1] = z
      BY <2>3, <2>5 DEF z
    <3>3. Len(z) <= n + 1
      BY <2>1, <2>2, <2>4, <3>1
    <3> HIDE DEF y, m, x
    <3>4. \A i \in 1 .. m + 1 : i \in 1 .. m \/ i = m + 1
      BY <2>4
    <3>5. \A i \in 1 .. Len(z) : z[i] \in P
      BY <2>2, <2>5, <3>1, <3>4
    <3>6. S \subseteq P => Len(z) = n + 1 /\ \A i \in 1 .. n + 1 : z[i] = s[i]
      BY <2>2, <3>1, <3>4 DEF x
    <3> QED
      BY <2>1, <3>1, <3>2, <3>3, <3>5, <3>6
  <2>6. CASE x \notin P
    BY <1>1, <2>1, <2>2, <2>3, <2>4, <2>6
  <2> QED
    BY <2>5, <2>6
<1>5. l \in T
  <2> HIDE DEF T
  <2>1. 0 .. l \subseteq T
    BY <1>1, <1>3, <1>4, Induction
  <2> QED
    BY <1>1, <2>1
<1>6. /\ F[l] \in Seq(S) /\ Len(F[l]) <= l
      /\ \A i \in 1 .. Len(F[l]) : F[l][i] \in P
      /\ S \subseteq P => Len(F[l]) = l /\ \A i \in 1 .. l : F[l][i] = s[i]
  BY <1>5
<1>7. Selected(s, P) = F[l]
  BY DEF Selected, F
<1>8. S \subseteq P => F[l] = s
  BY <1>6, SeqEqual
<1> QED
  BY <1>6, <1>7, <1>8

----------------------------------------------------------------------------
(***************************************************************************)
(* The list: a tap opens what is displayed.                                *)
(***************************************************************************)
\* The list displays the array a tap indexes, or its own reload is queued.
GridCurrent == kind = "list" /\ "grid" \notin queued => shown = cell

\* A reload of the table replaces the captured array and leaves a reload of the
\* grid behind, or there is no grid.
LEMMA ReloadKeeps ==
  ASSUME NEW q, Reload(q), kind' = kind
  PROVE  GridCurrent'
BY DEF Reload, GridCurrent

\* Every step keeps it.
LEMMA StepSound == GridCurrent /\ [Next]_vars => GridCurrent'
<1> SUFFICES ASSUME GridCurrent, [Next]_vars PROVE GridCurrent'
  OBVIOUS
<1>1. CASE UNCHANGED vars
  BY <1>1 DEF vars, view, GridCurrent
<1>2. CASE Load
  <2>1. ASSUME NEW s \in Snapshots,
               ListAnswered(s) \/ HandBookAnswered(s) \/ TrainingAnswered(s)
        PROVE  GridCurrent'
    BY <2>1 DEF ListAnswered, HandBookAnswered, TrainingAnswered, view, GridCurrent
  <2>2. CASE ListFailed \/ PostsFailed
    BY <2>2 DEF ListFailed, PostsFailed, view, GridCurrent
  <2>3. CASE ListLoaded \/ HandBookLoaded \/ TrainingLoaded
    BY <2>3, ReloadKeeps DEF ListLoaded, HandBookLoaded, TrainingLoaded
  <2> QED
    BY <1>2, <2>1, <2>2, <2>3 DEF Load
<1>3. ASSUME NEW t \in Types, tapCategory(t) \/ tapCategoryOnHome(t)
      PROVE  GridCurrent'
  <2>1. CASE tapCategory(t)
    BY <2>1, ReloadKeeps DEF tapCategory
  <2>2. CASE tapCategoryOnHome(t)
    BY <2>2 DEF tapCategoryOnHome, view, GridCurrent
  <2> QED
    BY <1>3, <2>1, <2>2
<1>4. ASSUME NEW v \in Words \cup {Blank}, didStartSearch(v) PROVE GridCurrent'
  BY <1>4 DEF didStartSearch, view, GridCurrent
<1>5. CASE onSearch
  <2>1. CASE kind = "list"
    BY <1>5, <2>1 DEF onSearch, GridCurrent
  <2>2. CASE kind # "list"
    BY <1>5, <2>2 DEF onSearch, GridCurrent
  <2> QED
    BY <2>1, <2>2
<1>6. CASE didTapRemoveText
  BY <1>6, ReloadKeeps DEF didTapRemoveText
<1>7. CASE ReloadTable
  BY <1>7, ReloadKeeps DEF ReloadTable
<1>8. CASE ReloadGrid
  BY <1>8 DEF ReloadGrid, GridCurrent
<1> QED
  BY <1>1, <1>2, <1>3, <1>4, <1>5, <1>6, <1>7, <1>8 DEF Next

\* When a touch reaches the list and queued reloads run before it, the animal
\* displayed at an index is the one a tap there opens.
THEOREM TapSound == Spec => []TapOpensShown
<1>1. Init => GridCurrent
  BY DEF Init, GridCurrent
<1>2. GridCurrent => TapOpensShown
  BY DEF GridCurrent, TapOpensShown, Touch
<1> QED
  BY <1>1, <1>2, StepSound, PTL DEF Spec

----------------------------------------------------------------------------
(***************************************************************************)
(* The handbook and training: what the rows display.                       *)
(***************************************************************************)
\* Nothing is stored before the documents arrive, or in training before the
\* block that displays them has run.
Unloaded == query \in {"asked", "failed"} \/ (kind = "training" /\ query = "arrived")

\* A filtered array is no longer than the one it was filtered from, and the rows
\* are those of the current array, or there are none yet.
RowsFollow ==
  kind # "list" =>
    /\ Unloaded => all = <<>>
    /\ Len(filtered) <= Len(all)
    /\ shown = Rows \/ shown = <<>>

\* A chosen category is a filter, and the filtered array has only its documents.
CategoryFiltered ==
  kind # "list" /\ animalType # Blank =>
    /\ isFilter
    /\ \A i \in 1 .. Len(filtered) : TypeOf[filtered[i]] = animalType

\* Until the load is done a screen that is covered stays as it began.
CoveredUntilDone ==
  ~env.overlayMayMiss /\ kind # "list" /\ query # "done" =>
    overlay /\ timers = 0 /\ animalType = Blank /\ ~isFilter

CInv == TypeOK /\ RowsFollow /\ CategoryFiltered /\ CoveredUntilDone /\ BlankSearchShowsAll

\* The documents of a category are among those filtered.
LEMMA OfTypeProperties ==
  ASSUME NEW s \in Seq(Items), NEW t
  PROVE  /\ OfType(s, t) \in Seq(Items)
         /\ Len(OfType(s, t)) <= Len(s)
         /\ \A i \in 1 .. Len(OfType(s, t)) : TypeOf[OfType(s, t)[i]] = t
<1> DEFINE P == {i \in Items : TypeOf[i] = t}
<1>1. \A i \in P : TypeOf[i] = t
  OBVIOUS
<1> HIDE DEF P
<1>2. OfType(s, t) = Selected(s, P)
  BY DEF OfType, P
<1> QED
  BY <1>1, <1>2, SelectedProperties

\* So are those a search finds, and they are of the category chosen.
LEMMA FoundProperties ==
  ASSUME NEW s \in Seq(Items), NEW t, NEW v
  PROVE  /\ Found(s, t, v) \in Seq(Items)
         /\ Len(Found(s, t, v)) <= Len(s)
         /\ t # Blank => \A i \in 1 .. Len(Found(s, t, v)) : TypeOf[Found(s, t, v)[i]] = t
<1> DEFINE P == {i \in Items : /\ TypeOf[i] = t \/ (t = Blank /\ kind # "list")
                               /\ Contains(i, v)}
<1>1. t # Blank => \A i \in P : TypeOf[i] = t
  OBVIOUS
<1> HIDE DEF P
<1>2. Found(s, t, v) = Selected(s, P)
  BY DEF Found, P
<1> QED
  BY <1>1, <1>2, SelectedProperties

\* Where contains("") is true, a search for nothing finds the whole category, or
\* every document when none is chosen.
LEMMA FoundBlank ==
  ASSUME NEW s \in Seq(Items), NEW t, kind # "list", env.emptyMatches
  PROVE  Found(s, t, Blank) = IF t = Blank THEN s ELSE OfType(s, t)
<1> DEFINE P == {i \in Items : /\ TypeOf[i] = t \/ (t = Blank /\ kind # "list")
                               /\ Contains(i, Blank)}
<1>1. \A i : Contains(i, Blank)
  BY DEF Contains
<1>2. CASE t = Blank
  <2>1. Items \subseteq P
    BY <1>1, <1>2
  <2> HIDE DEF P
  <2>2. Selected(s, P) = s
    BY <2>1, SelectedProperties
  <2> QED
    BY <1>2, <2>2 DEF Found, P
<1>3. CASE t # Blank
  <2>1. P = {i \in Items : TypeOf[i] = t}
    BY <1>1, <1>3
  <2> QED
    BY <1>3, <2>1 DEF Found, OfType
<1> QED
  BY <1>2, <1>3

\* A reload of the handbook or of training displays the current array.
LEMMA ReloadShows ==
  ASSUME NEW q, Reload(q), kind # "list"
  PROVE  shown' = Rows'
BY DEF Reload

\* A reload displays documents, and queues at most the grid.
LEMMA ReloadTypes ==
  ASSUME NEW q, Reload(q), TypeOK, kind' = kind, isFilter' \in BOOLEAN,
         all' \in Seq(Items), filtered' \in Seq(Items),
         q \subseteq IF kind = "list" THEN {"table", "grid"} ELSE {}
  PROVE  /\ cell' \in Seq(Items) /\ shown' \in Seq(Items)
         /\ queued' \subseteq IF kind' = "list" THEN {"table", "grid"} ELSE {}
<1>1. Rows' \in Seq(Items)
  BY DEF Rows
<1>2. cell \in Seq(Items) /\ shown \in Seq(Items)
  BY DEF TypeOK
<1>3. CASE kind = "list"
  BY <1>1, <1>2, <1>3 DEF Reload
<1>4. CASE kind # "list"
  BY <1>1, <1>2, <1>4 DEF Reload
<1> QED
  BY <1>3, <1>4

\* Every step keeps the types.
LEMMA TypeStep == TypeOK /\ [Next]_vars => TypeOK'
<1> SUFFICES ASSUME TypeOK, [Next]_vars PROVE TypeOK'
  OBVIOUS
<1> USE CatalogAssumption
<1>1. CASE UNCHANGED vars
  BY <1>1 DEF vars, data, search, view, TypeOK
<1>2. CASE Load
  <2>1. ASSUME NEW s \in Snapshots,
               ListAnswered(s) \/ HandBookAnswered(s) \/ TrainingAnswered(s)
        PROVE  TypeOK'
    BY <2>1 DEF ListAnswered, HandBookAnswered, TrainingAnswered, data, search, view, TypeOK
  <2>2. CASE ListFailed \/ PostsFailed
    BY <2>2 DEF ListFailed, PostsFailed, data, search, view, TypeOK
  <2>3. CASE ListLoaded \/ HandBookLoaded \/ TrainingLoaded
    <3>1. /\ Reload(queued) /\ kind' = kind /\ isFilter' \in BOOLEAN
          /\ all' \in Seq(Items) /\ filtered' \in Seq(Items)
      BY <2>3 DEF ListLoaded, HandBookLoaded, TrainingLoaded, data, TypeOK
    <3>2. /\ cell' \in Seq(Items) /\ shown' \in Seq(Items)
          /\ queued' \subseteq IF kind' = "list" THEN {"table", "grid"} ELSE {}
      BY <3>1, ReloadTypes DEF TypeOK
    <3> QED
      BY <2>3, <3>1, <3>2 DEF ListLoaded, HandBookLoaded, TrainingLoaded, data, search, TypeOK
  <2> QED
    BY <1>2, <2>1, <2>2, <2>3 DEF Load
<1>3. ASSUME NEW t \in Types, tapCategory(t) PROVE TypeOK'
  <2>1. /\ Reload(queued) /\ kind' = kind /\ isFilter' \in BOOLEAN
        /\ all' \in Seq(Items) /\ filtered' \in Seq(Items)
    BY <1>3, OfTypeProperties DEF tapCategory, TypeOK
  <2>2. /\ cell' \in Seq(Items) /\ shown' \in Seq(Items)
        /\ queued' \subseteq IF kind' = "list" THEN {"table", "grid"} ELSE {}
    BY <2>1, ReloadTypes DEF TypeOK
  <2> QED
    BY <1>3, <2>1, <2>2 DEF tapCategory, search, TypeOK
<1>4. ASSUME NEW t \in Types, tapCategoryOnHome(t) PROVE TypeOK'
  BY <1>4 DEF tapCategoryOnHome, search, view, TypeOK
<1>5. ASSUME NEW v \in Words \cup {Blank}, didStartSearch(v) PROVE TypeOK'
  BY <1>5 DEF didStartSearch, data, view, TypeOK
<1>6. CASE onSearch
  <2>1. /\ kind' = kind /\ isFilter' \in BOOLEAN
        /\ all' \in Seq(Items) /\ filtered' \in Seq(Items)
    BY <1>6, FoundProperties DEF onSearch, TypeOK
  <2>2. /\ cell' \in Seq(Items) /\ shown' \in Seq(Items)
        /\ queued' \subseteq IF kind' = "list" THEN {"table", "grid"} ELSE {}
    <3>1. CASE kind = "list"
      BY <1>6, <3>1 DEF onSearch, TypeOK
    <3>2. CASE kind # "list"
      <4>1. Reload(queued)
        BY <1>6, <3>2 DEF onSearch
      <4> QED
        BY <2>1, <4>1, ReloadTypes DEF TypeOK
    <3> QED
      BY <3>1, <3>2
  <2>3. timers' \in 0 .. MaxTimers
    BY <1>6 DEF onSearch, TypeOK
  <2> QED
    BY <1>6, <2>1, <2>2, <2>3 DEF onSearch, TypeOK
<1>7. CASE didTapRemoveText
  <2>1. /\ Reload(queued) /\ kind' = kind /\ isFilter' \in BOOLEAN
        /\ all' \in Seq(Items) /\ filtered' \in Seq(Items)
    BY <1>7, OfTypeProperties DEF didTapRemoveText, TypeOK
  <2>2. /\ cell' \in Seq(Items) /\ shown' \in Seq(Items)
        /\ queued' \subseteq IF kind' = "list" THEN {"table", "grid"} ELSE {}
    BY <2>1, ReloadTypes DEF TypeOK
  <2> QED
    BY <1>7, <2>1, <2>2 DEF didTapRemoveText, TypeOK
<1>8. CASE ReloadTable
  <2>1. /\ Reload(queued \ {"table"}) /\ kind' = kind /\ isFilter' \in BOOLEAN
        /\ all' \in Seq(Items) /\ filtered' \in Seq(Items)
    BY <1>8 DEF ReloadTable, data, TypeOK
  <2>2. /\ cell' \in Seq(Items) /\ shown' \in Seq(Items)
        /\ queued' \subseteq IF kind' = "list" THEN {"table", "grid"} ELSE {}
    BY <2>1, ReloadTypes DEF TypeOK
  <2> QED
    BY <1>8, <2>1, <2>2 DEF ReloadTable, data, search, TypeOK
<1>9. CASE ReloadGrid
  BY <1>9 DEF ReloadGrid, data, search, TypeOK
<1> QED
  BY <1>1, <1>2, <1>3, <1>4, <1>5, <1>6, <1>7, <1>8, <1>9 DEF Next

\* The steps that can happen in the handbook and in training.
LEMMA PostSteps ==
  ASSUME TypeOK, Next, kind # "list"
  PROVE  \/ \E s \in Snapshots : HandBookAnswered(s) \/ TrainingAnswered(s)
         \/ PostsFailed \/ HandBookLoaded \/ TrainingLoaded
         \/ \E t \in Types : tapCategory(t)
         \/ \E v \in Words \cup {Blank} : didStartSearch(v)
         \/ onSearch \/ didTapRemoveText
BY DEF TypeOK, Next, Load, ListAnswered, ListFailed, ListLoaded, tapCategoryOnHome,
       ReloadTable, ReloadGrid

\* While nothing is stored, nothing is displayed.
LEMMA UnloadedEmpty ==
  ASSUME TypeOK, RowsFollow, kind # "list", Unloaded
  PROVE  all = <<>> /\ filtered = <<>> /\ shown = <<>>
<1>1. all = <<>> /\ Len(all) = 0
  BY EmptySeq DEF RowsFollow
<1>2. filtered \in Seq(Items)
  BY DEF TypeOK
<1>3. Len(filtered) \in Nat /\ Len(filtered) <= 0
  BY <1>1, <1>2, LenProperties DEF RowsFollow
<1>4. filtered = <<>>
  BY <1>2, <1>3, EmptySeq
<1> QED
  BY <1>1, <1>4 DEF RowsFollow, Rows

\* A step that filters and displays the result: the array is no longer than the
\* one filtered, and has the documents of the chosen category.
LEMMA FilteredShows ==
  ASSUME TypeOK, RowsFollow, kind # "list", kind' = kind, query' = query, all' = all,
         NEW q, Reload(q), Len(filtered') <= Len(all),
         animalType' # Blank => /\ isFilter'
                                /\ \A i \in 1 .. Len(filtered') : TypeOf[filtered'[i]] = animalType'
  PROVE  RowsFollow' /\ CategoryFiltered'
<1>1. shown' = Rows'
  BY ReloadShows
<1>2. RowsFollow'
  BY <1>1 DEF RowsFollow, Unloaded
<1>3. CategoryFiltered'
  BY DEF CategoryFiltered
<1> QED
  BY <1>2, <1>3

\* Every step keeps the rows and the category.
LEMMA RowsStep ==
  ASSUME TypeOK, RowsFollow, CategoryFiltered, [Next]_vars
  PROVE  RowsFollow' /\ CategoryFiltered'
<1>1. CASE UNCHANGED vars
  BY <1>1 DEF vars, data, view, RowsFollow, CategoryFiltered, Unloaded, Rows
<1>2. kind' = kind
  BY <1>1 DEF Next, Load, ListAnswered, HandBookAnswered, TrainingAnswered, ListFailed,
     PostsFailed, ListLoaded, HandBookLoaded, TrainingLoaded, tapCategory,
     tapCategoryOnHome, didStartSearch, onSearch, didTapRemoveText, ReloadTable,
     ReloadGrid, vars
<1>3. SUFFICES ASSUME Next, kind # "list" PROVE RowsFollow' /\ CategoryFiltered'
  BY <1>1, <1>2 DEF RowsFollow, CategoryFiltered
<1>4. all \in Seq(Items) /\ filtered \in Seq(Items) /\ Len(filtered) \in Nat
  BY LenProperties DEF TypeOK
<1>5. ASSUME NEW s \in Snapshots, HandBookAnswered(s) PROVE RowsFollow' /\ CategoryFiltered'
  <2>1. filtered = <<>> /\ shown = <<>>
    BY <1>3, <1>5, UnloadedEmpty DEF HandBookAnswered, Unloaded
  <2>2. s \in Seq(Items)
    BY CatalogAssumption
  <2>3. Len(filtered) <= Len(s)
    BY <2>1, <2>2, EmptySeq, LenProperties
  <2>4. RowsFollow'
    BY <1>5, <2>1, <2>3 DEF HandBookAnswered, view, RowsFollow, Unloaded
  <2>5. CategoryFiltered'
    BY <1>5 DEF HandBookAnswered, CategoryFiltered
  <2> QED
    BY <2>4, <2>5
<1>6. ASSUME NEW s \in Snapshots, TrainingAnswered(s) PROVE RowsFollow' /\ CategoryFiltered'
  BY <1>6 DEF TrainingAnswered, data, view, RowsFollow, CategoryFiltered, Unloaded, Rows
<1>7. CASE PostsFailed
  BY <1>7 DEF PostsFailed, data, view, RowsFollow, CategoryFiltered, Unloaded, Rows
<1>8. CASE HandBookLoaded
  <2>1. shown' = Rows'
    BY <1>3, <1>8, ReloadShows DEF HandBookLoaded
  <2> QED
    BY <1>8, <2>1 DEF HandBookLoaded, data, RowsFollow, CategoryFiltered, Unloaded
<1>9. CASE TrainingLoaded
  <2>1. shown' = Rows'
    BY <1>3, <1>9, ReloadShows DEF TrainingLoaded
  <2>2. filtered = <<>>
    BY <1>3, <1>9, UnloadedEmpty DEF TrainingLoaded, Unloaded
  <2>3. Len(filtered) <= Len(arrived)
    BY <2>2, EmptySeq, LenProperties DEF TypeOK
  <2> QED
    BY <1>9, <2>1, <2>3 DEF TrainingLoaded, RowsFollow, CategoryFiltered, Unloaded
<1>10. ASSUME NEW t \in Types, tapCategory(t) PROVE RowsFollow' /\ CategoryFiltered'
  BY <1>3, <1>4, <1>10, OfTypeProperties, FilteredShows DEF tapCategory
<1>11. ASSUME NEW v \in Words \cup {Blank}, didStartSearch(v)
       PROVE  RowsFollow' /\ CategoryFiltered'
  BY <1>11 DEF didStartSearch, data, view, RowsFollow, CategoryFiltered, Unloaded, Rows
<1>12. CASE onSearch
  BY <1>3, <1>4, <1>12, FoundProperties, FilteredShows DEF onSearch
<1>13. CASE didTapRemoveText
  BY <1>3, <1>4, <1>13, OfTypeProperties, FilteredShows DEF didTapRemoveText
<1> QED
  BY <1>3, <1>5, <1>6, <1>7, <1>8, <1>9, <1>10, <1>11, <1>12, <1>13, PostSteps

\* Every step keeps the screen covered until the load is done, and an empty
\* search field showing the whole category from then on.
LEMMA BlankStep ==
  ASSUME TypeOK, CoveredUntilDone, BlankSearchShowsAll, [Next]_vars
  PROVE  CoveredUntilDone' /\ BlankSearchShowsAll'
<1>1. CASE UNCHANGED vars
  BY <1>1 DEF vars, data, search, view, CoveredUntilDone, BlankSearchShowsAll, OfType
<1>2. kind' = kind /\ env' = env
  BY <1>1 DEF Next, Load, ListAnswered, HandBookAnswered, TrainingAnswered, ListFailed,
     PostsFailed, ListLoaded, HandBookLoaded, TrainingLoaded, tapCategory,
     tapCategoryOnHome, didStartSearch, onSearch, didTapRemoveText, ReloadTable,
     ReloadGrid, vars
<1>3. SUFFICES ASSUME Next, kind # "list", ~env.overlayMayMiss
               PROVE  CoveredUntilDone' /\ BlankSearchShowsAll'
  BY <1>1, <1>2 DEF CoveredUntilDone, BlankSearchShowsAll
<1>4. all \in Seq(Items) /\ timers \in Nat
  BY CatalogAssumption DEF TypeOK
<1>5. overlay \/ query = "done"
  BY <1>3 DEF CoveredUntilDone
<1>6. ASSUME NEW s \in Snapshots, HandBookAnswered(s) \/ TrainingAnswered(s)
      PROVE  CoveredUntilDone' /\ BlankSearchShowsAll'
  BY <1>2, <1>3, <1>6 DEF HandBookAnswered, TrainingAnswered, data, search, CoveredUntilDone,
     BlankSearchShowsAll
<1>7. CASE PostsFailed
  BY <1>2, <1>3, <1>7 DEF PostsFailed, data, search, CoveredUntilDone, BlankSearchShowsAll
<1>8. CASE HandBookLoaded \/ TrainingLoaded
  <2>1. query # "done" /\ query' = "done"
    BY <1>8 DEF HandBookLoaded, TrainingLoaded
  <2>2. animalType' = Blank /\ ~isFilter'
    BY <1>3, <1>8, <2>1 DEF HandBookLoaded, TrainingLoaded, data, CoveredUntilDone
  <2>3. shown' = all'
    BY <1>3, <1>8, <2>2, ReloadShows DEF HandBookLoaded, TrainingLoaded, Rows
  <2> QED
    BY <2>1, <2>2, <2>3 DEF CoveredUntilDone, BlankSearchShowsAll
<1>9. ASSUME NEW t \in Types, tapCategory(t) PROVE CoveredUntilDone' /\ BlankSearchShowsAll'
  <2>1. query' = "done"
    BY <1>5, <1>9 DEF tapCategory, Touch
  <2>2. shown' = OfType(all, t)
    BY <1>3, <1>9, ReloadShows DEF tapCategory, Rows
  <2>3. t # Blank
    BY CatalogAssumption
  <2>4. animalType' = t /\ all' = all
    BY <1>9 DEF tapCategory
  <2> QED
    BY <2>1, <2>2, <2>3, <2>4 DEF CoveredUntilDone, BlankSearchShowsAll, OfType
<1>10. ASSUME NEW v \in Words \cup {Blank}, didStartSearch(v)
       PROVE  CoveredUntilDone' /\ BlankSearchShowsAll'
  <2>1. query' = "done"
    BY <1>5, <1>10 DEF didStartSearch, Touch
  <2>2. timers' # 0
    BY <1>4, <1>10 DEF didStartSearch
  <2> QED
    BY <2>1, <2>2 DEF CoveredUntilDone, BlankSearchShowsAll
<1>11. CASE onSearch
  <2>1. query' = "done"
    <3>1. timers # 0
      BY <1>4, <1>11 DEF onSearch
    <3> QED
      BY <1>3, <1>11, <3>1 DEF onSearch, CoveredUntilDone
  <2>2. shown' = Found(all, animalType, text)
    BY <1>3, <1>11, ReloadShows DEF onSearch, Rows
  <2>3. all' = all /\ animalType' = animalType /\ text' = text
    BY <1>11 DEF onSearch
  <2>4. env.emptyMatches /\ text = Blank =>
          shown' = IF animalType = Blank THEN all ELSE OfType(all, animalType)
    BY <1>3, <1>4, <2>2, FoundBlank
  <2> QED
    BY <1>2, <2>1, <2>3, <2>4 DEF CoveredUntilDone, BlankSearchShowsAll, OfType
<1>12. CASE didTapRemoveText
  <2>1. query' = "done"
    BY <1>5, <1>12 DEF didTapRemoveText, Touch
  <2>2. shown' = IF animalType # Blank THEN OfType(all, animalType) ELSE all
    BY <1>3, <1>12, ReloadShows DEF didTapRemoveText, Rows
  <2>3. all' = all /\ animalType' = animalType
    BY <1>12 DEF didTapRemoveText
  <2> QED
    BY <2>1, <2>2, <2>3 DEF CoveredUntilDone, BlankSearchShowsAll, OfType
<1> QED
  BY <1>3, <1>6, <1>7, <1>8, <1>9, <1>10, <1>11, <1>12, PostSteps

\* CInv holds at the start and every step keeps it.
LEMMA CatalogInvariant == Spec => []CInv
<1>1. Init => CInv
  <2> SUFFICES ASSUME Init PROVE CInv
    OBVIOUS
  <2>1. <<>> \in Seq(Items) /\ Len(<<>>) = 0
    BY EmptySeq
  <2>2. TypeOK
    <3>1. {arrived, all, filtered, cell, shown} \subseteq Seq(Items)
      BY <2>1 DEF Init
    <3>2. overlay \in BOOLEAN /\ isFilter \in BOOLEAN /\ removable \in BOOLEAN
      BY DEF Init
    <3>3. timers \in 0 .. MaxTimers
      BY CatalogAssumption DEF Init
    <3>4. animalType \in Types \cup {Blank} /\ text \in Words \cup {Blank}
      BY DEF Init
    <3> QED
      BY <3>1, <3>2, <3>3, <3>4 DEF Init, TypeOK
  <2>3. RowsFollow
    BY <2>1 DEF Init, RowsFollow
  <2>4. CategoryFiltered /\ CoveredUntilDone /\ BlankSearchShowsAll
    BY DEF Init, CategoryFiltered, CoveredUntilDone, BlankSearchShowsAll
  <2> QED
    BY <2>2, <2>3, <2>4 DEF CInv
<1>2. CInv /\ [Next]_vars => CInv'
  BY TypeStep, RowsStep, BlankStep DEF CInv
<1> QED
  BY <1>1, <1>2, PTL DEF Spec

\* Every variable has its type.
THEOREM TypeCorrect == Spec => []TypeOK
<1>1. CInv => TypeOK
  BY DEF CInv
<1> QED
  BY <1>1, CatalogInvariant, PTL

\* In the handbook and in training every displayed row has an element in the
\* unfiltered array, which a tap indexes, and in the current one, which scrolling
\* indexes, whatever order load, timers and taps come in.
THEOREM RowsSound == Spec => []RowsInRange
<1>1. CInv => RowsInRange
  <2> SUFFICES ASSUME CInv, kind # "list" PROVE DOMAIN shown \subseteq DOMAIN all \cap DOMAIN Rows
    BY DEF RowsInRange
  <2>1. /\ all \in Seq(Items) /\ filtered \in Seq(Items) /\ isFilter \in BOOLEAN
        /\ Len(filtered) <= Len(all)
        /\ shown = Rows \/ shown = <<>>
    BY DEF CInv, TypeOK, RowsFollow
  <2>2. /\ DOMAIN all = 1 .. Len(all) /\ DOMAIN filtered = 1 .. Len(filtered)
        /\ Len(all) \in Nat /\ Len(filtered) \in Nat
    BY <2>1, LenProperties
  <2>3. DOMAIN Rows \subseteq DOMAIN all
    BY <2>1, <2>2 DEF Rows
  <2>4. DOMAIN <<>> = {}
    BY EmptySeq, LenProperties
  <2> QED
    BY <2>1, <2>3, <2>4
<1> QED
  BY <1>1, CatalogInvariant, PTL

\* Once a category is chosen in the handbook or in training, no late timer, no
\* removal of the search text and no late load displays a document of another.
THEOREM CategorySound == Spec => []CategoryRespected
<1>1. CInv => CategoryRespected
  <2> SUFFICES ASSUME CInv, kind # "list", animalType # Blank, NEW i \in DOMAIN shown
               PROVE  TypeOf[shown[i]] = animalType
    BY DEF CategoryRespected
  <2>1. shown \in Seq(Items) /\ isFilter
    BY DEF CInv, TypeOK, CategoryFiltered
  <2>2. i \in 1 .. Len(shown)
    BY <2>1, LenProperties
  <2>3. shown # <<>>
    BY <2>2, EmptySeq
  <2>4. shown = filtered
    BY <2>1, <2>3 DEF CInv, RowsFollow, Rows
  <2> QED
    BY <2>2, <2>4 DEF CInv, CategoryFiltered
<1> QED
  BY <1>1, CatalogInvariant, PTL

\* In the handbook and in training, once the load is done and the timers have
\* run, an empty search field shows the whole category, or everything.
THEOREM BlankSearchSound == Spec => []BlankSearchShowsAll
<1>1. CInv => BlankSearchShowsAll
  BY DEF CInv
<1> QED
  BY <1>1, CatalogInvariant, PTL
==============================================================================
