---------------------------- MODULE RecordsProofs ----------------------------
(***************************************************************************)
(* Proofs about Records, for any number of forms, submissions and other    *)
(* users.                                                                  *)
(*                                                                         *)
(* NoSavedPetMissing speaks of a list that has settled; what makes it true *)
(* happens while the query is in flight.  The invariant adds that the      *)
(* loading view of the pets covers their list exactly as long as a query   *)
(* is in flight (so nobody submits a record meanwhile), and that from the  *)
(* answer on the records of the user are all in what will be shown.        *)
(***************************************************************************)
EXTENDS Records, TLAPS

Mine == setData(stored \cup writing)

\* A form on the screen, or being left, has a number.
Numbered == "form" \in {screen, leaving} => form # 0

\* The pets: the loading view and the query go together, over the list.
Covers ==
  kind = "pets" =>
    /\ covered <=> query # "idle"
    /\ covered => screen = "list" /\ leaving = "none"

\* The pets: what the stages of a query know.
Current ==
  kind = "pets" /\ screen = "list" /\ leaving = "none" =>
    /\ query = "arrived" => Mine \subseteq result
    /\ query \in {"ending", "idle"} /\ ~failed => Mine \subseteq shown

RInv == TypeOK /\ Numbered /\ Covers /\ Current

----------------------------------------------------------------------------
(***************************************************************************)
(* Opening a list.                                                         *)
(***************************************************************************)
\* The list as it is first opened.
LEMMA InitSound == Init => RInv
<1> SUFFICES ASSUME Init PROVE RInv
  OBVIOUS
<1>1. /\ 0 \in 0 .. MaxVisits /\ 0 \in 0 .. MaxTaps
      /\ kind \in {"pets", "health"}
  BY RecordsAssumption DEF Init
<1>2. covered \in BOOLEAN
  BY DEF Init
<1>3. TypeOK
  BY <1>1, <1>2 DEF Init, TypeOK
<1>4. Numbered
  BY DEF Init, Numbered
<1>5. Covers
  BY DEF Init, Covers
<1>6. Current
  BY DEF Init, Current
<1> QED
  BY <1>3, <1>4, <1>5, <1>6 DEF RInv

\* The list opened again.
LEMMA OpenListKeeps == ASSUME RInv, OpenList PROVE RInv'
<1>1. covered' \in BOOLEAN
  BY DEF OpenList
<1>2. TypeOK'
  BY <1>1 DEF RInv, TypeOK, OpenList, cloud
<1>3. Numbered'
  BY DEF RInv, Numbered, OpenList
<1>4. Covers'
  BY DEF RInv, Covers, OpenList
<1>5. Current'
  BY DEF Current, OpenList
<1> QED
  BY <1>2, <1>3, <1>4, <1>5 DEF RInv

----------------------------------------------------------------------------
(***************************************************************************)
(* Reading.                                                                *)
(***************************************************************************)
\* What a list reads is the user's own.
LEMMA MineTyped ==
  ASSUME TypeOK
  PROVE  Mine \subseteq [owner : {Me}, no : 1 .. MaxTaps, form : 1 .. MaxVisits]
<1> SUFFICES ASSUME NEW r \in Mine
             PROVE  r \in [owner : {Me}, no : 1 .. MaxTaps, form : 1 .. MaxVisits]
  OBVIOUS
<1>1. r \in Record /\ r.owner = Me
  BY DEF Mine, setData, TypeOK
<1>2. r \notin [owner : Foreign, no : {0}, form : {0}]
  BY <1>1, RecordsAssumption
<1> QED
  BY <1>1, <1>2 DEF Record

\* The answers to a query, and the blocks they queue.
LEMMA ReadKeeps == ASSUME RInv, Read PROVE RInv'
<1>1. TypeOK'
  <2>1. CASE QueryAnswered
    BY <2>1, MineTyped DEF RInv, TypeOK, QueryAnswered, Mine, cloud
  <2>2. CASE PetsQueryFails
    BY <2>2 DEF RInv, TypeOK, PetsQueryFails, cloud
  <2>3. CASE HealthQueryFails
    BY <2>3 DEF RInv, TypeOK, HealthQueryFails, cloud
  <2>4. CASE ShowRecords
    BY <2>4 DEF RInv, TypeOK, ShowRecords, cloud
  <2>5. CASE Uncover
    BY <2>5 DEF RInv, TypeOK, Uncover, cloud
  <2> QED
    BY <2>1, <2>2, <2>3, <2>4, <2>5 DEF Read
<1>2. Numbered'
  BY DEF RInv, Numbered, Read, QueryAnswered, PetsQueryFails, HealthQueryFails,
         ShowRecords, Uncover
<1>3. Covers'
  BY DEF RInv, Covers, Read, QueryAnswered, PetsQueryFails, HealthQueryFails,
         ShowRecords, Uncover
<1>4. Mine' = Mine
  BY DEF Mine, setData, Read, QueryAnswered, PetsQueryFails, HealthQueryFails,
         ShowRecords, Uncover, cloud
<1>5. Current'
  <2>1. CASE QueryAnswered
    BY <1>4, <2>1 DEF RInv, Current, QueryAnswered, Mine
  <2>2. CASE PetsQueryFails
    BY <1>4, <2>2 DEF RInv, Current, PetsQueryFails
  <2>3. CASE HealthQueryFails
    BY <2>3 DEF Current, HealthQueryFails
  <2>4. CASE ShowRecords
    BY <1>4, <2>4 DEF RInv, Current, ShowRecords
  <2>5. CASE Uncover
    BY <1>4, <2>5 DEF RInv, Current, Uncover
  <2> QED
    BY <2>1, <2>2, <2>3, <2>4, <2>5 DEF Read
<1> QED
  BY <1>1, <1>2, <1>3, <1>5 DEF RInv

----------------------------------------------------------------------------
(***************************************************************************)
(* Moving between the screens.                                             *)
(***************************************************************************)
\* Forms, details and the back button.
LEMMA MoveKeeps == ASSUME RInv, OpenForm \/ OpenDetail \/ Back PROVE RInv'
<1>1. TypeOK'
  BY RecordsAssumption DEF RInv, TypeOK, OpenForm, OpenDetail, Back, list, cloud
<1>2. Numbered'
  BY DEF RInv, TypeOK, Numbered, OpenForm, OpenDetail, Back
<1>3. Covers'
  BY DEF RInv, Covers, OpenForm, OpenDetail, Back, list
<1>4. Current'
  BY DEF RInv, TypeOK, Current, OpenForm, OpenDetail, Back
<1> QED
  BY <1>1, <1>2, <1>3, <1>4 DEF RInv

\* The end of a pop.
LEMMA ArriveKeeps == ASSUME RInv, Arrive PROVE RInv'
<1>1. TypeOK'
  BY DEF RInv, TypeOK, Arrive, Appear, list, cloud
<1>2. Numbered'
  BY DEF RInv, Numbered, Arrive
<1>3. Covers'
  BY DEF RInv, Covers, Arrive, Appear, list
<1>4. Current'
  BY DEF Current, Arrive, Appear
<1> QED
  BY <1>1, <1>2, <1>3, <1>4 DEF RInv

----------------------------------------------------------------------------
(***************************************************************************)
(* Writing.                                                                *)
(***************************************************************************)
\* A record is submitted from a form, where no query of the pets is in flight.
LEMMA SubmitKeeps == ASSUME RInv, Submit PROVE RInv'
<1> DEFINE r == [owner |-> Me, no |-> taps + 1, form |-> form]
<1>1. r \in Record /\ taps' \in 0 .. MaxTaps
  <2>1. form \in 1 .. MaxVisits /\ taps + 1 \in 1 .. MaxTaps
    BY RecordsAssumption DEF RInv, TypeOK, Numbered, Submit
  <2> QED
    BY <2>1 DEF Record, Submit
<1>2. writing' = writing \cup {r}
  BY DEF Submit
<1> HIDE DEF r
<1>3. TypeOK'
  BY <1>1, <1>2 DEF RInv, TypeOK, Submit, list
<1>4. Numbered' /\ Covers' /\ Current'
  BY DEF RInv, Numbered, Covers, Current, Submit, list
<1> QED
  BY <1>3, <1>4 DEF RInv

\* An acknowledgement moves a record and may pop a screen; an error drops it.
LEMMA AnswerKeeps ==
  ASSUME RInv, NEW r \in writing, WriteAcknowledged(r) \/ WriteFails(r)
  PROVE  RInv'
<1>1. /\ writing' \cup stored' \subseteq writing \cup stored
      /\ Mine' \subseteq Mine
      /\ UNCHANGED <<kind, form, covered, query, result, shown, failed, taps>>
  BY DEF WriteAcknowledged, WriteFails, Mine, setData, list
<1>2. \/ UNCHANGED <<screen, leaving>>
      \/ /\ "form" \in {screen, leaving} /\ leaving' = "form"
         /\ screen' \in {"list", "gone"}
         /\ screen = "form" \/ leaving = "form"
  BY DEF WriteAcknowledged, WriteFails, Pop
<1>3. TypeOK'
  BY <1>1, <1>2 DEF RInv, TypeOK
<1>4. Numbered'
  BY <1>1, <1>2 DEF RInv, Numbered
<1>5. Covers'
  BY <1>1, <1>2 DEF RInv, Covers
<1>6. Current'
  BY <1>1, <1>2 DEF RInv, Current
<1> QED
  BY <1>3, <1>4, <1>5, <1>6 DEF RInv

\* Another user's record is not one of the user's own.
LEMMA ForeignKeeps == ASSUME RInv, NEW u \in Foreign, ForeignWrite(u) PROVE RInv'
<1> DEFINE r == [owner |-> u, no |-> 0, form |-> 0]
<1>1. r \in Record /\ r.owner # Me
  BY RecordsAssumption DEF Record
<1>2. stored' = stored \cup {r} /\ writing' = writing
  BY DEF ForeignWrite
<1> HIDE DEF r
<1>3. Mine' = Mine
  BY <1>1, <1>2 DEF Mine, setData
<1>4. TypeOK'
  BY <1>1, <1>2 DEF RInv, TypeOK, ForeignWrite, list
<1>5. Numbered' /\ Covers' /\ Current'
  BY <1>3 DEF RInv, Numbered, Covers, Current, ForeignWrite, list
<1> QED
  BY <1>4, <1>5 DEF RInv

----------------------------------------------------------------------------
(***************************************************************************)
(* The theorems.                                                           *)
(***************************************************************************)
\* Every step, and every step that changes nothing, keeps the invariant.
LEMMA StepSound == RInv /\ [Next]_vars => RInv'
<1> SUFFICES ASSUME RInv, [Next]_vars PROVE RInv'
  OBVIOUS
<1>1. CASE UNCHANGED vars
  BY <1>1 DEF vars, list, cloud, RInv, TypeOK, Numbered, Covers, Current, Mine, setData
<1> QED
  BY <1>1, OpenListKeeps, ReadKeeps, MoveKeeps, ArriveKeeps, SubmitKeeps,
     AnswerKeeps, ForeignKeeps DEF Next, didTapDoneAddPetButton, didAddNewPetHeath

\* The inductive invariant holds in every reachable state.
LEMMA RecordsSound == Spec => []RInv
BY InitSound, StepSound, PTL DEF Spec

\* Every variable keeps its type; what a list shows is the user's own.
THEOREM TypeCorrect == Spec => []TypeOK
<1>1. RInv => TypeOK
  BY DEF RInv
<1> QED
  BY <1>1, RecordsSound, PTL

\* A settled list of pets whose last query did not fail misses no saved pet.
THEOREM PetsSound == Spec => []NoSavedPetMissing
<1>1. RInv => NoSavedPetMissing
  BY DEF RInv, Current, NoSavedPetMissing, Mine
<1> QED
  BY <1>1, RecordsSound, PTL
==============================================================================
