------------------------------- MODULE Records -------------------------------
(***************************************************************************)
(* The two lists of records a user keeps: the pets (ListPetViewController  *)
(* and AddPetViewController, "pets") and the health book                   *)
(* (PetHealthBookViewController and NewPetHeathVC, "health").  Each list   *)
(* reads a whole collection that all users share and keeps the records of  *)
(* the current profile; a form adds a record and pops itself when the      *)
(* write is acknowledged.  The pets are read whenever their list appears,  *)
(* the health book once.                                                   *)
(*                                                                         *)
(* Firestore shows a client its own writes before they are acknowledged.   *)
(***************************************************************************)
EXTENDS Naturals, FiniteSets

CONSTANTS
  Kinds,         \* the lists considered
  Me,            \* uid of the current profile
  Foreign,       \* uids of other users
  MaxTaps,       \* bound: records submitted
  MaxVisits      \* bound: forms opened

ASSUME RecordsAssumption ==
  /\ Kinds \subseteq {"pets", "health"}
  /\ Me \notin Foreign
  /\ MaxTaps \in Nat /\ MaxVisits \in Nat

VARIABLES
  kind,     \* which of the two this is
  screen,   \* "list", "form", "detail", or "gone" when the list was popped
  leaving,  \* the screen whose pop is being animated, or "none"; touches are
            \* ignored meanwhile
  form,     \* number of the newest form
  covered,  \* the loading view covers the list
  query,    \* "idle", "asked", "arrived" (its block is queued), or "ending"
            \* (only the removal of the loading view is still to come)
  result,   \* the records that block carries
  shown,    \* petInformations, heathBooks
  failed,   \* history: the last query that ended failed
  taps,     \* submissions so far
  writing,  \* records sent and not yet acknowledged
  stored    \* the collection

list  == <<covered, query, result, shown, failed>>
cloud == <<writing, stored>>
vars  == <<kind, screen, leaving, form, list, taps, cloud>>

\* A record: who stamped it, and the tap and the form it comes from.
Record == [owner : {Me}, no : 1 .. MaxTaps, form : 1 .. MaxVisits]
          \cup [owner : Foreign, no : {0}, form : {0}]

\* Mutation: every user's records are kept.
setData_All(s) == s

\* setPetData, setData: the records of the current profile.
setData(s) == {r \in s : r.owner = Me}

\* Mutation: the pets are read once, like the health book.
Appear_Once == UNCHANGED list

\* viewDidAppear of the list.
Appear ==
  IF kind = "pets"
    THEN covered' = TRUE /\ query' = "asked" /\ UNCHANGED <<result, shown, failed>>
    ELSE UNCHANGED list

\* A list is opened.  The health book presents its loading view from
\* viewDidLoad, which UIKit may refuse.
Init ==
  /\ kind \in Kinds
  /\ screen = "list" /\ leaving = "none" /\ form = 0
  /\ covered \in IF kind = "pets" THEN {TRUE} ELSE BOOLEAN
  /\ query = "asked" /\ result = {} /\ shown = {} /\ failed = FALSE
  /\ taps = 0 /\ writing = {} /\ stored = {}

OpenList ==
  /\ screen = "gone" /\ leaving = "none"
  /\ screen' = "list"
  /\ covered' \in IF kind = "pets" THEN {TRUE} ELSE BOOLEAN
  /\ query' = "asked" /\ result' = {} /\ shown' = {} /\ failed' = FALSE
  /\ UNCHANGED <<kind, leaving, form, taps, cloud>>

----------------------------------------------------------------------------
(***************************************************************************)
(* Reading.  Once the list is gone its callbacks find no controller.       *)
(***************************************************************************)
QueryAnswered ==
  /\ screen # "gone"
  /\ query = "asked"
  /\ query' = "arrived"
  /\ result' = setData(stored \cup writing)
  /\ UNCHANGED <<kind, screen, leaving, form, covered, shown, failed, taps, cloud>>

\* The error is printed; the loading view goes a second later.
PetsQueryFails ==
  /\ kind = "pets"
  /\ screen # "gone"
  /\ query = "asked"
  /\ query' = "ending"
  /\ failed' = TRUE
  /\ UNCHANGED <<kind, screen, leaving, form, covered, result, shown, taps, cloud>>

\* The health book removes its loading view at once.
HealthQueryFails ==
  /\ kind = "health"
  /\ screen # "gone"
  /\ query = "asked"
  /\ query' = "idle"
  /\ covered' = FALSE
  /\ failed' = TRUE
  /\ UNCHANGED <<kind, screen, leaving, form, result, shown, taps, cloud>>

\* The block queued by setPetData or setData.
ShowRecords ==
  /\ screen # "gone"
  /\ query = "arrived"
  /\ query' = "ending"
  /\ shown' = result
  /\ failed' = FALSE
  /\ UNCHANGED <<kind, screen, leaving, form, covered, result, taps, cloud>>

\* Mutation: the loading view stays.
Uncover_Forgotten ==
  /\ screen # "gone"
  /\ query = "ending"
  /\ query' = "idle"
  /\ UNCHANGED <<kind, screen, leaving, form, covered, result, shown, failed, taps, cloud>>

\* The block of a second (pets) or half a second (health book) later.
Uncover ==
  /\ screen # "gone"
  /\ query = "ending"
  /\ query' = "idle"
  /\ covered' = FALSE
  /\ UNCHANGED <<kind, screen, leaving, form, result, shown, failed, taps, cloud>>

----------------------------------------------------------------------------
(***************************************************************************)
(* Moving between the screens.                                             *)
(***************************************************************************)
OpenForm ==
  /\ screen = "list" /\ leaving = "none" /\ ~covered
  /\ form < MaxVisits
  /\ form' = form + 1
  /\ screen' = "form"
  /\ UNCHANGED <<kind, leaving, list, taps, cloud>>

OpenDetail ==
  /\ screen = "list" /\ leaving = "none" /\ ~covered
  /\ shown # {}
  /\ screen' = "detail"
  /\ UNCHANGED <<kind, leaving, form, list, taps, cloud>>

Back ==
  /\ leaving = "none"
  /\ \/ screen \in {"form", "detail"} /\ screen' = "list"
     \/ screen = "list" /\ ~covered /\ screen' = "gone"
  /\ leaving' = screen
  /\ UNCHANGED <<kind, form, list, taps, cloud>>

\* The animation ends; the list, if it is there, appears.
Arrive ==
  /\ leaving # "none"
  /\ leaving' = "none"
  /\ IF screen = "list" THEN Appear ELSE UNCHANGED list
  /\ UNCHANGED <<kind, screen, form, taps, cloud>>

----------------------------------------------------------------------------
(***************************************************************************)
(* Writing.                                                                *)
(***************************************************************************)
\* Nothing stops a second tap.  What a row holds that is scrolled out of view is
\* not modelled.
Submit ==
  /\ screen = "form" /\ leaving = "none"
  /\ taps < MaxTaps
  /\ taps' = taps + 1
  /\ writing' = writing \cup {[owner |-> Me, no |-> taps + 1, form |-> form]}
  /\ UNCHANGED <<kind, screen, leaving, form, list, stored>>

didTapDoneAddPetButton == kind = "pets" /\ Submit

didAddNewPetHeath == kind = "health" /\ Submit

\* The form that sent r pops the top screen as long as it is itself on the
\* navigation controller; while it is being popped that may be the list.
Pop(r) ==
  \/ /\ r.form = form /\ screen = "form"
     /\ screen' = "list" /\ leaving' = "form"
  \/ /\ r.form = form /\ screen = "list" /\ leaving = "form"
     /\ screen' \in {"list", "gone"} /\ UNCHANGED leaving
  \/ /\ r.form # form \/ "form" \notin {screen, leaving}
     /\ UNCHANGED <<screen, leaving>>
  \/ /\ screen = "gone"
     /\ UNCHANGED <<screen, leaving>>

WriteAcknowledged(r) ==
  /\ r \in writing
  /\ writing' = writing \ {r}
  /\ stored' = stored \cup {r}
  /\ Pop(r)
  /\ UNCHANGED <<kind, form, list, taps>>

\* The error is printed and the form stays.
WriteFails(r) ==
  /\ r \in writing
  /\ writing' = writing \ {r}
  /\ UNCHANGED <<kind, screen, leaving, form, list, taps, stored>>

ForeignWrite(u) ==
  /\ stored' = stored \cup {[owner |-> u, no |-> 0, form |-> 0]}
  /\ UNCHANGED <<kind, screen, leaving, form, list, taps, writing>>

Read ==
  \/ QueryAnswered \/ PetsQueryFails \/ HealthQueryFails \/ ShowRecords \/ Uncover

Next ==
  \/ OpenList \/ OpenForm \/ OpenDetail \/ Back \/ Arrive
  \/ Read
  \/ didTapDoneAddPetButton \/ didAddNewPetHeath
  \/ \E r \in writing : WriteAcknowledged(r) \/ WriteFails(r)
  \/ \E u \in Foreign : ForeignWrite(u)

Spec == Init /\ [][Next]_vars

\* Firestore answers queries and the main queue runs its blocks.
FairSpec == Spec /\ WF_vars(Read)

----------------------------------------------------------------------------
(***************************************************************************)
(* Properties.                                                             *)
(***************************************************************************)
\* Every variable has its type; what a list reads is the user's own.
TypeOK ==
  /\ kind \in Kinds
  /\ screen \in {"list", "form", "detail", "gone"}
  /\ leaving \in {"none", "list", "form", "detail"}
  /\ covered \in BOOLEAN /\ failed \in BOOLEAN
  /\ form \in 0 .. MaxVisits /\ taps \in 0 .. MaxTaps
  /\ query \in {"idle", "asked", "arrived", "ending"}
  /\ writing \cup stored \subseteq Record
  /\ result \cup shown \subseteq [owner : {Me}, no : 1 .. MaxTaps, form : 1 .. MaxVisits]

\* When the list of pets has settled and its last query did not fail, whatever
\* earlier ones did, it shows every pet the user saved, with the form left by its own pop, by the back button before
\* the acknowledgement, or after several taps.
NoSavedPetMissing ==
  kind = "pets" /\ ~failed /\ screen = "list" /\ leaving = "none" /\ query = "idle" =>
    setData(stored \cup writing) \subseteq shown

\* The loading view goes away whether or not the query succeeds.
LoadingEnds == covered /\ screen = "list" ~> ~covered \/ screen # "list"
==============================================================================
