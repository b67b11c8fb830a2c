-------------------------- MODULE DurableFavorites --------------------------
(***************************************************************************)
(* What the favourites component promises, with no screens and no context: *)
(* a set the user changes one favourite at a time, and a durable copy that *)
(* is only ever a whole earlier value of that set, never a mixture of      *)
(* changes that were written and changes that were not.  A crash returns   *)
(* to the durable copy.                                                    *)
(***************************************************************************)
CONSTANT Favorite

VARIABLES favs, durable

vars == <<favs, durable>>

Init == favs = {} /\ durable = {}

\* The write that follows a change reaches the disk as a whole or not at all.
WriteThrough == durable' = favs' \/ UNCHANGED durable

\* A favourite that was removed is never the one that is added.
Add(o) ==
  /\ o \notin favs \cup durable
  /\ favs' = favs \cup {o}
  /\ WriteThrough

Remove(o) ==
  /\ o \in favs
  /\ favs' = favs \ {o}
  /\ WriteThrough

Flush == durable' = favs /\ UNCHANGED favs

Crash == favs' = durable /\ UNCHANGED durable

Next == (\E o \in Favorite : Add(o) \/ Remove(o)) \/ Flush \/ Crash

Spec == Init /\ [][Next]_vars
==============================================================================
