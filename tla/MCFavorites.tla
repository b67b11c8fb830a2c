---------------------------- MODULE MCFavorites ----------------------------
(***************************************************************************)
(* Model-checking instance of Favorites: a user who waits for the queued   *)
(* refresh and fetches that succeed, and a user whose taps overtake it,    *)
(* with fetches that succeed and with fetches that may fail.               *)
(***************************************************************************)
EXTENDS Favorites

CONSTANTS s1, s2

MCEnvironments ==
  {[listed |-> {s1, s2}, responsive |-> TRUE, fetchMayFail |-> FALSE],
   [listed |-> {s1}, responsive |-> FALSE, fetchMayFail |-> FALSE],
   [listed |-> {s1}, responsive |-> FALSE, fetchMayFail |-> TRUE]}
==============================================================================
