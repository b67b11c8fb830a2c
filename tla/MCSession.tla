------------------------------ MODULE MCSession ------------------------------
(***************************************************************************)
(* Model-checking instance of Session: a user who overlaps their own       *)
(* requests, a patient one among whom some documents are incomplete, and   *)
(* one for whom everything succeeds.                                       *)
(***************************************************************************)
EXTENDS Session, TLC

CONSTANTS a, b, c

MCEnvironments ==
  {[complete |-> {a}, queryMayFail |-> TRUE, overlap |-> TRUE,
    maxChains |-> 3, maxScreens |-> 3],
   [complete |-> {a, b}, queryMayFail |-> TRUE, overlap |-> FALSE,
    maxChains |-> 5, maxScreens |-> 4],
   [complete |-> {a, b, c}, queryMayFail |-> FALSE, overlap |-> FALSE,
    maxChains |-> 4, maxScreens |-> 3]}
==============================================================================
