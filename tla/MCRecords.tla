------------------------------ MODULE MCRecords ------------------------------
(***************************************************************************)
(* Model-checking instance of Records.                                     *)
(***************************************************************************)
EXTENDS Records, TLC
==============================================================================
