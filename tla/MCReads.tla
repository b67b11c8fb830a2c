------------------------------- MODULE MCReads -------------------------------
(***************************************************************************)
(* Model-checking instance of Reads.                                       *)
(***************************************************************************)
EXTENDS Reads, TLC
==============================================================================
