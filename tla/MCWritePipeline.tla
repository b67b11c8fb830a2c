--------------------------- MODULE MCWritePipeline ---------------------------
(***************************************************************************)
(* Model-checking instance of WritePipeline.                               *)
(***************************************************************************)
EXTENDS WritePipeline, TLC
==============================================================================
