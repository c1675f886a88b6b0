---------------------------- MODULE MCDrbccAlloc ----------------------------
(* The model-checking run of DrbccAlloc.                                   *)
EXTENDS DrbccAlloc
=============================================================================
