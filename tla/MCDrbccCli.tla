----------------------------- MODULE MCDrbccCli -----------------------------
(* Constants for the model-checking runs of DrbccCli are given in the cfg  *)
(* files.                                                                  *)
EXTENDS DrbccCli
=============================================================================
