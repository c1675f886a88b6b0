---------------------------- MODULE MCDrbccFlash ----------------------------
(* The model-checking runs of DrbccFlash: a table of three or four         *)
(* entries, two of them the log areas, and a flash with five data blocks,  *)
(* given in the cfg files.                                                 *)
EXTENDS DrbccFlash
=============================================================================
