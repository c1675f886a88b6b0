----------------------------- MODULE MCDrbccLog -----------------------------
(* The model-checking runs of DrbccLog: an area of two blocks of four      *)
(* cells, read two cells at a time, in a flash of seven blocks.            *)
EXTENDS DrbccLog

(* All; the last five, of which some may be missing or behind the end of   *)
(* the ring; from cell 3 on, on both sides of the position.                *)
MCEntries == {-8, -5, 3}

(* A sound table, and one that is restored from its backup.                *)
MCTables == {<<"log", "log">>, <<"none", "log">>}
=============================================================================
