---------------------------- MODULE MCDrbccLock ----------------------------
(* The model-checking runs of DrbccLock: two processes.                    *)
EXTENDS DrbccLock

CONSTANTS p1, p2

MCTwo == {p1, p2}
=============================================================================
