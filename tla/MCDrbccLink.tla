---------------------------- MODULE MCDrbccLink ----------------------------
(* Constants for the model-checking runs of DrbccLink.                     *)
EXTENDS DrbccLink

MCCleanLine == {<<>>}

MCStaleLines ==
    {<<>>, <<Ack(1)>>, <<[kind |-> "IND", id |-> 0, t |-> 1]>>}

(* The behaviours of a link that is at rest after its first SYNC.          *)
SyncedInit == Init /\ ~firstSync
SyncedSpec == SyncedInit /\ [][Next]_vars
FairSynced == SyncedSpec /\ Fairness
=============================================================================
