SPECIFICATION Spec
CONSTANTS
    MaxMsgs = 3
    MaxPeerMsgs = 2
    MaxRepeat = 1
    LineCap = 2
    Requests = {"SYNC", "POLL", "CMD"}
    PeerKinds = {"ANS", "IND", "STATUS", "ASK"}
    SyncPeer = TRUE
    StaleLines <- MCCleanLine
INVARIANT
    InOrderExactlyOnce
