SPECIFICATION Spec
CONSTANTS
    MaxMsgs = 3
    MaxPeerMsgs = 0
    MaxRepeat = 2
    LineCap = 2
    Requests = {"SYNC", "REQ"}
    PeerKinds = {}
    SyncPeer = FALSE
    StaleLines <- MCStaleLines
INVARIANTS
    TypeOK
    PendingInv
    InOrderExactlyOnce
