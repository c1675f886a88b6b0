SPECIFICATION FairSynced
CONSTANTS
    MaxMsgs = 3
    MaxPeerMsgs = 2
    MaxRepeat = 1
    LineCap = 1
    Requests = {"CMD", "FLASH", "PUTLOG"}
    PeerKinds = {"CHUNK"}
    SyncPeer = FALSE
    StaleLines <- MCCleanLine
INVARIANT
    PeerInOrderExactlyOnce
PROPERTIES
    QueuesDrain
    CommandSessionEnds
