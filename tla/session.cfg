SPECIFICATION FairSpec
CONSTANTS
    Chunk = 8
    BlockSize = 16
    NumBlocks = 2
    Transfers <- MCTransfers
    Times <- MCTimes
    MaxOps = 2
    MaxEvents = 1
    MaxFaults = 1
CHECK_DEADLOCK FALSE
INVARIANTS
    TypeOK
    WithinPage
    RtcRoundTrip
PROPERTIES
    EndsWithItsAnswer
    TransferExact
    SessionEnds
