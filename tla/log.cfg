SPECIFICATION FairSpec
CONSTANTS
    ChunkCells = 2
    BlockChunks = 2
    Blocks = 2
    AreaStart = 4
    PersStart = 2
    PersBlocks = 1
    FlashBlocks = 7
    AddrBlocks = 14
    Tables <- MCTables
    Entries <- MCEntries
    LongIds = {3, 5, 7}
    ExtCells = 2
    MaxIds = 6
    MaxSessions = 2
    MaxFaults = 1
CHECK_DEADLOCK FALSE
INVARIANT
    TypeOK
    ReadsInArea
PROPERTIES
    
    LogComplete
    SessionEnds
