SPECIFICATION FairSpec
CONSTANTS
    Slots = 3
    NumBlocks = 9
    LogBlocks = 1
    PersBlocks = 1
    Names = {"fw", "cfg"}
    Sizes = {1, 2}
    Api = {"part", "delete", "get", "getindex", "put"}
    MaxOps = 3
    ResultCap = 2
    Faults = {}
    MaxFaults = 0
CHECK_DEADLOCK FALSE
PROPERTIES
    PutDurable
    GetComplete
    SessionEnds
    DeleteCompletes
