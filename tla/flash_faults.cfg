SPECIFICATION Spec
CONSTANTS
    Slots = 4
    NumBlocks = 9
    LogBlocks = 1
    PersBlocks = 1
    Names = {"fw", "cfg"}
    Sizes = {1, 2}
    Api = {"part", "delete", "deleteindex", "get", "put", "log"}
    MaxOps = 3
    ResultCap = 2
    Faults = {"crash", "tear", "badwrite", "hostfile", "toggle"}
    MaxFaults = 2
CHECK_DEADLOCK FALSE
INVARIANTS
    TypeOK
    TableSafe
    OtherFilesIntact
PROPERTY
    AtomicStore
