SPECIFICATION FairSpec
CONSTANTS
    Slots = 4
    NumBlocks = 9
    LogBlocks = 1
    PersBlocks = 1
    Names = {"fw", "cfg"}
    Sizes = {1}
    Api = {"delete", "put"}
    MaxOps = 4
    ResultCap = 1
    Faults = {}
    MaxFaults = 0
CHECK_DEADLOCK FALSE
PROPERTY
    ReportedIsDeleted
