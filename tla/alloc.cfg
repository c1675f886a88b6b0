SPECIFICATION Spec
CONSTANTS
    Slots = 4
    NumBlocks = 14
    LogBlocks = 2
    PersBlocks = 1
    Names = {"fw", "cfg", "img"}
    Sizes = {1, 2, 3}
INVARIANTS
    FilesApart
    PlacesBestFit
    AreasFit
