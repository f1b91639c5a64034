CONSTANTS
    Types = {"log"}
    NumLogicalPages = 4
    NumBlocks = 3
    PagesPerBlock = 2
    HighWaterMark = 3
    LowWaterMark = 2
    Data = {1}
    Blank = 0
SPECIFICATION Spec
INVARIANTS
    MappedPagesHoldData
    NeverFull
