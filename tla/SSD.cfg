CONSTANTS
    Types = {"log", "direct", "ideal"}
    NumLogicalPages = 4
    NumBlocks = 2
    PagesPerBlock = 2
    HighWaterMark = 2
    LowWaterMark = 1
    Data = {1, 2}
    Blank = 0
SPECIFICATION Spec
INVARIANTS
    TypeOK
    LossOnlyByDrop
    ProgramsErasedPages
PROPERTY ImplementsDisk
