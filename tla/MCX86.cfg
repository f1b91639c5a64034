CONSTANTS
    NumThreads = 2
    Programs = {"test-and-set", "test-and-test-and-set", "yield", "ticket", "peterson", "lock-withcallret"}
    ManualSchedules <- Manual
    IntFreq = 4
    Loops = 2
    Halted = Halted
SPECIFICATION MCSpec
INVARIANTS
    MutualExclusion
    CountExact
    RacesBounded
PROPERTIES
    ImplementsThreads
    Terminates
