CONSTANTS
    NumThreads = 2
    Programs = {"lock-withcallret"}
    ManualSchedules <- NoManual
    IntFreq = 4
    Loops = 2
    Halted = Halted
SPECIFICATION Spec
INVARIANT HolderSetsMutex
