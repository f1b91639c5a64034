CONSTANTS
    NumJobs = 1
    NumQueues = 3
    Quantum <- QuantumByLevel
    Allotment <- AllotmentByLevel
    Boosts = {3}
    IOTimes = {2}
    StartTimes = {0}
    RunTimes = {1, 12}
    IOFreqs = {0, 2}
SPECIFICATION Spec
INVARIANT AllotmentBounds
