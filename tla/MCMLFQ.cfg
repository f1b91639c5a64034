CONSTANTS
    NumJobs = 3
    NumQueues = 3
    Quantum <- QuantumByLevel
    Allotment <- AllotmentByLevel
    Boosts = {0, 5}
    IOTimes = {0, 2}
    StartTimes = {0, 2}
    RunTimes = {1, 6}
    IOFreqs = {0, 2}
SPECIFICATION Spec
INVARIANTS
    EachJobInOnePlace
    NoGaming
PROPERTIES
    ImplementsSchedule
    Terminates
