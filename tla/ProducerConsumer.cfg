CONSTANTS
    NumProducers = 2
    NumConsumers = 3
    Max = 2
    Loops = 2
    MaxSpurious = 1
SPECIFICATION FairSpec
INVARIANTS
    TypeOK
    NoEnsureFailure
    AllDelivered
PROPERTIES
    ImplementsQueue
    Terminates
