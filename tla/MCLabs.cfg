CONSTANTS
    NumThreads = 3
    Rounds = 3
    SyncThreshold = 2
    num_threads = 3
    loops = 1
    VECTOR_SIZE = 2
    Writers = {1, 2}
    MaxWrites = 2
    InodeCounts = {5}
    DataCounts = {1, 5}
    NumRequests = 6
    Names = {"a", "b"}
    MaxUsed = 4
    Settings <- TheSettings
    AllocSizes = {0, 1, 3}
    MaxOps = 6
SPECIFICATION LabsSpec
INVARIANTS
    CountersExact
    ImageConsistent
    CorruptionShows
    LogConsistent
    BooksBalance
    SchedulesSoundly
    JobsPlaced
    HeapTiled
    AddsSafely
    QueueSound
    DiskSound
    RaidSound
    TreeSound
    AddressesRight
