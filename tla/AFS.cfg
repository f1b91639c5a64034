CONSTANTS
    Clients = {c0, c1}
    NumFiles = 1
    FDs = {1, 2}
    MaxActs = 6
    NotCached = NotCached
SPECIFICATION Spec
INVARIANTS
    TypeOK
    RefcntExact
    ExitsWhenAllDone
    CallbackPromise
    ValidIsCurrent
PROPERTY ImplementsSessions
