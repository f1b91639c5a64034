CONSTANTS
    Clients = {c0, c1}
    NumFiles = 1
    FDs = {1, 2}
    MaxActs = 5
    NotCached = NotCached
SPECIFICATION Spec
INVARIANT RefcntCountsOpens
