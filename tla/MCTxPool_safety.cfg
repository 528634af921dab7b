SPECIFICATION FairSpec
CONSTANTS
    Hash = {a, b, c}
    Refused = {c}
    max = 2
    MaxClock = 5
INVARIANTS TypeOK PendingCapped PendingUnique FirstInFirstOut HistoryIsNewest
PROPERTY PoolDrains
