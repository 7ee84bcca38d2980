CONSTANTS
    d1 = d1
    d2 = d2
    Dest = {d1, d2}
    Primary = d1
    JobID = {j1, j2}
    Content = {c1}
    MsgID = {m1, m2}
    Capacity = 2
    MaxInvalid = 1
    MaxShares = 2
    MaxJobs = 3
SPECIFICATION Spec
SYMMETRY Symmetry
CHECK_DEADLOCK FALSE
INVARIANTS
    CacheIsRecent CreditIsRight VerdictIsItsOwn AccountsAreKept
