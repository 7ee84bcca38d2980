CONSTANTS
    URL = {a, b, c}
    Primary = a
    b = b
    c = c
    MaxCachedDests = 2
    MaxConns = 3
    MaxShares = 2
    MaxFailures = 1
SPECIFICATION FairSpec
CONSTRAINT Explored
CHECK_DEADLOCK FALSE
INVARIANTS
    OneReader MinerMinesForDest SwapsAreSound
PROPERTIES
    SetDestReturns
