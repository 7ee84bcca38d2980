CONSTANTS
    MaxRuns = 1
    MaxPurchases = 1
    Dest = {d1}
SPECIFICATION FairSpec
CHECK_DEADLOCK FALSE
INVARIANTS
    ForgottenIsOver
PROPERTIES
    EndsAreReached
