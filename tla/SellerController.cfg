CONSTANTS
    MaxRuns = 2
    MaxPurchases = 2
    Dest = {d1}
    MaxEvents = 2
    NamedDest = {d1}
    NodeMayFail = TRUE
SPECIFICATION FairSpec
CHECK_DEADLOCK FALSE
CONSTRAINT
    BeforeOvertaking OneEnding
INVARIANTS
    OneRunServes ClosedOnce MinersReleased
PROPERTIES
    TermsFixedWhileRunning WaitEnds
