CONSTANTS
    MaxPurchases = 2
    MaxEvents = 2
SPECIFICATION FairSpec
CHECK_DEADLOCK FALSE
INVARIANTS
    ErrorClosedOnce WatchersAreKnown PurchaseIsWatched
PROPERTIES
    ControllerEnds
