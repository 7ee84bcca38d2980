CONSTANTS
    MaxPurchases = 2
    MaxEvents = 2
SPECIFICATION Spec
CHECK_DEADLOCK FALSE
PROPERTIES
    ClosesWhatFailed
