CONSTANTS
    MaxMessages = 3
    MaxNotifications = 2
    MaxFailures = 1
SPECIFICATION FairSpec
CHECK_DEADLOCK FALSE
INVARIANTS
    PoolIsRelayed OutcomeIsRight
PROPERTIES
    HandshakeEnds
