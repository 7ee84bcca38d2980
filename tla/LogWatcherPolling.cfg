CONSTANTS
    MaxBlock = 3
    NumLogs = 4
    BlockOf <- MCBlockOf
    Events <- MCEvents
    FromBlocks = {0, 2}
    MaxReconnects = 2
SPECIFICATION FairSpec
CHECK_DEADLOCK FALSE
INVARIANTS
    LossesFollowFailures
PROPERTIES
    DeliveredInOrder WatchEnds FollowsChain
