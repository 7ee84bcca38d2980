CONSTANTS
    c1 = c1
    c2 = c2
    p1 = p1
    p2 = p2
    Contract = {c1}
    Pool = {x}
    Primary = {p1}
    MaxTasks = 3
SPECIFICATION FairSpec
CHECK_DEADLOCK FALSE
PROPERTIES
    EveryTaskLeaves EndingsComplete
