CONSTANTS
    m1 = m1
    m2 = m2
    Contract = {c1}
    Miner = {m1, m2}
    Other = other
    NoMiner = none
    MaxTasks = 2
    Most = 2
SPECIFICATION Spec
CHECK_DEADLOCK FALSE
SYMMETRY Symmetric
INVARIANTS
    FullTasksAreWithdrawn CountedMinersServe
