CONSTANTS
    c1 = c1
    c2 = c2
    p1 = p1
    p2 = p2
    Contract = {c1, c2}
    Pool = {x}
    Primary = {p1, p2}
    MaxTasks = 2
SPECIFICATION Spec
SYMMETRY Interchangeable
CHECK_DEADLOCK FALSE
INVARIANTS
    ListIsSound SizeIsLength NoLostWakeup CreditFollowsDest TasksAreSettled
PROPERTIES
    ImplementsRentalQueue
