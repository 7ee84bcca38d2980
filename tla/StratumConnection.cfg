CONSTANTS
    Reader = {r1, r2}
    Writer = {w1, w2}
    Kind <- MCKind
    Pieces = 2
    MaxWrites = 2
SPECIFICATION FairSpec
CONSTRAINT OneDirection
CHECK_DEADLOCK FALSE
INVARIANTS
    LinesAreWhole MessagesAreWhole ErrorsNameTheirCause
PROPERTIES
    CallsReturn
