CONSTANTS
    Clients = {c1, c2}
    NoId = NoId
    Options <- WillOptions
    Filters <- NoFilters
    TopicNames <- NoFilters
    NoLocal = {FALSE}
    ClientExpiry = 0
    Never = 99
    MaxConn = 3
    MaxTime = 4
    MaxCrash = 0
    DollarLevels <- Dollar
SYMMETRY Symmetry
SPECIFICATION Spec
INVARIANT NoDangling
INVARIANT WillOnce
INVARIANT WillNotForgotten
INVARIANT SessionsTracked
INVARIANT ExpiredGone
PROPERTY WillCancelled
CHECK_DEADLOCK FALSE
