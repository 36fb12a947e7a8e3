CONSTANTS
    Clients = {c1}
    NoId = NoId
    Options <- SubOptions
    Filters <- SubFilters
    TopicNames <- SomeTopics
    NoLocal = {TRUE}
    ClientExpiry = 0
    Never = 99
    MaxConn = 3
    MaxTime = 3
    MaxCrash = 1
    DollarLevels <- Dollar
SPECIFICATION Spec
INVARIANT TreeConsistent
INVARIANT RoutedExactly
PROPERTY ImplementsSubscriptions
CHECK_DEADLOCK FALSE
