CONSTANTS
    DollarLevels <- Dollar
    Clients = {c1, c2}
    V5 = {c2}
    Durable = {c1}
    ClientTopics <- SomeTopics
    SysTopics <- BrokerTopics
    Filters <- SomeFilters
    Lifetimes = {0, 1}
    Fanout = 2
    MaxList = 2
    MaxId = 2
    MaxTime = 2
    MaxDown = 1
    MaxRestart = 1
SPECIFICATION Spec
INVARIANTS
    RefExact
    OncePerClient
    SurvivesRestart
    RetainedFound
CHECK_DEADLOCK FALSE
