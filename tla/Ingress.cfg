CONSTANTS
    MaxPublish = 3
    MaxDrops = 2
    QosLevels = {0, 1, 2}
    MidLimit = 65535
    Window = 2
    Maxima = {2}
    MaxQueued = 0
    Denied = {1}
    Mqtt5 = TRUE
SPECIFICATION FairSpec
INVARIANTS
    ConfirmedRouted
PROPERTIES
    ImplementsOnce
    EventuallyConfirmed
CHECK_DEADLOCK FALSE
