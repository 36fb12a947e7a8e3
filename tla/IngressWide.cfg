CONSTANTS
    MaxPublish = 4
    MaxDrops = 2
    QosLevels = {1, 2}
    MidLimit = 3
    Window = 3
    Maxima = {1}
    MaxQueued = 1
    Denied = {}
    Mqtt5 = FALSE
SPECIFICATION Spec
INVARIANTS
    TypeOK
    RoutedOnce
CHECK_DEADLOCK FALSE
