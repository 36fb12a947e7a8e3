CONSTANTS
    MaxPublish = 3
    MaxDrops = 2
    QosLevels = {0, 1, 2}
    Maxima = {1, 2}
    MaxQueued = 0
    QueueQos0 = FALSE
    MidLimit = 65535
    Expiring = {}
    Oversize = {}
    Revocable = {}
    RetainedSent = FALSE
    SocketBlocks = FALSE
    SendFailures = FALSE
    ClientRefuses = FALSE
    Threaded = FALSE
SPECIFICATION Spec
INVARIANTS
    TypeOK
    NoLoss
    ReleasedWaits
    CountExact
PROPERTIES
    NoRepublish
    InOrder
CHECK_DEADLOCK FALSE
