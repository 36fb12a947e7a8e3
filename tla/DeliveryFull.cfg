CONSTANTS
    MaxPublish = 2
    MaxDrops = 2
    QosLevels = {0, 1, 2}
    Maxima = {1, 2}
    MaxQueued = 1
    QueueQos0 = TRUE
    MidLimit = 65535
    Expiring = {1}
    Oversize = {2}
    Revocable = {1}
    RetainedSent = TRUE
    SocketBlocks = TRUE
    SendFailures = TRUE
    ClientRefuses = TRUE
    Threaded = FALSE
SPECIFICATION Spec
INVARIANTS
    DeliveryInv
PROPERTIES
    ImplementsService
CHECK_DEADLOCK FALSE
