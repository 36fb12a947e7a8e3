CONSTANTS
    MaxPublish = 2
    MaxDrops = 2
    QosLevels = {1, 2}
    Maxima = {1}
    MaxQueued = 0
    QueueQos0 = FALSE
    MidLimit = 65535
    Expiring = {}
    Oversize = {}
    Revocable = {}
    RetainedSent = FALSE
    SocketBlocks = FALSE
    SendFailures = FALSE
    ClientRefuses = FALSE
    Threaded = FALSE
SPECIFICATION FairSpec
PROPERTIES
    EventuallyDelivered
CHECK_DEADLOCK FALSE
