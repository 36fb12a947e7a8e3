CONSTANTS
    MaxPublish = 1
    MaxDrops = 2
    QosLevels = {2}
    Maxima = {1}
    MaxQueued = 0
    QueueQos0 = FALSE
    MidLimit = 65535
    Expiring = {}
    Oversize = {}
    Revocable = {}
    RetainedSent = FALSE
    SocketBlocks = FALSE
    SendFailures = FALSE
    ClientRefuses = FALSE
    Threaded = FALSE
SPECIFICATION Spec
INVARIANTS
    QoS2ExactlyOnce
CHECK_DEADLOCK FALSE
