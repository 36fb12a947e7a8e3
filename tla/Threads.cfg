CONSTANTS
    MaxPublish = 2
    MaxDrops = 1
    MaxFails = 1
    MaxBlocks = 1
SPECIFICATION FairSpec
INVARIANTS
    NoLostWakeup
    Accounted
    WholePackets
PROPERTIES
    EventuallyWritten
