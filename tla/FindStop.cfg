CONSTANTS
    MaxPublish = 0
    MaxDrops = 1
    MaxFails = 1
    MaxBlocks = 0
SPECIFICATION FairSpec
PROPERTIES
    DisconnectEndsLoop
