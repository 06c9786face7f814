SPECIFICATION FairSpec
CONSTANTS
    Clients = {c1}
    maxInFlightBytes = 2
    PacketSize <- MCUnitSize
    LargestPacket = 2
    Dims = {portrait}
    MaxSessions = 1
    MaxBlocks = 2
    MaxFrames = 1
    Orientations = {up}
    Scenarios = {{"video"}}
PROPERTIES
    AttachedGetsPicture
CHECK_DEADLOCK FALSE
