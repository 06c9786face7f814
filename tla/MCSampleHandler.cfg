SPECIFICATION Spec
CONSTANTS
    Clients = {c1}
    maxInFlightBytes = 0
    PacketSize <- MCPacketSize
    LargestPacket = 2
    Dims = {portrait, landscape}
    MaxSessions = 2
    MaxBlocks = 2
    MaxFrames = 1
    Orientations = {up, right}
    Scenarios = {{"video", "resume"}}
SYMMETRY Symmetry
INVARIANTS
    HandlerTypeOK
    LatestSetsStored
PROPERTIES
    TurnForcesKeyframe
CHECK_DEADLOCK FALSE
