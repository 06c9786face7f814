SPECIFICATION ThreadFairSpec
CONSTANTS
    Clients = {c1}
    maxInFlightBytes = 0
    PacketSize <- MCPacketSize
    LargestPacket = 2
    Dims = {portrait}
    MaxSessions = 1
    MaxBlocks = 2
    MaxFrames = 1
    Orientations = {up}
    Scenarios <- MCFinishScenarios
PROPERTIES
    FinishReturned
    ImplementsClientFeed
    DeadForgotten
