SPECIFICATION FairSpec
CONSTANTS
    Clients = {c1}
    maxInFlightBytes = 9
    PacketSize <- MCPacketSize
    LargestPacket = 2
    Dims = {portrait, landscape}
    MaxSessions = 2
    MaxBlocks = 2
    MaxFrames = 1
    Orientations = {up}
    Scenarios = {{"video", "finish"}}
PROPERTIES
    ConfigsNeverGoBack
