SPECIFICATION FairSpec
CONSTANTS
    Clients = {c1, c2}
    Senders = {s1}
    Packets <- MCPackets
    PacketSize <- MCPacketSize
    LargestPacket = 2
    maxInFlightBytes = 1
PROPERTIES
    ConfigReachesAll
