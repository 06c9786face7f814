SPECIFICATION FairSpec
CONSTANTS
    Clients = {c1}
    Senders = {s1, s2}
    Packets <- MCPackets
    PacketSize <- MCPacketSize
    LargestPacket = 2
    maxInFlightBytes = 1
INVARIANTS
    ConfigFirst
