SPECIFICATION Spec
CONSTANTS
    Clients = {c1, c2}
    Senders = {s1, s2}
    Packets <- MCPackets
    PacketSize <- MCPacketSize
    LargestPacket = 2
    maxInFlightBytes = 1
SYMMETRY Symmetry
INVARIANTS
    TypeOK
    InFlightAccounting
    BacklogBounded
    FedFromConfigOn
    NoOrphanConnection
    ListenerReachable
    RetriedOnce
