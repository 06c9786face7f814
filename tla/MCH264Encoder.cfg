SPECIFICATION EncoderFairSpec
CONSTANTS
    Callers = {video, main}
    Dims = {portrait, landscape}
    MaxSessions = 3
    MaxBlocks = 3
    MaxFrames = 2
    Bytes = {0, 1}
    MaxUnit = 2
    MaxUnits = 3
INVARIANTS
    EncoderTypeOK
    FramesBelongToSession
PROPERTIES
    ImplementsVideoStream
    CallsReturn
