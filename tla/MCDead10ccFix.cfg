SPECIFICATION FairSpec
CONSTANTS
    f1 = f1
    f2 = f2
    Files = {f1, f2}
    FileKinds <- MCFileKinds
    MaxFds = 3
    MaxCallbacks = 1
    None = None
INVARIANTS
    SuspendTypeOK
    SuspendedMarked
PROPERTIES
    LockGetsMarked
    LoopEnds
