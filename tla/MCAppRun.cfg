SPECIFICATION FairSpec
CONSTANTS
    Apps = {a1, a2}
    Tasks = {t1, t2}
    MaxWindows = 2
    None = None
    Scenarios <- MCScenarios
INVARIANTS
    RunTypeOK
    ExecutableKept
    SignedIsRunnable
    MarkIsTrue
    SigningIsMarked
    WindowPairs
    GuestHasWindow
    GuestIsReachable
    OneWindowPerContainer
PROPERTIES
    FlagClears
    ClosedGoesAway
CHECK_DEADLOCK FALSE
