SPECIFICATION Spec
CONSTANTS
    game = game
    helper = helper
    gameData = gameData
    helperData = helperData
    None = None
    Copies = {lc1, lc2}
    Primary = lc1
    Apps = {game, helper}
    Shared = {helper}
    Folders = {gameData, helperData}
    LCContainers <- MCContainers
    LCDataUUID <- MCDataUUID
    MaxStarts = 3
INVARIANTS
    LaunchTypeOK
    OneGuestPerContainer
    GuestCopyInUse
    WindowShowsItsApp
    RedirectFindsGuest
    CrashReturnsToUI
CHECK_DEADLOCK FALSE
