--------------------------- MODULE MCGuestLaunch ---------------------------
(* A small instance of GuestLaunch for TLC: a private app and a shared one. *)
EXTENDS GuestLaunch, TLC

CONSTANTS game, helper, gameData, helperData

MCContainers == game :> {gameData} @@ helper :> {helperData}
MCDataUUID == game :> gameData @@ helper :> helperData
=============================================================================
