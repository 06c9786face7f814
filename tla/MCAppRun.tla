------------------------------- MODULE MCAppRun -------------------------------
(* Small instances of AppRun for TLC. *)
EXTENDS AppRun, TLC

MCScenarios == {
    {"window", "exits", "guestFails", "ends"},
    {"window", "allApps", "allTasks"},
    {"run", "window", "guestFails", "allTasks"},
    {"run", "resign", "install", "settings", "crash", "signingFails", "anyBinary"},
    {"run", "window", "noExtension", "allTasks"},
    {"run", "resign", "allTasks"},
    {"resign", "crash", "allTasks", "allApps"},
    {"resign", "install", "allTasks"} }
=============================================================================
