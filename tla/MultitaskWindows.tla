--------------------------- MODULE MultitaskWindows ---------------------------
(***************************************************************************)
(* Guests in windows of the host (virtual-window mode):                     *)
(* DecoratedAppSceneViewController.m with its AppSceneViewController.m, the *)
(* dock (MultitaskDockView.swift), the registry of used containers          *)
(* (MultitaskManager.swift) and the relaunch manager                        *)
(* (MultitaskAppWindow.swift), in src/LiveContainerRuntime/MultitaskSupport.*)
(* Most of it runs on the main thread, where blocks wait in the order they  *)
(* were dispatched; the extension's callbacks come from a thread of its     *)
(* own, and a guest may die at any time.  Layout, animations, launch URLs   *)
(* and picture in picture are left out.                                     *)
(***************************************************************************)
EXTENDS Naturals, Sequences

CONSTANTS Apps,          \* an app has one container, which goes by its name
          Openers,       \* calls of launchMultitaskGuestApp
          MaxWindows,    \* bound: windows that exist at once
          None

Windows == 1..MaxWindows

VARIABLES
    win,                \* of each slot, a window and its guest
    main,               \* the blocks dispatched to the main queue
    dock,               \* the windows of the dock's apps
    registered,         \* usingMultitaskContainers
    relaunch,           \* pendingKeys of the relaunch manager
    onExit              \* chosen by Init: LCSkipTerminatedScreen, LCRestartTerminatedApp

windowVars == <<win, main, dock, registered, relaunch, onExit>>

NoWindow == [app |-> None, container |-> None, opener |-> None, guest |-> "none", view |-> "none",
             cleaned |-> FALSE, closing |-> FALSE, orphaned |-> FALSE, company |-> "none"]
Blocks == [do : {"create", "bring"}, on : Openers]
          \cup [do : {"dockAdd", "initialized", "failed", "cleanUp"}, on : Windows]
          \cup [do : {"dockRemove"}, on : Apps]

WindowsTypeOK ==
    /\ win \in [Windows -> [app : Apps \cup {None}, container : Apps \cup {None},
                            opener : Openers \cup {None},
                            guest : {"none", "starting", "failed", "started", "running", "dead"},
                            view : {"none", "shown", "page", "removed"},
                            cleaned : BOOLEAN, closing : BOOLEAN,
                            orphaned : BOOLEAN, company : {"none", "later", "earlier"}]]
    /\ \A w \in Windows : win[w].view # "none" => {win[w].app, win[w].container} \subseteq Apps
    /\ main \in Seq(Blocks)
    /\ dock \subseteq Windows
    /\ registered \subseteq Apps
    /\ relaunch \subseteq Apps \X Apps
    /\ onExit \in {"page", "skip", "restart"}

WindowsInit ==
    /\ win = [w \in Windows |-> NoWindow]
    /\ main = <<>> /\ dock = {}
    /\ registered = {} /\ relaunch = {}
    /\ onExit \in {"page", "skip", "restart"}

Alive(w) == win[w].guest \in {"started", "running"}
Block(do, on) == [do |-> do, on |-> on]
IsHead(do, on) == main # <<>> /\ Head(main) = Block(do, on)
Dispatch(blocks) == main' = main \o blocks
DispatchFromHead(blocks) == main' = Tail(main) \o blocks
InDock(c) == \E w \in dock : win[w].container = c
IsMultitasking == registered # {}

(***************************************************************************)
(* Opening.  The window enters the dock by a later block, unless the dock   *)
(* already shows its container.                                             *)
(***************************************************************************)
CreateWindow(t, w, a, c) ==
    /\ IsHead("create", t)
    /\ win[w] = NoWindow
    /\ LET others == {v \in Windows : win[v].container = c}
           new == [NoWindow EXCEPT !.app = a, !.container = c, !.opener = t,
                                   !.guest = "starting", !.view = "shown",
                                   !.company = IF others = {} THEN "none" ELSE "earlier"]
       IN  win' = [v \in Windows |->
                     IF v = w THEN new
                     ELSE IF v \in others /\ win[v].company = "none"
                          THEN [win[v] EXCEPT !.company = "later"] ELSE win[v]]
    /\ DispatchFromHead(IF InDock(c) THEN <<>> ELSE <<Block("dockAdd", w)>>)
    /\ UNCHANGED <<dock, registered, relaunch, onExit>>

DockAdd(w) ==
    /\ IsHead("dockAdd", w)
    /\ dock' = dock \cup {w}
    /\ DispatchFromHead(<<>>)
    /\ UNCHANGED <<win, registered, relaunch, onExit>>

DockRemove(c) ==
    /\ IsHead("dockRemove", c)
    /\ dock' = {w \in dock : win[w].container # c}
    /\ DispatchFromHead(<<>>)
    /\ UNCHANGED <<win, registered, relaunch, onExit>>

\* The completion of beginExtensionRequest: the guest's process exists, or it does not.
GuestStarts(w) ==
    /\ win[w].guest = "starting"
    /\ win' = [win EXCEPT ![w].guest = "started"]
    /\ registered' = registered \cup {win[w].container}
    /\ Dispatch(<<Block("initialized", w)>>)
    /\ UNCHANGED <<dock, relaunch, onExit>>

GuestFails(w) ==
    /\ win[w].guest = "starting"
    /\ win' = [win EXCEPT ![w].guest = "failed"]
    /\ Dispatch(<<Block("failed", w)>>)
    /\ UNCHANGED <<dock, registered, relaunch, onExit>>

\* didInitializeWithError: whoever waits for the process identifier gets it ...
Initialized(w) ==
    /\ IsHead("initialized", w)
    /\ DispatchFromHead(<<>>)
    /\ UNCHANGED <<win, dock, registered, relaunch, onExit>>

\* ... and nothing is told of a failure but the user; appTerminationCleanUp happens once.
Failed(w) ==
    /\ IsHead("failed", w)
    /\ win' = [win EXCEPT ![w].cleaned = TRUE]
    /\ DispatchFromHead(IF win[w].cleaned THEN <<>> ELSE <<Block("cleanUp", w)>>)
    /\ UNCHANGED <<dock, registered, relaunch, onExit>>

(***************************************************************************)
(* A guest's life: it takes the lock of its container when it has got that  *)
(* far, see GuestLaunch, and ends by itself or because it was killed.       *)
(***************************************************************************)
GuestRuns(w) ==
    /\ win[w].guest = "started"
    /\ win' = [win EXCEPT ![w].guest = "running"]
    /\ UNCHANGED <<main, dock, registered, relaunch, onExit>>

GuestDies(w) ==
    /\ Alive(w)
    /\ win' = [win EXCEPT ![w].guest = "dead"]
    /\ UNCHANGED <<main, dock, registered, relaunch, onExit>>

\* The interruption (or cancellation) block: appTerminationCleanUp.
Interrupted(w) ==
    /\ win[w].guest = "dead" /\ ~win[w].cleaned
    /\ win' = [win EXCEPT ![w].cleaned = TRUE]
    /\ Dispatch(<<Block("cleanUp", w)>>)
    /\ UNCHANGED <<dock, registered, relaunch, onExit>>

\* Mutant: only the setting counts.
RemovesIfSkipped(w) == onExit # "page"

(***************************************************************************)
(* Closing.  appSceneVCAppDidExit removes the window if the user closed it  *)
(* or does not want the termination screen, and asks for a relaunch if the  *)
(* user did not close it; it may run twice for a window.                    *)
(***************************************************************************)
Removes(w) == win[w].closing \/ onExit # "page"
Relaunches(w) == onExit = "restart" /\ ~win[w].closing
Key(w) == <<win[w].app, win[w].container>>
ExitBlocks(removes, w) == IF removes THEN <<Block("dockRemove", win[w].container)>> ELSE <<>>

CleanUp(w) ==
    /\ IsHead("cleanUp", w)
    /\ win' = [win EXCEPT ![w].view = IF Removes(w) THEN "removed" ELSE "page"]
    /\ relaunch' = IF Relaunches(w) THEN relaunch \cup {Key(w)} ELSE relaunch
    /\ registered' = registered \ {win[w].container}
    /\ DispatchFromHead(ExitBlocks(Removes(w), w))
    /\ UNCHANGED <<dock, onExit>>

\* Mutant: the process identifier is not known before didInitialize has run.
CloseWindowBlind(w) ==
    /\ win[w].view \in {"shown", "page"} /\ ~win[w].closing
    /\ win' = [win EXCEPT ![w].closing = TRUE, ![w].view = "removed",
                          ![w].orphaned = (win[w].guest = "starting")]
    /\ Dispatch(ExitBlocks(TRUE, w))
    /\ UNCHANGED <<dock, registered, relaunch, onExit>>

\* Mutant: the dock forgets the window before its guest has ended.
CloseWindowEagerly(w) ==
    /\ win[w].view \in {"shown", "page"} /\ ~win[w].closing
    /\ win' = [win EXCEPT ![w].closing = TRUE,
                          ![w].view = IF Alive(w) THEN win[w].view ELSE "removed",
                          ![w].orphaned = (win[w].guest = "starting")]
    /\ Dispatch(ExitBlocks(TRUE, w))
    /\ UNCHANGED <<dock, registered, relaunch, onExit>>

\* The user closes a window: a guest is told to end, and killed if it does not; without
\* one, and before the process exists there is none, the window just goes.
CloseWindow(w) ==
    /\ win[w].view \in {"shown", "page"} /\ ~win[w].closing
    /\ IF Alive(w)
       THEN /\ win' = [win EXCEPT ![w].closing = TRUE]
            /\ main' = main
       ELSE /\ win' = [win EXCEPT ![w].closing = TRUE, ![w].view = "removed",
                                  ![w].orphaned = (win[w].guest = "starting")]
            /\ Dispatch(ExitBlocks(TRUE, w))
    /\ UNCHANGED <<dock, registered, relaunch, onExit>>

\* Nothing refers to the window any more: its slot may be used again.
WindowReleased(w) ==
    /\ win[w].view = "removed" /\ win[w].guest \in {"failed", "dead"}
    /\ win[w].cleaned
    /\ \A i \in DOMAIN main :
         main[i] \notin {Block(do, w) : do \in {"dockAdd", "initialized", "failed", "cleanUp"}}
    /\ \A i \in DOMAIN main : main[i] # Block("dockRemove", win[w].container)
    /\ w \notin dock
    /\ win' = [win EXCEPT ![w] = NoWindow]
    /\ UNCHANGED <<main, dock, registered, relaunch, onExit>>

\* The relaunch manager gives up or is done: clearPending.
RelaunchEnds(key) ==
    /\ key \in relaunch
    /\ relaunch' = relaunch \ {key}
    /\ UNCHANGED <<win, main, dock, registered, onExit>>

\* The host's process is gone, and with it everything it knew of its windows.
WindowsLost ==
    /\ win' = [w \in Windows |-> NoWindow]
    /\ main' = <<>> /\ dock' = {}
    /\ registered' = {} /\ relaunch' = {}
    /\ UNCHANGED onExit

WindowStep(w) ==
    \/ DockAdd(w) \/ GuestStarts(w) \/ GuestFails(w) \/ Failed(w) \/ GuestRuns(w)
    \/ GuestDies(w) \/ Interrupted(w) \/ CleanUp(w) \/ CloseWindow(w) \/ WindowReleased(w)
=============================================================================
