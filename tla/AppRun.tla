-------------------------------- MODULE AppRun --------------------------------
(***************************************************************************)
(* Running an app: LCAppModel.runApp and forceResign,                       *)
(* src/LiveContainerRuntime/LiveContainerSwiftUI/Models/LCAppModel.swift,   *)
(* composed with AppSigning and MultitaskWindows.  They are asynchronous    *)
(* functions of no actor: a call may be overtaken at every await and, as    *)
(* several run on the pool's threads, between any two statements.  What     *)
(* keeps them apart is isAppRunning of the app's model; what they share is  *)
(* selected and selectedContainer in the user defaults.                     *)
(***************************************************************************)
EXTENDS Naturals, Sequences, FiniteSets

CONSTANTS Apps, Tasks, MaxWindows, None,
          Scenarios     \* sets of events of the world outside, see Happens

ASSUME ScenariosAssumption ==
    Scenarios \subseteq
        SUBSET {"run", "window", "resign", "install", "settings", "crash", "signingFails",
                "guestFails", "noExtension", "allApps", "anyBinary", "exits", "ends", "allTasks"}

VARIABLES
    kind, certificate, dontSign, exec, backup, patched, mark, sign,
    overlapped, contended, owed, stranded,
    win, main, dock, registered, relaunch, onExit,
    isAppRunning,       \* of each app's model
    call,               \* of each task, its call of runApp, forceResign or an installation
    reset,              \* of each task, the app whose flag its deferred task will clear
    box,                \* selected and selectedContainer in the user defaults
    raced,              \* history: apps that two calls of runApp were about at the same time
    mixed,              \*          two calls were between selected and the launch at once
    events              \* the events of this behaviour, chosen once by Init

Signing == INSTANCE AppSigning
Multitask == INSTANCE MultitaskWindows WITH Openers <- Tasks

ASSUME ConstantsAssumption ==
    /\ Apps # {} /\ Tasks # {} /\ MaxWindows \in Nat
    /\ None \notin Apps \cup Signing!Binaries

signingVars == <<kind, certificate, dontSign, exec, backup, patched, mark, sign,
                 overlapped, contended, owed, stranded>>
windowVars == <<win, main, dock, registered, relaunch, onExit>>
runVars == <<isAppRunning, call, reset, box, raced, mixed, events>>
vars == <<signingVars, windowVars, runVars>>

EmptyBox == [selected |-> None, container |-> None]
NoRun == [pc |-> "idle", app |-> None, multitask |-> FALSE, key |-> None, taken |-> EmptyBox]

RunTypeOK ==
    /\ Signing!SigningTypeOK
    /\ Multitask!WindowsTypeOK
    /\ isAppRunning \in [Apps -> BOOLEAN]
    /\ call \in [Tasks -> [pc : {"idle", "bring", "lock", "alert", "enter", "signing", "container",
                                 "launch", "await", "finish", "resign", "install"},
                           app : Apps \cup {None}, multitask : BOOLEAN,
                           key : (Apps \X Apps) \cup {None},
                           taken : [selected : Apps \cup {None}, container : Apps \cup {None}]]]
    /\ reset \in [Tasks -> Apps \cup {None}]
    /\ box \in [selected : Apps \cup {None}, container : Apps \cup {None}]
    /\ raced \subseteq Apps /\ mixed \in BOOLEAN
    /\ events \in Scenarios

Happens(event) == event \in events

\* Scenarios without "allApps" are about one app, those without "allTasks" have one call at a time.
Concerned == IF Happens("allApps") THEN Apps ELSE {CHOOSE a \in Apps : TRUE}
Callers == IF Happens("allTasks") THEN Tasks ELSE {CHOOSE t \in Tasks : TRUE}

\* Installed and patched by an earlier session, and to be signed.
InOrder(a) == kind[a] = "arm64" /\ patched[a] /\ ~exec[a].signed /\ ~dontSign[a]

\* Without "anyBinary" every app and the certificate are in order.
Init ==
    /\ events \in Scenarios
    /\ Signing!SigningInit
    /\ Happens("anyBinary") \/ certificate = IF Happens("window") THEN "none" ELSE "valid"
    /\ \A a \in Apps : (Happens("anyBinary") /\ a \in Concerned) \/ InOrder(a)
    /\ Multitask!WindowsInit
    /\ Happens("exits") \/ onExit = "page"
    /\ isAppRunning = [a \in Apps |-> FALSE]
    /\ call = [t \in Tasks |-> NoRun]
    /\ reset = [t \in Tasks |-> None]
    /\ box = EmptyBox
    /\ raced = {} /\ mixed = FALSE

At(t, pc) == call[t].pc = pc
Goto(t, pc) == call' = [call EXCEPT ![t].pc = pc]
App(t) == call[t].app
Free(t) == At(t, "idle") /\ reset[t] = None

\* No more windows than MaxWindows are asked for.
RoomForWindow ==
    Cardinality({w \in 1..MaxWindows : win[w] # Multitask!NoWindow})
      + Cardinality({t \in Tasks :
                       /\ call[t].multitask
                       /\ At(t, "await") => ~ \E w \in 1..MaxWindows : win[w].opener = t})
    < MaxWindows

(***************************************************************************)
(* runApp until it may run the app: the guard, an existing window, a guest  *)
(* that holds the container's lock, and the question what to do with the    *)
(* guests in windows.                                                       *)
(***************************************************************************)
StartRun(t, a, multitask, key) ==
    /\ Free(t)
    /\ ~isAppRunning[a]
    /\ multitask => RoomForWindow
    /\ LET bring == multitask \/ Multitask!IsMultitasking
       IN  /\ call' = [call EXCEPT ![t] = [NoRun EXCEPT !.pc = IF bring THEN "bring" ELSE "lock",
                                              !.app = a, !.multitask = multitask, !.key = key]]
           /\ main' = IF bring THEN Append(main, Multitask!Block("bring", t)) ELSE main
    /\ raced' = raced \cup {b \in {a} : \E u \in Tasks : call[u].app = b}
    /\ UNCHANGED <<signingVars, win, dock, registered, relaunch, onExit,
                   isAppRunning, reset, box, mixed, events>>

RunApp(t, a, multitask) ==
    /\ Happens(IF multitask THEN "window" ELSE "run")
    /\ StartRun(t, a, multitask, None)

\* The relaunch manager after its half second, if the app was not started too recently.
RelaunchApp(t, key) ==
    /\ key \in relaunch
    /\ \A u \in Tasks : call[u].key # key
    /\ StartRun(t, key[1], TRUE, key)

\* The call returns or throws without having set isAppRunning.
Return(t) == call' = [call EXCEPT ![t] = NoRun]
KeyDone(t) == relaunch' = relaunch \ {call[t].key}

\* Mutant: an app that is not shared is run without looking for its window.
BringExistingNever(t) ==
    /\ Multitask!IsHead("bring", t)
    /\ Multitask!DispatchFromHead(<<>>)
    /\ Goto(t, "lock")
    /\ UNCHANGED <<signingVars, win, dock, registered, relaunch, onExit,
                   isAppRunning, reset, box, raced, mixed, events>>

BringExisting(t) ==
    /\ Multitask!IsHead("bring", t)
    /\ Multitask!DispatchFromHead(<<>>)
    /\ IF Multitask!InDock(App(t))
       THEN Return(t) /\ KeyDone(t)
       ELSE Goto(t, "lock") /\ UNCHANGED relaunch
    /\ UNCHANGED <<signingVars, win, dock, registered, onExit,
                   isAppRunning, reset, box, raced, mixed, events>>

GuestHolds(a) == \E w \in 1..MaxWindows : win[w].guest = "running" /\ win[w].container = a

CheckLock(t) ==
    /\ At(t, "lock")
    /\ IF GuestHolds(App(t))
       THEN Return(t) /\ KeyDone(t)
       ELSE /\ Goto(t, IF Multitask!IsMultitasking /\ ~call[t].multitask THEN "alert" ELSE "enter")
            /\ UNCHANGED relaunch
    /\ UNCHANGED <<signingVars, win, main, dock, registered, onExit,
                   isAppRunning, reset, box, raced, mixed, events>>

\* Another copy is given the task, or the user is asked and declines; or accepts.
Declines(t) ==
    /\ At(t, "alert")
    /\ Return(t)
    /\ UNCHANGED <<signingVars, windowVars, isAppRunning, reset, box, raced, mixed, events>>

Accepts(t) ==
    /\ At(t, "alert")
    /\ Goto(t, "enter")
    /\ UNCHANGED <<signingVars, windowVars, isAppRunning, reset, box, raced, mixed, events>>

Enter(t) ==
    /\ At(t, "enter")
    /\ isAppRunning' = [isAppRunning EXCEPT ![App(t)] = TRUE]
    /\ Signing!Begin(t, App(t), FALSE)
    /\ Goto(t, "signing")
    /\ UNCHANGED <<windowVars, reset, box, raced, mixed, events>>

(***************************************************************************)
(* Signed: the user defaults tell whoever starts next what to run.          *)
(***************************************************************************)
SetSelected(t) ==
    /\ At(t, "signing") /\ sign[t].pc = "ok"
    /\ box' = [box EXCEPT !.selected = App(t)]
    /\ mixed' = (mixed \/ \E u \in Tasks : call[u].pc \in {"container", "launch"})
    /\ Goto(t, "container")
    /\ UNCHANGED <<signingVars, windowVars, isAppRunning, reset, raced, events>>

SetContainer(t) ==
    /\ At(t, "container")
    /\ box' = [box EXCEPT !.container = App(t)]
    /\ Goto(t, "launch")
    /\ UNCHANGED <<signingVars, windowVars, isAppRunning, reset, raced, mixed, events>>

\* LCUtils.launchMultitaskGuestApp takes both and creates the window on the main queue;
\* the call waits for the guest's process identifier.
LaunchWindow(t) ==
    /\ At(t, "launch") /\ call[t].multitask
    /\ ~Happens("noExtension")
    /\ call' = [call EXCEPT ![t].pc = "await", ![t].taken = box]
    /\ box' = EmptyBox
    /\ Multitask!Dispatch(<<Multitask!Block("create", t)>>)
    /\ UNCHANGED <<signingVars, win, dock, registered, relaunch, onExit,
                   isAppRunning, reset, raced, mixed, events>>

\* Mutant: the block that makes the window reads the defaults itself.
OpenWindowLate(t, w) ==
    /\ box.selected # None /\ box.container # None
    /\ Multitask!CreateWindow(t, w, box.selected, box.container)
    /\ UNCHANGED <<signingVars, runVars>>

\* Mutant: nothing but the container is looked at.
OpenWindowUnchecked(t, w) ==
    /\ call[t].taken.container # None
    /\ Multitask!CreateWindow(t, w, call[t].taken.selected, call[t].taken.container)
    /\ UNCHANGED <<signingVars, runVars>>

OpenWindow(t, w) ==
    /\ call[t].taken.selected # None /\ call[t].taken.container # None
    /\ Multitask!CreateWindow(t, w, call[t].taken.selected, call[t].taken.container)
    /\ UNCHANGED <<signingVars, runVars>>

\* The process identifier arrives and the call goes on, if it is the one of its own window.
PidAvailable(w) ==
    /\ Multitask!Initialized(w)
    /\ IF At(win[w].opener, "await") THEN Goto(win[w].opener, "finish") ELSE UNCHANGED call
    /\ UNCHANGED <<signingVars, isAppRunning, reset, box, raced, mixed, events>>

\* Mutant: without the defer.
EndWithoutReset(t) ==
    /\ Signing!CallerReturns(t)
    /\ Return(t)
    /\ reset' = reset

(***************************************************************************)
(* The end of a call that set isAppRunning: defer posts a task that clears  *)
(* the flag some time later, once more if the call itself cleared it.       *)
(***************************************************************************)
End(t) ==
    /\ Signing!CallerReturns(t)
    /\ Return(t)
    /\ reset' = [reset EXCEPT ![t] = App(t)]

Finish(t) ==
    /\ At(t, "finish")
    /\ End(t)
    /\ isAppRunning' = [isAppRunning EXCEPT ![App(t)] = FALSE]
    /\ KeyDone(t)
    /\ UNCHANGED <<win, main, dock, registered, onExit, box, raced, mixed, events>>

SigningThrows(t) ==
    /\ At(t, "signing") /\ sign[t].pc = "failed"
    /\ End(t)
    /\ KeyDone(t)
    /\ UNCHANGED <<win, main, dock, registered, onExit, isAppRunning, box, raced, mixed, events>>

\* The copy was installed without the LiveProcess extension: the call throws before the
\* defaults are read or cleared.
ExtensionMissing(t) ==
    /\ At(t, "launch") /\ call[t].multitask
    /\ Happens("noExtension")
    /\ End(t)
    /\ KeyDone(t)
    /\ UNCHANGED <<win, main, dock, registered, onExit, isAppRunning, box, raced, mixed, events>>

LateReset(t) ==
    /\ reset[t] # None
    /\ isAppRunning' = [isAppRunning EXCEPT ![reset[t]] = FALSE]
    /\ reset' = [reset EXCEPT ![t] = None]
    /\ UNCHANGED <<signingVars, windowVars, call, box, raced, mixed, events>>

ForceResign(t, a) ==
    /\ Happens("resign")
    /\ Free(t)
    /\ ~isAppRunning[a]
    /\ isAppRunning' = [isAppRunning EXCEPT ![a] = TRUE]
    /\ Signing!Begin(t, a, TRUE)
    /\ call' = [call EXCEPT ![t] = [NoRun EXCEPT !.pc = "resign", !.app = a]]
    /\ UNCHANGED <<windowVars, reset, box, raced, mixed, events>>

ResignEnds(t) ==
    /\ At(t, "resign") /\ sign[t].pc \in {"ok", "failed"}
    /\ End(t)
    /\ UNCHANGED <<windowVars, isAppRunning, box, raced, mixed, events>>

\* An installation signs what it installed without asking anyone's isAppRunning.
InstallApp(t, a) ==
    /\ Happens("install")
    /\ Free(t)
    /\ Signing!Install(t, a)
    /\ call' = [call EXCEPT ![t] = [NoRun EXCEPT !.pc = "install", !.app = a]]
    /\ UNCHANGED <<windowVars, isAppRunning, reset, box, raced, mixed, events>>

InstallEnds(t) ==
    /\ At(t, "install") /\ sign[t].pc \in {"ok", "failed"}
    /\ Signing!CallerReturns(t)
    /\ Return(t)
    /\ UNCHANGED <<windowVars, isAppRunning, reset, box, raced, mixed, events>>

(***************************************************************************)
(* The end of the process, and the next one that shows the app list; what   *)
(* the defaults selected is run and cleared in between, see GuestLaunch.    *)
(***************************************************************************)
ProcessEnds(otherError) ==
    /\ Signing!Restart(otherError)
    /\ Multitask!WindowsLost
    /\ isAppRunning' = [a \in Apps |-> FALSE]
    /\ call' = [t \in Tasks |-> NoRun]
    /\ reset' = [t \in Tasks |-> None]
    /\ box' = EmptyBox
    /\ raced' = {} /\ mixed' = FALSE
    /\ UNCHANGED events

Crash(otherError) == Happens("crash") /\ ProcessEnds(otherError)

\* launchToGuestApp: the copy restarts as the guest.
LaunchGuest(t, otherError) ==
    /\ At(t, "launch") /\ ~call[t].multitask
    /\ ProcessEnds(otherError)

\* A window without a bundle or a container is an exception on the main thread.
OpenNothing(t, otherError) ==
    /\ Multitask!IsHead("create", t)
    /\ None \in {call[t].taken.selected, call[t].taken.container}
    /\ ProcessEnds(otherError)

(***************************************************************************)
(* The steps of the parts.                                                  *)
(***************************************************************************)
SigningProceeds(t) ==
    /\ \/ Signing!CopyExec(t) \/ Signing!RemoveExec(t) \/ Signing!MoveBackup(t)
       \/ Signing!PatchExec(t) \/ Signing!Refuse32bit(t) \/ Signing!Decide(t)
       \/ Signing!ZSigns(t) \/ Signing!Report(t)
       \/ Signing!PatchFails(t) /\ (Happens("signingFails") \/ exec[sign[t].app] = None)
       \/ Signing!ZSignFails(t) /\ (Happens("signingFails") \/ exec[sign[t].app] = None)
    /\ UNCHANGED <<windowVars, runVars>>

SettingChanges(a) ==
    /\ Happens("settings")
    /\ Signing!RepatchNext(a)
    /\ UNCHANGED <<windowVars, runVars>>

\* The main queue is served.
MainProceeds ==
    \/ \E t \in Tasks :
         \/ BringExisting(t)
         \/ \E w \in 1..MaxWindows : OpenWindow(t, w)
         \/ \E otherError \in BOOLEAN : OpenNothing(t, otherError)
    \/ \E w \in 1..MaxWindows :
         \/ PidAvailable(w)
         \/ /\ Multitask!DockAdd(w) \/ Multitask!Failed(w) \/ Multitask!CleanUp(w)
            /\ UNCHANGED <<signingVars, runVars>>
    \/ \E a \in Apps : Multitask!DockRemove(a) /\ UNCHANGED <<signingVars, runVars>>

\* The extension calls back and a guest gets on; the slot of a window that failed is kept
\* as long as a call waits for it.
GuestProceeds(w) ==
    /\ \/ Multitask!GuestStarts(w) \/ Multitask!GuestRuns(w) \/ Multitask!Interrupted(w)
       \/ Happens("guestFails") /\ Multitask!GuestFails(w)
       \/ /\ win[w].guest = "failed" => ~At(win[w].opener, "await")
          /\ Multitask!WindowReleased(w)
    /\ UNCHANGED <<signingVars, runVars>>

\* Guests die and users close windows when they like.
GuestDies(w) == Happens("ends") /\ Multitask!GuestDies(w) /\ UNCHANGED <<signingVars, runVars>>
UserCloses(w) == Happens("ends") /\ Multitask!CloseWindow(w) /\ UNCHANGED <<signingVars, runVars>>

RelaunchTooSoon(key) ==
    /\ \A t \in Tasks : call[t].key # key
    /\ Multitask!RelaunchEnds(key)
    /\ UNCHANGED <<signingVars, runVars>>

TaskProceeds(t) ==
    \/ CheckLock(t) \/ Declines(t) \/ Accepts(t) \/ Enter(t) \/ SigningProceeds(t)
    \/ SetSelected(t) \/ SetContainer(t) \/ LaunchWindow(t) \/ Finish(t) \/ SigningThrows(t)
    \/ ExtensionMissing(t) \/ LateReset(t) \/ ResignEnds(t) \/ InstallEnds(t)
    \/ \E otherError \in BOOLEAN : LaunchGuest(t, otherError)

Next ==
    \/ \E t \in Tasks : TaskProceeds(t)
    \/ \E t \in Callers, a \in Concerned :
         ForceResign(t, a) \/ InstallApp(t, a) \/ \E multitask \in BOOLEAN : RunApp(t, a, multitask)
    \/ \E t \in Callers, key \in relaunch : RelaunchApp(t, key)
    \/ \E key \in relaunch : RelaunchTooSoon(key)
    \/ MainProceeds
    \/ \E w \in 1..MaxWindows : GuestProceeds(w) \/ GuestDies(w) \/ UserCloses(w)
    \/ \E a \in Concerned : SettingChanges(a)
    \/ \E otherError \in BOOLEAN : Crash(otherError)

Spec == Init /\ [][Next]_vars

(***************************************************************************)
(* Fairness: threads go on, alerts are answered, zsign and the extension    *)
(* call back, the main queue is served, and a guest that is killed dies.    *)
(* Of the actions of a task or a window one at most is enabled, but for     *)
(* those that end the same wait.                                            *)
(***************************************************************************)
FairSpec ==
    /\ Spec
    /\ \A t \in Tasks : WF_vars(TaskProceeds(t))
    /\ \A w \in 1..MaxWindows : WF_vars(GuestProceeds(w) \/ (win[w].closing /\ GuestDies(w)))
    /\ WF_vars(MainProceeds)

(***************************************************************************)
(* Properties.                                                              *)
(***************************************************************************)
\* The properties of AppSigning, for the calls runApp, forceResign and an installation make.
\* See there.
ExecutableKept == Signing!ExecutableKept
SignedIsRunnable == Signing!SignedIsRunnable
MarkIsTrue == Signing!MarkIsTrue
SigningIsMarked == Signing!SigningIsMarked

\* A window runs the app of the call that opened it, in that app's container, although
\* both pass through one place in the defaults and the window is made by a later block;
\* unless two calls were between selected and the launch at the same time.
WindowPairs ==
    ~mixed => \A w \in 1..MaxWindows :
                  /\ win[w].app = win[w].container
                  /\ win[w].guest = "starting" => win[w].app = App(win[w].opener)

\* Every guest the host runs has a window the user can see and close, but for those whose
\* window was closed before their process existed: closeWindow forgets them.
GuestHasWindow ==
    \A w \in 1..MaxWindows : Multitask!Alive(w) => win[w].view = "shown" \/ win[w].orphaned

\* A running guest's container counts as used and the dock has or is about to get its
\* window, so that its app is brought to the front instead of run again.  Two windows of
\* one container spoil this: what is cleaned up after one is removed for both.
GuestIsReachable ==
    \A w \in 1..MaxWindows :
        Multitask!Alive(w) /\ win[w].view = "shown" /\ win[w].company = "none" =>
            /\ win[w].container \in registered
            /\ \/ \E i \in DOMAIN main : main[i] = Multitask!Block("dockAdd", w)
               \/ w \in dock

\* Two guests in windows share a container only if two calls for it raced past the test of
\* isAppRunning or mixed up the defaults, or if both came while an older window of the
\* container had not been cleaned up.
OneWindowPerContainer ==
    \A v, w \in 1..MaxWindows :
        /\ v # w /\ win[v].container = win[w].container
        /\ Multitask!Alive(v) /\ win[v].view = "shown"
        /\ Multitask!Alive(w) /\ win[w].view = "shown"
        => \/ mixed \/ win[v].container \in raced
           \/ win[v].company = "earlier" /\ win[w].company = "earlier"

\* isAppRunning, without which an app cannot be run again, is cleared whatever fails and
\* whoever is killed: unless the guest's process does not come up, which nobody tells the
\* call that waits for its identifier.
FlagClears ==
    \A a \in Apps :
        isAppRunning[a] ~>
          \/ ~isAppRunning[a]
          \/ \E t \in Tasks, w \in 1..MaxWindows :
                call[t].app = a /\ win[w].opener = t /\ win[w].guest = "failed"

\* A window closed while its guest runs goes away, from the screen and from the dock, and
\* so does the guest.
ClosedGoesAway ==
    \A w \in 1..MaxWindows :
        win[w].closing /\ Multitask!Alive(w) /\ ~win[w].orphaned ~>
          /\ ~Multitask!Alive(w) /\ win[w].view # "shown"
          /\ w \notin dock
=============================================================================
