----------------------------- MODULE GuestLaunch -----------------------------
(***************************************************************************)
(* How a guest app is started: the bootstrap of every process               *)
(* (LCBootstrap.m), the container lock (LCSharedUtils.m), and those who ask *)
(* for a launch (the app list of a running copy, a guest that is sent a     *)
(* launch URL, the Launch App intent, the JIT helper).                      *)
(*                                                                          *)
(* Several copies of the app may be installed, each under its own URL       *)
(* scheme.  A copy has one main process, which is the app list ("ui") or a  *)
(* guest, and its app list may host guests in child processes (LiveProcess, *)
(* the multitasking windows).  They share three stores, read and written    *)
(* without a common lock: the user defaults of a copy, the shared defaults  *)
(* of the app group and the file containerLock.plist.  Each access to a     *)
(* store is an action, and a process may be killed between any two.         *)
(***************************************************************************)
EXTENDS Integers, Sequences, FiniteSets

CONSTANTS
    Copies,         \* installed copies, by their URL scheme
    Primary,        \* the copy that owns the private apps ("livecontainer")
    Apps,
    Shared,         \* apps every copy can run; the others belong to Primary
    Folders,        \* data containers
    LCContainers,   \* the containers of each app
    LCDataUUID,     \* and its default one
    None,           \* nil
    MaxStarts       \* bound on the processes started

ASSUME LaunchAssumption ==
    /\ Primary \in Copies /\ Shared \subseteq Apps
    /\ LCContainers \in [Apps -> SUBSET Folders]
    /\ \A a \in Apps : LCDataUUID[a] \in LCContainers[a]
    /\ \A a, b \in Apps : a # b => LCContainers[a] \cap LCContainers[b] = {}
    /\ None \notin Apps \cup Folders
    /\ MaxStarts \in Nat

VARIABLES
    procs,          \* every process started so far; its index is its audit token
    selected,       \* selected and selectedContainer, in the user defaults of each copy's
                    \* app and of its LiveProcess extension
    task,           \* the LCLaunchExtension keys of the shared defaults
    lock,           \* containerLock.plist: who uses a container, who last started a guest
                    \* under a scheme; 0 for no entry
    overlapped      \* history: some process was started while another was starting

vars == <<procs, selected, task, lock, overlapped>>

Kinds == {"main", "live"}
Requests == [app : Apps \cup {None}, box : Folders \cup {None}]
NoRequest == [app |-> None, box |-> None]
Tasks == [copy : Copies, app : Apps \cup {None}, box : Folders \cup {None}, fresh : BOOLEAN]
Tokens == 0..MaxStarts
Locks == [folder : [Folders -> Tokens], scheme : [Copies -> Tokens]]
NoLock == [folder |-> [f \in Folders |-> 0], scheme |-> [l \in Copies |-> 0]]
Phases == {"handoff", "boot", "check", "lock", "save", "ui", "guest", "dead"}

\* run is what the process runs, next what it was asked for; seen the lock file it read.
Processes == [copy : Copies, kind : Kinds, phase : Phases,
              run : Requests, next : Requests, seen : Locks]

LaunchTypeOK ==
    /\ procs \in Seq(Processes) /\ Len(procs) <= MaxStarts
    /\ \A i \in 1..Len(procs) :
          /\ procs[i].phase \in {"check", "lock", "save", "guest"} => procs[i].run.app \in Apps
          /\ procs[i].phase \in {"lock", "save", "guest"} => procs[i].run.box \in Folders
    /\ selected \in [Copies -> [Kinds -> Requests]]
    /\ task \in Tasks
    /\ lock \in Locks
    /\ overlapped \in BOOLEAN

Init ==
    /\ procs = <<>>
    /\ selected = [l \in Copies |-> [k \in Kinds |-> NoRequest]]
    /\ task = [copy |-> Primary, app |-> None, box |-> None, fresh |-> FALSE]
    /\ lock = NoLock
    /\ overlapped = FALSE

-----------------------------------------------------------------------------
\* A token is dead once csops answers ESRCH.
Alive(i) == i \in 1..Len(procs) /\ procs[i].phase # "dead"
Starting(i) == procs[i].phase \in {"handoff", "boot", "check", "lock", "save"}
Guest(i) == procs[i].phase = "guest"

\* getContainerUsingLCSchemeWithFolderName and isLCSchemeInUse.
InUse(f) == f # None /\ Alive(lock.folder[f])
SchemeInUse(l) == Alive(lock.scheme[l])

Runs(l, a) == a \in Shared \/ l = Primary

Step(i, p) == procs' = [procs EXCEPT ![i] = p]
\* Of a process that is gone only its token is left.
Dead == [copy |-> Primary, kind |-> "main", phase |-> "dead",
         run |-> NoRequest, next |-> NoRequest, seen |-> NoLock]

StartProcess(others, l, kind, phase, next) ==
    /\ Len(procs) < MaxStarts
    /\ overlapped' = (overlapped \/ \E i \in 1..Len(procs) : Starting(i))
    /\ procs' = Append(others, [copy |-> l, kind |-> kind, phase |-> phase,
                                run |-> NoRequest, next |-> next, seen |-> NoLock])

\* iOS starts a copy that has no main process: the user opens it, a URL names it, or it
\* asked to be started again before it killed itself.
StartCopy(l) ==
    /\ ~\E i \in 1..Len(procs) : Alive(i) /\ procs[i].copy = l /\ procs[i].kind = "main"
    /\ StartProcess(procs, l, "main", "boot", NoRequest)
    /\ UNCHANGED <<selected, task, lock>>

\* A process is killed, crashes or gives up with an error.
Die(i) ==
    /\ Alive(i)
    /\ Step(i, Dead)
    /\ UNCHANGED <<selected, task, lock, overlapped>>

-----------------------------------------------------------------------------
(* Those who ask for a launch.                                             *)

\* The app list (runApp) or a guest that is sent a launch URL (handleLiveContainerLaunch)
\* finds the container free; signing, or the user's answer, comes next.
Ask(i, a, f) ==
    LET box == IF f = None THEN LCDataUUID[a] ELSE f IN
    /\ procs[i].kind = "main" /\ procs[i].next = NoRequest
    /\ Guest(i) \/ (procs[i].phase = "ui" /\ f # None)
    /\ Runs(procs[i].copy, a)
    /\ ~InUse(box)
    /\ Step(i, [procs[i] EXCEPT !.next = [app |-> a, box |-> f]])
    /\ UNCHANGED <<selected, task, lock, overlapped>>

\* launchToGuestApp: the copy records what to run and has itself restarted.
Relaunch(i) ==
    /\ procs[i].kind = "main" /\ procs[i].next # NoRequest
    /\ selected' = [selected EXCEPT ![procs[i].copy]["main"] = procs[i].next]
    /\ Step(i, Dead)
    /\ UNCHANGED <<task, lock, overlapped>>

\* The user declines, or signing fails.
Decline(i) ==
    /\ procs[i].kind = "main" /\ procs[i].next # NoRequest
    /\ Step(i, [procs[i] EXCEPT !.next = NoRequest])
    /\ UNCHANGED <<selected, task, lock, overlapped>>

\* launchMultitaskGuestApp: a child process gets the request as its input item.
OpenWindow(i) ==
    /\ procs[i].phase = "ui" /\ procs[i].next # NoRequest
    /\ StartProcess([procs EXCEPT ![i].next = NoRequest],
                    procs[i].copy, "live", "handoff", procs[i].next)
    /\ selected' = [selected EXCEPT ![procs[i].copy]["main"] = NoRequest]
    /\ UNCHANGED <<task, lock>>

\* Mutant: what an earlier child was handed is not overwritten.
HandoffKeepsPending(i) ==
    /\ procs[i].phase = "handoff"
    /\ selected' = [selected EXCEPT ![procs[i].copy]["live"] = IF @ = NoRequest THEN procs[i].next ELSE @]
    /\ Step(i, [procs[i] EXCEPT !.phase = "boot"])
    /\ UNCHANGED <<task, lock, overlapped>>

\* LiveProcessMain passes it on through the extension's user defaults.
Handoff(i) ==
    /\ procs[i].phase = "handoff"
    /\ selected' = [selected EXCEPT ![procs[i].copy]["live"] = procs[i].next]
    /\ Step(i, [procs[i] EXCEPT !.phase = "boot"])
    /\ UNCHANGED <<task, lock, overlapped>>

\* The Launch App intent, the share sheet, and an app list that is multitasking leave a
\* task for a copy of their choice: a free one if the app is shared and there is one.
PostTask(a, f) ==
    LET box == IF f = None THEN LCDataUUID[a] ELSE f IN
    /\ ~InUse(box)
    /\ \E l \in Copies :
          /\ IF a \in Shared /\ \E c \in Copies : ~SchemeInUse(c) THEN ~SchemeInUse(l)
                                                                ELSE l = Primary
          /\ task' = [copy |-> l, app |-> a, box |-> box, fresh |-> TRUE]
    /\ UNCHANGED <<procs, selected, lock, overlapped>>

\* askForJIT with a helper app that is a shared guest: the task names no container.
AskForJIT(i, a) ==
    /\ procs[i].kind = "main" /\ procs[i].phase = "ui"
    /\ a \in Shared
    /\ \E l \in Copies :
          /\ IF InUse(LCDataUUID[a]) THEN l = procs[lock.folder[LCDataUUID[a]]].copy
                                     ELSE l # procs[i].copy /\ ~SchemeInUse(l)
          /\ task' = [task EXCEPT !.copy = l, !.app = a, !.fresh = TRUE]
    /\ UNCHANGED <<procs, selected, lock, overlapped>>

\* Three seconds pass.
TaskExpires ==
    /\ task.app # None /\ task.fresh
    /\ task' = [task EXCEPT !.fresh = FALSE]
    /\ UNCHANGED <<procs, selected, lock, overlapped>>

-----------------------------------------------------------------------------
(* LiveContainerMain.                                                      *)

\* Without an app to run a main process shows the app list; a child has nothing to do.
ToUI(i) == IF procs[i].kind = "main"
           THEN [procs[i] EXCEPT !.phase = "ui", !.run = NoRequest]
           ELSE Dead

\* findDefaultContainerWithBundleId looks at the shared apps only.
Defaulted(a, box) == [app |-> a, box |-> IF box = None /\ a \in Shared THEN LCDataUUID[a] ELSE box]

\* selected comes first; a task is taken, and removed, if there is none.
Boot(i) ==
    LET r     == selected[procs[i].copy][procs[i].kind]
        takes == /\ r.app = None /\ procs[i].kind = "main"
                 /\ task.copy = procs[i].copy /\ task.app # None /\ task.fresh
        Run(a, box) == [procs[i] EXCEPT !.phase = "check", !.run = Defaulted(a, box)] IN
    /\ procs[i].phase = "boot"
    /\ Step(i, IF r.app # None THEN Run(r.app, r.box)
               ELSE IF takes THEN Run(task.app, task.box)
               ELSE ToUI(i))
    /\ task' = IF takes THEN [task EXCEPT !.app = None, !.box = None] ELSE task
    /\ UNCHANGED <<selected, lock, overlapped>>

\* Mutants: selected is cleared by a redirection only; there is no container to fall back on.
CheckClearsOnRedirect(i) ==
    LET run == procs[i].run IN
    /\ procs[i].phase = "check"
    /\ selected' = IF InUse(run.box)
                   THEN [selected EXCEPT ![procs[i].copy][procs[i].kind] = NoRequest]
                   ELSE selected
    /\ Step(i, IF InUse(run.box) THEN ToUI(i)
               ELSE [procs[i] EXCEPT !.phase = "lock",
                        !.run.box = IF @ = None THEN LCDataUUID[run.app] ELSE @])
    /\ UNCHANGED <<task, lock, overlapped>>
CheckWithoutFallback(i) ==
    /\ procs[i].phase = "check"
    /\ selected' = [selected EXCEPT ![procs[i].copy][procs[i].kind] = NoRequest]
    /\ Step(i, IF InUse(procs[i].run.box) THEN ToUI(i) ELSE [procs[i] EXCEPT !.phase = "lock"])
    /\ UNCHANGED <<task, lock, overlapped>>

\* If another process uses the container the user is sent there; otherwise invokeAppMain
\* goes on, with the container of LCAppInfo.plist if there is still none.
Check(i) ==
    LET run == procs[i].run IN
    /\ procs[i].phase = "check"
    /\ selected' = [selected EXCEPT ![procs[i].copy][procs[i].kind] = NoRequest]
    /\ Step(i, IF InUse(run.box) THEN ToUI(i)
               ELSE [procs[i] EXCEPT !.phase = "lock",
                        !.run.box = IF @ = None THEN LCDataUUID[run.app] ELSE @])
    /\ UNCHANGED <<task, lock, overlapped>>

\* Mutant: the container is claimed before the guest runs.
LockReadClaims(i) ==
    /\ procs[i].phase = "lock"
    /\ Step(i, [procs[i] EXCEPT !.phase = "save", !.seen = lock])
    /\ lock' = [lock EXCEPT !.folder[procs[i].run.box] = i]
    /\ UNCHANGED <<selected, task, overlapped>>

\* setContainerUsingByLC reads the whole file ...
LockRead(i) ==
    /\ procs[i].phase = "lock"
    /\ Step(i, [procs[i] EXCEPT !.phase = "save", !.seen = lock])
    /\ UNCHANGED <<selected, task, lock, overlapped>>

\* Mutants: only the scheme, or only the container, is recorded.
LockSaveScheme(i) ==
    /\ procs[i].phase = "save"
    /\ lock' = [procs[i].seen EXCEPT !.scheme[procs[i].copy] = i]
    /\ Step(i, [procs[i] EXCEPT !.phase = "guest", !.seen = NoLock])
    /\ UNCHANGED <<selected, task, overlapped>>
LockSaveFolder(i) ==
    /\ procs[i].phase = "save"
    /\ lock' = [procs[i].seen EXCEPT !.folder[procs[i].run.box] = i]
    /\ Step(i, [procs[i] EXCEPT !.phase = "guest", !.seen = NoLock])
    /\ UNCHANGED <<selected, task, overlapped>>

\* ... and replaces it.
LockSave(i) ==
    /\ procs[i].phase = "save"
    /\ lock' = [procs[i].seen EXCEPT !.folder[procs[i].run.box] = i,
                                     !.scheme[procs[i].copy] = i]
    /\ Step(i, [procs[i] EXCEPT !.phase = "guest", !.seen = NoLock])
    /\ UNCHANGED <<selected, task, overlapped>>

-----------------------------------------------------------------------------
Next ==
    \/ TaskExpires
    \/ \E l \in Copies : StartCopy(l)
    \/ \E a \in Apps : \E f \in LCContainers[a] \cup {None} : PostTask(a, f)
    \/ \E i \in 1..Len(procs) :
          \/ Die(i) \/ Relaunch(i) \/ Decline(i) \/ OpenWindow(i) \/ Handoff(i)
          \/ Boot(i) \/ Check(i) \/ LockRead(i) \/ LockSave(i)
          \/ \E a \in Apps : AskForJIT(i, a)
          \/ \E a \in Apps : \E f \in LCContainers[a] \cup {None} : Ask(i, a, f)

Spec == Init /\ [][Next]_vars
-----------------------------------------------------------------------------
(* Properties.                                                             *)

Guests == {i \in 1..Len(procs) : Guest(i)}
AtHome(i) == Guest(i) /\ procs[i].run.box \in LCContainers[procs[i].run.app]

\* Unless two processes ever started at the same time, no two guests share a container of
\* their app, whatever was killed, asked for or left behind in the three stores: neither a
\* container that was free when the user was asked and is taken now, nor a private app's
\* default container, which LiveContainerMain does not look up in the lock file.
OneGuestPerContainer ==
    ~overlapped => \A i, j \in 1..Len(procs) :
        AtHome(i) /\ AtHome(j) /\ procs[i].run.box = procs[j].run.box => i = j

\* Under the same condition a copy that is itself a guest is never taken for a free one.
GuestCopyInUse ==
    ~overlapped => \A i \in Guests : procs[i].kind = "main" => SchemeInUse(procs[i].copy)

\* Under the same condition a multitasking window shows the app it was opened for.
WindowShowsItsApp ==
    ~overlapped => \A i \in Guests : procs[i].kind = "live" => procs[i].run = procs[i].next

\* Whoever finds a container in use is sent to a copy that runs it, even after updates
\* of the lock file were lost.
RedirectFindsGuest ==
    \A f \in Folders : InUse(f) => LET h == lock.folder[f] IN Guest(h) /\ procs[h].run.box = f

\* A task that names no container starts its app in the default one: whatever a guest
\* runs in is one of its app's own containers.
BoxBelongsToApp == \A i \in Guests : procs[i].run.box \in LCContainers[procs[i].run.app]

\* A guest that crashes is not started again by the next start of its copy: the user
\* gets the app list back.
CrashReturnsToUI ==
    \A i \in Guests : procs[i].kind = "main" => selected[procs[i].copy]["main"] = NoRequest
=============================================================================
