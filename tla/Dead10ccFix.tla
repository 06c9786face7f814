------------------------------ MODULE Dead10ccFix ------------------------------
(***************************************************************************)
(* The 0xdead10cc workaround,                                               *)
(* src/LiveContainerRuntime/LiveContainer/Tweaks/Dead10ccFix.m.  iOS kills  *)
(* a process it suspends while it holds a lock on a file of the app group,  *)
(* unless the file carries an extended attribute.  In the background, when  *)
(* no background task is left, the workaround lists the open descriptors,   *)
(* looks for locked files, marks them, and does so again every two seconds. *)
(* It runs on the main thread; the guest's other threads open, lock, unlock *)
(* and close files meanwhile.  The time of a timer is left out, and of      *)
(* deboundeToken only what it decides: a timer started earlier returns.     *)
(***************************************************************************)
EXTENDS Naturals, FiniteSets, FiniteSetsExt

CONSTANTS Files, None,
          FileKinds,    \* what the files may be, see Kinds
          MaxFds,       \* the limit on descriptors
          MaxCallbacks  \* bound on the scans that are due when the app leaves the screen

\* "other": journals of SQLite, special files and those that cannot be found by their path.
Kinds == {"database", "plain", "unlinked", "other"}

ASSUME FixAssumption ==
    /\ None \notin Files /\ MaxFds \in Nat /\ MaxCallbacks \in Nat
    /\ FileKinds \subseteq [Files -> Kinds]

VARIABLES
    kind,               \* of each file, chosen by Init
    state,              \* of the process
    tasks,              \* has the guest a background task?
    waiting, due,       \* callbacks UIKit holds until the last task ends, and those to run now
    timer,              \* is the timer with the current token pending?
    fds, own,           \* the file of each descriptor; the descriptors the guest opened itself
    locked, marked,     \* files the guest holds a lock on; files with the attribute
    scan,               \* of _lock_lockedFilePathsIgnoring, on the main thread
    \* History, of the locked files and since the app left the foreground:
    late,               \* those locked after the last listing
    missed              \* those the last scan should have checked and did not

fixVars == <<kind, state, tasks, waiting, due, timer, fds, own, locked, marked, scan, late, missed>>
processVars == <<state, tasks>>
fileVars == <<fds, own, locked, late>>
loopVars == <<waiting, due, timer>>

Descriptors == 1..MaxFds
Watched == {f \in Files : kind[f] \in {"database", "plain"}}

NoScan == [pc |-> "idle", list |-> {}, count |-> 0, paths |-> {}, found |-> {}]

SuspendTypeOK ==
    /\ kind \in FileKinds
    /\ state \in {"active", "background", "suspended"} /\ tasks \in BOOLEAN
    /\ waiting \in 0..MaxCallbacks + 1 /\ due \in 0..MaxCallbacks + 1 /\ timer \in BOOLEAN
    /\ fds \in [Descriptors -> Files \cup {None}] /\ own \subseteq Descriptors
    /\ \A d \in own : fds[d] # None
    /\ locked \subseteq {fds[d] : d \in own} /\ marked \subseteq Watched
    /\ scan \in [pc : {"idle", "look", "check"}, list : SUBSET Descriptors, count : 0..MaxFds,
                 paths : SUBSET Files, found : SUBSET Watched]
    /\ late \subseteq locked /\ missed \subseteq locked

Init ==
    /\ kind \in FileKinds
    /\ state = "active" /\ tasks = FALSE
    /\ waiting = 0 /\ due = 0 /\ timer = FALSE
    /\ fds = [d \in Descriptors |-> None] /\ own = {} /\ locked = {} /\ marked = {}
    /\ scan = NoScan /\ late = {} /\ missed = {}

-----------------------------------------------------------------------------
(***************************************************************************)
(* The guest's threads, which run until the process is suspended.  A lock   *)
(* goes with any descriptor of its file that the guest closes.              *)
(***************************************************************************)
Running == state # "suspended"
Free == {d \in Descriptors : fds[d] = None}

Open(f) ==
    /\ Running /\ Free # {} /\ \A d \in own : fds[d] # f
    /\ fds' = [fds EXCEPT ![Min(Free)] = f]
    /\ own' = own \cup {Min(Free)}
    /\ UNCHANGED <<kind, processVars, loopVars, locked, marked, scan, late, missed>>

Releases(f) == locked' = locked \ {f} /\ late' = late \ {f} /\ missed' = missed \ {f}

Close(d) ==
    /\ Running /\ d \in own
    /\ fds' = [fds EXCEPT ![d] = None]
    /\ own' = own \ {d}
    /\ Releases(fds[d])
    /\ UNCHANGED <<kind, processVars, loopVars, marked, scan>>

Lock(d) ==
    /\ Running /\ d \in own /\ fds[d] \notin locked
    /\ locked' = locked \cup {fds[d]}
    /\ late' = late \cup {fds[d]}
    /\ UNCHANGED <<kind, processVars, loopVars, fds, own, marked, scan, missed>>

Unlock(f) ==
    /\ Running /\ f \in locked
    /\ Releases(f)
    /\ UNCHANGED <<kind, processVars, loopVars, fds, own, marked, scan>>

TaskStarts ==
    /\ Running /\ ~tasks
    /\ tasks' = TRUE
    /\ UNCHANGED <<kind, state, loopVars, fileVars, marked, scan, missed>>

TaskEnds ==
    /\ tasks
    /\ tasks' = FALSE
    /\ due' = due + waiting /\ waiting' = 0
    /\ UNCHANGED <<kind, state, timer, fileVars, marked, scan, missed>>

-----------------------------------------------------------------------------
(* The main thread. *)
MainIsFree == Running /\ scan.pc = "idle"

\* -[UIApplication _handleTaskCompletionAndTerminate:], called with the workaround as self:
\* _terminateWithStatus: is called once no background task is left.
\* Mutant: it is called at once or never.
HandleTaskCompletionNow ==
    /\ due' = IF tasks THEN due ELSE due + 1
    /\ UNCHANGED waiting

HandleTaskCompletion ==
    IF tasks THEN waiting' = waiting + 1 /\ UNCHANGED due
             ELSE due' = due + 1 /\ UNCHANGED waiting

EnterBackground ==
    /\ state = "active" /\ MainIsFree
    /\ waiting + due < MaxCallbacks
    /\ state' = "background"
    /\ HandleTaskCompletion
    /\ late' = {} /\ missed' = {}
    /\ UNCHANGED <<kind, tasks, timer, fds, own, locked, marked, scan>>

BecomeActive ==
    /\ state # "active" /\ scan.pc = "idle"
    /\ state' = "active"
    /\ UNCHANGED <<kind, tasks, loopVars, fileVars, marked, scan, missed>>

\* iOS suspends a process of the background that has nothing left to do.
Suspend ==
    /\ state = "background" /\ ~tasks /\ due = 0 /\ MainIsFree
    /\ state' = "suspended"
    /\ UNCHANGED <<kind, tasks, loopVars, fileVars, marked, scan, missed>>

TimerFires ==
    /\ timer /\ MainIsFree
    /\ timer' = FALSE
    /\ HandleTaskCompletion
    /\ UNCHANGED <<kind, processVars, fileVars, marked, scan, missed>>

\* _terminateWithStatus: begins; the descriptors are listed.
ListFds ==
    /\ due > 0 /\ MainIsFree
    /\ due' = due - 1
    /\ scan' = [NoScan EXCEPT !.pc = "look", !.list = Descriptors \ Free,
                              !.count = Cardinality(Descriptors \ Free)]
    /\ late' = {} /\ missed' = {}
    /\ UNCHANGED <<kind, processVars, waiting, timer, fds, own, locked, marked>>

\* One round of the loop.  After a failed lookup it tries the same descriptor again, while
\* the count of the rounds goes down: the last descriptors are not looked at.
\* Mutant: the loop ends with the list, not with the count.
LookUntilListEnds ==
    LET d == Min(scan.list)
        known == fds[d] # None /\ kind[fds[d]] # "unlinked"
    IN  /\ scan.pc = "look" /\ scan.list # {}
        /\ scan' = [scan EXCEPT !.count = scan.count - 1,
                                !.list = IF known THEN scan.list \ {d} ELSE scan.list,
                                !.paths = IF known THEN scan.paths \cup {fds[d]} ELSE scan.paths]
        /\ UNCHANGED <<kind, processVars, loopVars, fileVars, marked, missed>>

Look ==
    LET d == Min(scan.list)
        known == fds[d] # None /\ kind[fds[d]] # "unlinked"
    IN  /\ scan.pc = "look" /\ scan.count > 0
        /\ scan' = [scan EXCEPT !.count = scan.count - 1,
                                !.list = IF known THEN scan.list \ {d} ELSE scan.list,
                                !.paths = IF known THEN scan.paths \cup {fds[d]} ELSE scan.paths]
        /\ UNCHANGED <<kind, processVars, loopVars, fileVars, marked, missed>>

LookDone ==
    /\ scan.pc = "look" /\ scan.count = 0
    /\ scan' = [scan EXCEPT !.pc = "check"]
    /\ missed' = {f \in locked \ scan.paths : \E d \in scan.list : fds[d] = f}
    /\ UNCHANGED <<kind, processVars, loopVars, fileVars, marked>>

CheckSkips(f) ==
    /\ scan.pc = "check" /\ f \in scan.paths
    /\ f \notin Watched \/ f \in marked
    /\ scan' = [scan EXCEPT !.paths = scan.paths \ {f}]
    /\ UNCHANGED <<kind, processVars, loopVars, fileVars, marked, missed>>

Found(f) == IF f \in locked THEN scan.found \cup {f} ELSE scan.found

\* SQLite is asked.
CheckDatabase(f) ==
    /\ scan.pc = "check" /\ f \in scan.paths \ marked /\ kind[f] = "database"
    /\ scan' = [scan EXCEPT !.paths = scan.paths \ {f}, !.found = Found(f)]
    /\ UNCHANGED <<kind, processVars, loopVars, fileVars, marked, missed>>

\* The file is opened to ask for its locks, and not closed.
CheckFile(f) ==
    /\ scan.pc = "check" /\ f \in scan.paths \ marked /\ kind[f] = "plain"
    /\ IF Free = {}
       THEN /\ missed' = missed \cup ({f} \cap locked)
            /\ scan' = [scan EXCEPT !.paths = scan.paths \ {f}]
            /\ UNCHANGED fds
       ELSE /\ fds' = [fds EXCEPT ![Min(Free)] = f]
            /\ scan' = [scan EXCEPT !.paths = scan.paths \ {f}, !.found = Found(f)]
            /\ UNCHANGED missed
    /\ UNCHANGED <<kind, processVars, loopVars, own, locked, late, marked>>

\* The files found are marked.  Outside the foreground a timer with a new token is started.
\* Mutant: the token the timer carries is read before it is incremented.
ScanDoneOldToken ==
    /\ scan.pc = "check" /\ scan.paths = {}
    /\ marked' = marked \cup scan.found
    /\ timer' = (state = "active" /\ timer)
    /\ scan' = NoScan
    /\ UNCHANGED <<kind, processVars, waiting, due, fileVars, missed>>

\* Mutant: the timer is started wherever the app is.
ScanDoneAnyState ==
    /\ scan.pc = "check" /\ scan.paths = {}
    /\ marked' = marked \cup scan.found
    /\ timer' = TRUE
    /\ scan' = NoScan
    /\ UNCHANGED <<kind, processVars, waiting, due, fileVars, missed>>

ScanDone ==
    /\ scan.pc = "check" /\ scan.paths = {}
    /\ marked' = marked \cup scan.found
    /\ timer' = (state # "active" \/ timer)
    /\ scan' = NoScan
    /\ UNCHANGED <<kind, processVars, waiting, due, fileVars, missed>>

-----------------------------------------------------------------------------
Scan == Look \/ LookDone \/ (\E f \in Files : CheckSkips(f) \/ CheckDatabase(f) \/ CheckFile(f))
             \/ ScanDone

Next ==
    \/ \E f \in Files : Open(f) \/ Unlock(f)
    \/ \E d \in Descriptors : Close(d) \/ Lock(d)
    \/ TaskStarts \/ TaskEnds
    \/ EnterBackground \/ BecomeActive \/ Suspend
    \/ TimerFires \/ ListFds \/ Scan

Spec == Init /\ [][Next]_fixVars

\* The main thread goes on and background tasks end; nobody has to come back or to lock.
FairSpec ==
    /\ Spec
    /\ WF_fixVars(Scan) /\ WF_fixVars(ListFds) /\ WF_fixVars(TimerFires) /\ WF_fixVars(TaskEnds)

-----------------------------------------------------------------------------
\* A process is suspended only after a scan of its own: every lock it then holds is on a
\* marked file, or was taken after the last listing, or on a file that scan failed to check.
\* A lock taken in the foreground is never excused as late, whatever background tasks follow.
SuspendedMarked ==
    state = "suspended" => locked \cap Watched \subseteq marked \cup late \cup missed

\* As long as the process stays in the background the scans go on: a lock taken at any time
\* gets its mark, however listings, tasks and timers follow each other.
LockGetsMarked ==
    \A f \in Files : (f \in locked \cap Watched /\ state = "background")
                        ~> (f \notin locked \/ f \in marked \/ f \in missed \/ state # "background")

\* The loop ends in the foreground: an app that is used is not scanned every two seconds.
LoopEnds == (state = "active") ~> (state # "active" \/ (~timer /\ waiting = 0 /\ due = 0 /\ scan = NoScan))
=============================================================================
