-------------------------- MODULE GuestLaunchProofs --------------------------
(***************************************************************************)
(* Theorems about GuestLaunch, for every set of copies, apps and containers *)
(* and every number of processes.  The inductive invariant has three parts: *)
(* StoresInv and Boxes hold whatever happens, SerialInv as long as no       *)
(* process was started while another was starting.                          *)
(***************************************************************************)
EXTENDS GuestLaunch, TLAPS, SequenceTheorems

Ids == 1..Len(procs)

(* What holds even when processes start at the same time.                    *)

\* Only a dead process has nothing left to do, and a request without an app is none.
RequestsOK ==
    /\ \A i \in Ids : procs[i].phase = "dead" => procs[i].next = NoRequest
    /\ \A i \in Ids : procs[i].next.app = None => procs[i].next = NoRequest
    /\ \A l \in Copies, k \in Kinds : selected[l][k].app = None => selected[l][k] = NoRequest
    /\ \A i \in Ids : procs[i].kind = "live" => procs[i].next # NoRequest

\* Only a main process shows the app list, and only a child has something handed on to it.
Roles ==
    /\ \A i \in Ids : procs[i].phase = "ui" => procs[i].kind = "main"
    /\ \A i \in Ids : procs[i].phase = "handoff" => procs[i].kind = "live"

\* A copy has one main process.
Main(i) == Alive(i) /\ procs[i].kind = "main"
OneMain ==
    \A i, j \in Ids : Main(i) /\ Main(j) /\ procs[i].copy = procs[j].copy => i = j

\* Past Check, and in the app list, the copy's selected is cleared.
Cleared ==
    \A i \in Ids : procs[i].kind = "main" /\ procs[i].phase \in {"ui", "lock", "save", "guest"}
        => selected[procs[i].copy]["main"] = NoRequest

\* A token in the lock file, or in anyone's copy of it, is dead or a guest in that container.
Holds(P, L) == \A f \in Folders :
    LET h == L.folder[f] IN
    h # 0 => /\ h \in 1..Len(P)
             /\ P[h].phase = "dead" \/ (P[h].phase = "guest" /\ P[h].run.box = f)
Holders == Holds(procs, lock) /\ \A i \in Ids : Holds(procs, procs[i].seen)

StoresInv == RequestsOK /\ Roles /\ OneMain /\ Cleared /\ Holders

(* What also holds as long as no two processes started at the same time.     *)

\* Private apps are run by Primary only.  A request without a container waits with a guest
\* of a main process, and only a private app is started without one.
Private(a) == a \in Apps \ Shared
Placed(p) ==
    /\ Private(p.next.app) \/ Private(p.run.app) => p.copy = Primary
    /\ p.next # NoRequest /\ p.next.box = None => p.kind = "main" /\ p.phase = "guest"
    /\ p.phase = "check" /\ p.run.box = None => p.kind = "main" /\ Private(p.run.app)
Boxes ==
    /\ \A i \in Ids : Placed(procs[i])
    /\ \A l \in Copies, k \in Kinds : Private(selected[l][k].app) => l = Primary
    /\ \A l \in Copies : selected[l]["live"].app # None => selected[l]["live"].box # None
    /\ Private(task.app) => task.copy = Primary /\ task.box # None

StartPhases == {"handoff", "boot", "check", "lock", "save"}
Serial == \A i, j \in Ids : Starting(i) /\ Starting(j) => i = j

\* A child runs what it was handed.
KeepsRequest(p, sel) ==
    p.kind = "live" =>
        /\ p.phase = "boot" => sel[p.copy]["live"] = p.next
        /\ p.phase \in {"check", "lock", "save", "guest"} => p.run = p.next
ChildKeepsRequest == \A i \in Ids : KeepsRequest(procs[i], selected)

\* No child starts while its copy is a guest, or is to become one without a container.
NoChildStarts(P, l) ==
    \A j \in 1..Len(P) : P[j].phase \in StartPhases /\ P[j].copy = l => P[j].kind = "main"
QuietCopies ==
    /\ \A i \in Ids : Guest(i) /\ procs[i].kind = "main" => NoChildStarts(procs, procs[i].copy)
    /\ \A l \in Copies : selected[l]["main"].app # None /\ selected[l]["main"].box = None
                            => NoChildStarts(procs, l)

\* Guests are in the lock file, and whoever is about to replace it has read its last state.
Recorded ==
    /\ \A i \in Ids : AtHome(i) => lock.folder[procs[i].run.box] = i
    /\ \A i \in Ids : Guest(i) /\ procs[i].kind = "main" => lock.scheme[procs[i].copy] = i
    /\ \A i \in Ids : procs[i].phase = "save" => procs[i].seen = lock

\* What is about to be taken is free.
Vacant(P, f) ==
    \A j \in 1..Len(P) :
        P[j].phase = "guest" /\ P[j].run.box \in LCContainers[P[j].run.app] => P[j].run.box # f
Reserved == \A i \in Ids : procs[i].phase \in {"lock", "save"} => Vacant(procs, procs[i].run.box)

\* What a private app will be given unasked is free.
Expects(p, a) ==
    \/ p.next = [app |-> a, box |-> None]
    \/ p.phase = "check" /\ p.run = [app |-> a, box |-> None]
DefaultsFree ==
    \A a \in Apps \ Shared :
        selected[Primary]["main"] = [app |-> a, box |-> None] \/ (\E i \in Ids : Expects(procs[i], a))
            => Vacant(procs, LCDataUUID[a])

SerialInv == ~overlapped =>
    Serial /\ ChildKeepsRequest /\ QuietCopies /\ Recorded /\ Reserved /\ DefaultsFree

IInv == LaunchTypeOK /\ StoresInv /\ Boxes /\ SerialInv

-----------------------------------------------------------------------------
(* A step of one process, and the start of one.                              *)

(* The length of procs, and what an element of it is. *)
LEMMA ProcsFacts ==
  ASSUME LaunchTypeOK
  PROVE  /\ Len(procs) \in Nat /\ Len(procs) <= MaxStarts
         /\ \A i \in Ids : procs[i] \in Processes /\ i \in Nat /\ i \in Tokens /\ i # 0
<1>1. procs \in Seq(Processes) /\ Len(procs) <= MaxStarts
  BY DEF LaunchTypeOK
<1>2. Len(procs) \in Nat
  BY <1>1, LenProperties
<1>3. \A i \in Ids : procs[i] \in Processes
  BY <1>1, ElementOfSeq DEF Ids
<1>. QED  BY <1>1, <1>2, <1>3, LaunchAssumption DEF Ids, Tokens

(* One process changes. *)
LEMMA StepFacts ==
  ASSUME LaunchTypeOK, NEW i \in Ids, NEW p \in Processes, Step(i, p)
  PROVE  /\ procs' \in Seq(Processes) /\ Len(procs') = Len(procs) /\ Ids' = Ids
         /\ procs'[i] = p
         /\ \A j \in Ids : j # i => procs'[j] = procs[j]
<1>1. procs \in Seq(Processes)
  BY DEF LaunchTypeOK
<1>2. procs' = [procs EXCEPT ![i] = p]
  BY DEF Step
<1>3. /\ procs' \in Seq(Processes) /\ Len(procs') = Len(procs)
      /\ \A j \in 1..Len(procs) : procs'[j] = IF j = i THEN p ELSE procs[j]
  BY <1>1, <1>2, ExceptSeq DEF Ids
<1>. QED  BY <1>3 DEF Ids

\* The process StartProcess adds.
Newest == Len(procs) + 1
Fresh(l, kind, phase, next) ==
    [copy |-> l, kind |-> kind, phase |-> phase,
     run |-> NoRequest, next |-> next, seen |-> NoLock]

(* One process is added. *)
LEMMA StartFacts ==
  ASSUME LaunchTypeOK, NEW others \in Seq(Processes), Len(others) = Len(procs),
         NEW l \in Copies, NEW kind \in Kinds, NEW phase \in Phases, NEW next \in Requests,
         StartProcess(others, l, kind, phase, next)
  PROVE  /\ procs' \in Seq(Processes) /\ Len(procs') <= MaxStarts
         /\ Newest \notin Ids /\ Ids' = Ids \cup {Newest}
         /\ procs'[Newest] = Fresh(l, kind, phase, next)
         /\ Fresh(l, kind, phase, next) \in Processes
         /\ \A j \in Ids : procs'[j] = others[j]
         /\ overlapped' = (overlapped \/ \E i \in Ids : Starting(i))
<1> DEFINE p == Fresh(l, kind, phase, next)
<1>1. NoLock \in Locks /\ NoRequest \in Requests
  BY LaunchAssumption DEF NoLock, Locks, Tokens, NoRequest, Requests
<1>2. p \in Processes
  BY <1>1 DEF Processes, Fresh
<1>3. procs' = Append(others, p) /\ Len(procs) < MaxStarts
      /\ overlapped' = (overlapped \/ \E i \in Ids : Starting(i))
  BY DEF StartProcess, Ids, Fresh
<1>4. Len(procs) \in Nat
  BY ProcsFacts
<1> HIDE DEF p
<1>5. /\ procs' \in Seq(Processes) /\ Len(procs') = Len(others) + 1
      /\ \A j \in 1..Len(others) : procs'[j] = others[j]
      /\ procs'[Len(others) + 1] = p
  BY <1>2, <1>3, AppendProperties
<1>6. Len(procs) + 1 <= MaxStarts
  BY <1>3, <1>4, LaunchAssumption
<1>7. Ids' = Ids \cup {Len(procs) + 1} /\ Len(procs) + 1 \notin Ids
  BY <1>4, <1>5 DEF Ids
<1>. QED  BY <1>3, <1>4, <1>5, <1>6, <1>7 DEF p, Ids, Newest

(* The user defaults of one copy are written.                                *)
LEMMA SelectedFacts ==
  ASSUME LaunchTypeOK, NEW l \in Copies, NEW k \in Kinds, NEW r \in Requests,
         selected' = [selected EXCEPT ![l][k] = r]
  PROVE  /\ selected' \in [Copies -> [Kinds -> Requests]]
         /\ \A c \in Copies, h \in Kinds :
               selected'[c][h] = IF c = l /\ h = k THEN r ELSE selected[c][h]
  BY DEF LaunchTypeOK

(* The types of the constants, of no request and of a dead process. *)
LEMMA NothingTypes ==
  /\ NoRequest \in Requests /\ NoLock \in Locks /\ Primary \in Copies
  /\ Dead \in Processes /\ Dead.phase = "dead" /\ Dead.kind = "main"
  /\ Dead.next = NoRequest /\ Dead.run = NoRequest /\ Dead.seen = NoLock /\ Dead.copy = Primary
  /\ \A a \in Apps : LCDataUUID[a] \in Folders /\ LCDataUUID[a] # None
  /\ \A a \in Apps : LCContainers[a] \subseteq Folders
<1>1. NoLock \in Locks /\ NoRequest \in Requests /\ Primary \in Copies
  BY LaunchAssumption DEF NoLock, Locks, Tokens, NoRequest, Requests
<1>2. \A a \in Apps : LCContainers[a] \subseteq Folders
  BY LaunchAssumption
<1>3. \A a \in Apps : LCDataUUID[a] \in Folders /\ LCDataUUID[a] # None
  BY <1>2, LaunchAssumption
<1>. QED  BY <1>1, <1>2, <1>3 DEF Dead, Processes, Kinds, Phases

(* The types of a process, field by field.                                   *)
LEMMA ProcessFields ==
  ASSUME NEW p \in Processes
  PROVE  /\ p.copy \in Copies /\ p.kind \in Kinds /\ p.phase \in Phases
         /\ p.run \in Requests /\ p.next \in Requests /\ p.seen \in Locks
         /\ p.run.app \in Apps \cup {None} /\ p.run.box \in Folders \cup {None}
         /\ p.next.app \in Apps \cup {None} /\ p.next.box \in Folders \cup {None}
         /\ p = [copy |-> p.copy, kind |-> p.kind, phase |-> p.phase,
                  run |-> p.run, next |-> p.next, seen |-> p.seen]
  BY DEF Processes, Requests

\* What LaunchTypeOK says of one process.
ProcessOK(p) ==
    /\ p.phase \in {"check", "lock", "save", "guest"} => p.run.app \in Apps
    /\ p.phase \in {"lock", "save", "guest"} => p.run.box \in Folders

(* A step of one process keeps procs well typed. *)
LEMMA TypeByStep ==
  ASSUME LaunchTypeOK, NEW i \in Ids, NEW p \in Processes, ProcessOK(p), Step(i, p)
  PROVE  /\ procs' \in Seq(Processes) /\ Len(procs') <= MaxStarts
         /\ \A j \in 1..Len(procs') : ProcessOK(procs'[j])
<1>1. /\ procs' \in Seq(Processes) /\ Len(procs') = Len(procs)
      /\ procs'[i] = p /\ \A j \in Ids : j # i => procs'[j] = procs[j]
  BY StepFacts
<1>2. \A j \in Ids : ProcessOK(procs[j])
  BY DEF LaunchTypeOK, ProcessOK, Ids
<1>3. \A j \in Ids : ProcessOK(procs'[j])
  BY <1>1, <1>2
<1>. QED  BY <1>1, <1>3 DEF LaunchTypeOK, Ids

\* A request becomes what a process runs.
LEMMA DefaultedFacts ==
  ASSUME NEW a \in Apps, NEW b \in Folders \cup {None}
  PROVE  /\ Defaulted(a, b) \in Requests /\ Defaulted(a, b).app = a
         /\ Defaulted(a, b).box = IF b = None /\ a \in Shared THEN LCDataUUID[a] ELSE b
  BY NothingTypes DEF Defaulted, Requests

(* LaunchTypeOK is inductive.                                                *)
LEMMA TypeInit == Init => LaunchTypeOK
<1> SUFFICES ASSUME Init PROVE LaunchTypeOK
  OBVIOUS
<1>1. procs \in Seq(Processes) /\ Len(procs) = 0
  BY EmptySeq DEF Init
<1>2. task \in Tasks
  BY NothingTypes DEF Init, Tasks
<1>3. selected \in [Copies -> [Kinds -> Requests]] /\ lock \in Locks /\ overlapped \in BOOLEAN
  BY NothingTypes DEF Init
<1>4. Len(procs) <= MaxStarts
  BY <1>1, LaunchAssumption
<1>5. \A i \in 1..Len(procs) : FALSE
  BY <1>1
<1>. QED  BY <1>1, <1>2, <1>3, <1>4, <1>5 DEF LaunchTypeOK

(* One step per action; the actions of one process go through <1>b. *)
LEMMA TypeStep == LaunchTypeOK /\ [Next]_vars => LaunchTypeOK'
<1> SUFFICES ASSUME LaunchTypeOK, [Next]_vars PROVE LaunchTypeOK'
  OBVIOUS
<1> USE NothingTypes
<1>a. /\ selected \in [Copies -> [Kinds -> Requests]] /\ task \in Tasks
      /\ lock \in Locks /\ overlapped \in BOOLEAN /\ procs \in Seq(Processes)
  BY DEF LaunchTypeOK
<1>b. ASSUME NEW i \in Ids, NEW p \in Processes, ProcessOK(p), Step(i, p),
             selected' \in [Copies -> [Kinds -> Requests]], task' \in Tasks,
             lock' \in Locks, UNCHANGED overlapped
      PROVE  LaunchTypeOK'
  BY <1>a, <1>b, TypeByStep DEF LaunchTypeOK, ProcessOK
<1>c. \A i \in Ids : procs[i] \in Processes /\ ProcessOK(procs[i]) /\ i \in Tokens
  BY ProcsFacts DEF LaunchTypeOK, ProcessOK, Ids
<1>1. CASE TaskExpires
  BY <1>a, <1>1 DEF TaskExpires, Tasks, LaunchTypeOK
<1>2. ASSUME NEW l \in Copies, StartCopy(l) PROVE LaunchTypeOK'
  <2>1. StartProcess(procs, l, "main", "boot", NoRequest)
    BY <1>2 DEF StartCopy
  <2>2. /\ procs' \in Seq(Processes) /\ Len(procs') <= MaxStarts
        /\ Ids' = Ids \cup {Newest} /\ procs'[Newest].phase = "boot"
        /\ \A j \in Ids : procs'[j] = procs[j]
    <3>1. "main" \in Kinds /\ "boot" \in Phases
      BY DEF Kinds, Phases
    <3>2. NoRequest \in Requests /\ procs \in Seq(Processes) /\ LaunchTypeOK
      BY <1>a
    <3>3. /\ procs' \in Seq(Processes) /\ Len(procs') <= MaxStarts
          /\ Ids' = Ids \cup {Newest} /\ procs'[Newest] = Fresh(l, "main", "boot", NoRequest)
          /\ \A j \in Ids : procs'[j] = procs[j]
      BY <2>1, <3>1, <3>2, StartFacts
    <3>. QED  BY <3>3 DEF Fresh
  <2>3. overlapped' \in BOOLEAN
    BY <2>1 DEF StartProcess
  <2>. QED  BY <1>a, <1>2, <1>c, <2>2, <2>3 DEF LaunchTypeOK, StartCopy, ProcessOK, Ids
<1>3. ASSUME NEW a \in Apps, NEW f \in LCContainers[a] \cup {None}, PostTask(a, f)
      PROVE  LaunchTypeOK'
  BY <1>a, <1>3 DEF PostTask, Tasks, LaunchTypeOK
<1>4. ASSUME NEW i \in Ids, Die(i) \/ Relaunch(i) PROVE LaunchTypeOK'
  <2>1. Step(i, Dead) /\ ProcessOK(Dead)
    BY <1>4 DEF Die, Relaunch, ProcessOK
  <2>2. selected' \in [Copies -> [Kinds -> Requests]]
    BY <1>4, <1>a, <1>c, SelectedFacts DEF Die, Relaunch, Processes
  <2>. QED  BY <1>4, <1>a, <1>b, <2>1, <2>2 DEF Die, Relaunch
<1>5. ASSUME NEW i \in Ids, Decline(i) PROVE LaunchTypeOK'
  <2> DEFINE p == [procs[i] EXCEPT !.next = NoRequest]
  <2>1. p \in Processes /\ ProcessOK(p)
    BY <1>c DEF Processes, ProcessOK
  <2>. QED  BY <1>a, <1>b, <1>5, <2>1 DEF Decline
<1>6. ASSUME NEW i \in Ids, OpenWindow(i) PROVE LaunchTypeOK'
  <2> DEFINE others == [procs EXCEPT ![i].next = NoRequest]
             p == [procs[i] EXCEPT !.next = NoRequest]
  <2>1. p \in Processes /\ ProcessOK(p) /\ others = [procs EXCEPT ![i] = p]
    BY <1>c DEF Processes, ProcessOK
  <2>2. /\ others \in Seq(Processes) /\ Len(others) = Len(procs)
        /\ \A j \in Ids : others[j] = IF j = i THEN p ELSE procs[j]
    BY <1>a, <2>1, ExceptSeq DEF Ids
  <2>3. \A j \in Ids : ProcessOK(others[j])
    BY <1>c, <2>1, <2>2
  <2>4. /\ StartProcess(others, procs[i].copy, "live", "handoff", procs[i].next)
        /\ selected' = [selected EXCEPT ![procs[i].copy]["main"] = NoRequest]
        /\ UNCHANGED <<task, lock>>
    BY <1>6 DEF OpenWindow
  <2>5. procs[i].copy \in Copies /\ procs[i].next \in Requests
    BY <1>c DEF Processes
  <2> HIDE DEF others, p
  <2>6. /\ procs' \in Seq(Processes) /\ Len(procs') <= MaxStarts
        /\ Ids' = Ids \cup {Newest} /\ procs'[Newest].phase = "handoff"
        /\ \A j \in Ids : procs'[j] = others[j]
    <3>1. "live" \in Kinds /\ "handoff" \in Phases
      BY DEF Kinds, Phases
    <3>2. /\ procs' \in Seq(Processes) /\ Len(procs') <= MaxStarts
          /\ Ids' = Ids \cup {Newest}
          /\ procs'[Newest] = Fresh(procs[i].copy, "live", "handoff", procs[i].next)
          /\ \A j \in Ids : procs'[j] = others[j]
      BY <2>2, <2>4, <2>5, <3>1, StartFacts
    <3>. QED  BY <3>2 DEF Fresh
  <2>7. overlapped' \in BOOLEAN /\ selected' \in [Copies -> [Kinds -> Requests]]
    BY <1>a, <2>4, <2>5, SelectedFacts DEF StartProcess, Kinds
  <2>. QED  BY <1>a, <2>3, <2>4, <2>6, <2>7 DEF LaunchTypeOK, ProcessOK, Ids
<1>7. ASSUME NEW i \in Ids, Handoff(i) PROVE LaunchTypeOK'
  <2> DEFINE p == [procs[i] EXCEPT !.phase = "boot"]
  <2>1. p \in Processes /\ ProcessOK(p)
    BY <1>c DEF Processes, ProcessOK, Phases
  <2>2. selected' \in [Copies -> [Kinds -> Requests]]
    BY <1>7, <1>c, SelectedFacts DEF Handoff, Processes, Kinds
  <2>. QED  BY <1>a, <1>b, <1>7, <2>1, <2>2 DEF Handoff
<1>8. ASSUME NEW i \in Ids, Boot(i) PROVE LaunchTypeOK'
  <2> DEFINE r == selected[procs[i].copy][procs[i].kind]
             Run(a, box) == [procs[i] EXCEPT !.phase = "check", !.run = Defaulted(a, box)]
  <2>1. r \in Requests
    BY <1>a, <1>c, ProcessFields
  <2>2. ASSUME NEW a \in Apps, NEW box \in Folders \cup {None}
        PROVE  Run(a, box) \in Processes /\ ProcessOK(Run(a, box))
    <3>1. Defaulted(a, box) \in Requests /\ Defaulted(a, box).app = a
      BY DefaultedFacts
    <3>. QED  BY <1>c, <3>1 DEF Processes, ProcessOK, Phases
  <2>3. ToUI(i) \in Processes /\ ProcessOK(ToUI(i))
    BY <1>c DEF ToUI, Processes, ProcessOK, Phases
  <2>4. PICK p \in Processes : ProcessOK(p) /\ Step(i, p)
    <3>1. CASE r.app # None
      BY <1>8, <2>1, <2>2, <3>1 DEF Boot, Requests
    <3>2. CASE r.app = None /\ Step(i, Run(task.app, task.box)) /\ task.app # None
      BY <1>a, <2>2, <3>2 DEF Tasks
    <3>3. CASE Step(i, ToUI(i))
      BY <2>3, <3>3
    <3>. QED  BY <1>8, <3>1, <3>2, <3>3 DEF Boot
  <2>5. task' \in Tasks
    BY <1>a, <1>8 DEF Boot, Tasks
  <2>. QED  BY <1>a, <1>b, <1>8, <2>4, <2>5 DEF Boot
<1>9. ASSUME NEW i \in Ids, Check(i) PROVE LaunchTypeOK'
  <2> DEFINE p == [procs[i] EXCEPT !.phase = "lock",
                     !.run.box = IF @ = None THEN LCDataUUID[procs[i].run.app] ELSE @]
  <2>1. procs[i].run.app \in Apps /\ procs[i].run \in Requests
    BY <1>c, <1>9 DEF Check, ProcessOK, Processes
  <2>2. p \in Processes /\ ProcessOK(p)
    BY <1>c, <2>1 DEF Processes, ProcessOK, Phases, Requests
  <2>3. ToUI(i) \in Processes /\ ProcessOK(ToUI(i))
    BY <1>c DEF ToUI, Processes, ProcessOK, Phases
  <2>4. Step(i, ToUI(i)) \/ Step(i, p)
    BY <1>9 DEF Check
  <2>5. selected' \in [Copies -> [Kinds -> Requests]]
    BY <1>9, <1>c, ProcessFields, SelectedFacts DEF Check
  <2> HIDE DEF p
  <2>. QED  BY <1>a, <1>b, <1>9, <2>2, <2>3, <2>4, <2>5 DEF Check
<1>10. ASSUME NEW i \in Ids, LockRead(i) PROVE LaunchTypeOK'
  <2> DEFINE p == [procs[i] EXCEPT !.phase = "save", !.seen = lock]
  <2>1. p \in Processes /\ ProcessOK(p)
    BY <1>a, <1>c, <1>10 DEF Processes, ProcessOK, Phases, LockRead
  <2>. QED  BY <1>a, <1>b, <1>10, <2>1 DEF LockRead
<1>11. ASSUME NEW i \in Ids, LockSave(i) PROVE LaunchTypeOK'
  <2> DEFINE p == [procs[i] EXCEPT !.phase = "guest", !.seen = NoLock]
  <2>1. p \in Processes /\ ProcessOK(p)
    BY <1>c, <1>11 DEF Processes, ProcessOK, Phases, LockSave
  <2>2. lock' \in Locks
    BY <1>c, <1>11 DEF LockSave, Processes, Locks, ProcessOK
  <2>. QED  BY <1>a, <1>b, <1>11, <2>1, <2>2 DEF LockSave
<1>12. ASSUME NEW i \in Ids, NEW a \in Apps, AskForJIT(i, a) PROVE LaunchTypeOK'
  BY <1>a, <1>12 DEF AskForJIT, Tasks, LaunchTypeOK
<1>13. ASSUME NEW i \in Ids, NEW a \in Apps, NEW f \in LCContainers[a] \cup {None},
              Ask(i, a, f)
       PROVE  LaunchTypeOK'
  <2> DEFINE p == [procs[i] EXCEPT !.next = [app |-> a, box |-> f]]
  <2>1. p \in Processes /\ ProcessOK(p)
    BY <1>c DEF Processes, ProcessOK, Requests
  <2>. QED  BY <1>a, <1>b, <1>13, <2>1 DEF Ask
<1>14. CASE UNCHANGED vars
  BY <1>14 DEF vars, LaunchTypeOK
<1>. QED
  BY <1>1, <1>2, <1>3, <1>4, <1>5, <1>6, <1>7, <1>8, <1>9, <1>10, <1>11, <1>12, <1>13, <1>14
  DEF Next, Ids

-----------------------------------------------------------------------------
(* StoresInv is inductive.                                                   *)

\* The dead stay dead, and a guest is the same guest until it dies.
GuestsStay ==
    \A j \in Ids :
        /\ j \in Ids'
        /\ procs[j].phase = "dead" => procs'[j].phase = "dead"
        /\ Guest(j) => \/ procs'[j].phase = "dead"
                       \/ procs'[j].phase = "guest" /\ procs'[j].run = procs[j].run

(* Tokens stay good: whom they named is the same guest, or dead. *)
LEMMA HoldsKept ==
  ASSUME GuestsStay, NEW L, Holds(procs, L)
  PROVE  Holds(procs', L)
BY DEF GuestsStay, Holds, Guest, Ids

(* An empty lock file names nobody. *)
LEMMA NoLockHolds ==
  ASSUME NEW P PROVE Holds(P, NoLock)
BY DEF Holds, NoLock

\* What a process may leave behind when one step turns it into p.
Successor(i, p) ==
    /\ p.phase # "dead" /\ p.copy = procs[i].copy /\ p.kind = procs[i].kind
    /\ p.next.app = None => p.next = NoRequest
    /\ p.kind = "live" => p.next # NoRequest
    /\ p.phase # "handoff" /\ (p.phase = "ui" => p.kind = "main")
    /\ p.kind = "main" /\ p.phase \in {"ui", "lock", "save", "guest"}
          => selected'[p.copy]["main"] = NoRequest
    /\ Guest(i) => p.phase = "guest" /\ p.run = procs[i].run
    /\ p.seen \in {procs[i].seen, lock, NoLock}

(* StoresInv is kept by a step of one process, which may write its own copy's selected and,
   in the lock file, entries it read or its own. *)
LEMMA StoresByStep ==
  ASSUME LaunchTypeOK, StoresInv,
         NEW i \in Ids, NEW p \in Processes, Step(i, p), Alive(i),
         p = Dead \/ Successor(i, p),
         \A c \in Copies, k \in Kinds :
            \/ selected'[c][k] = selected[c][k]
            \/ /\ c = procs[i].copy /\ k = procs[i].kind
               /\ selected'[c][k] = NoRequest \/ selected'[c][k].app # None,
         \A f \in Folders :
            \/ lock'.folder[f] \in {lock.folder[f], procs[i].seen.folder[f]}
            \/ lock'.folder[f] = i /\ p.phase = "guest" /\ p.run.box = f
  PROVE  StoresInv' /\ GuestsStay
<1> USE NothingTypes
<1>1. /\ Ids' = Ids /\ Len(procs') = Len(procs) /\ procs'[i] = p
      /\ \A j \in Ids : j # i => procs'[j] = procs[j]
  BY StepFacts
<1>2. \A j \in Ids : procs[j] \in Processes
  BY ProcsFacts
<1>3. RequestsOK'
  BY <1>1 DEF StoresInv, RequestsOK, Successor
<1>r. Roles'
  BY <1>1 DEF StoresInv, Roles, Successor
<1>4. \A j \in Ids : Main(j)' => Main(j) /\ procs'[j].copy = procs[j].copy
  BY <1>1 DEF Main, Alive, Successor, Ids
<1>5. OneMain'
  BY <1>1, <1>4 DEF StoresInv, OneMain
<1>6. Cleared'
  <2> SUFFICES ASSUME NEW j \in Ids, procs'[j].kind = "main",
                      procs'[j].phase \in {"ui", "lock", "save", "guest"}
               PROVE  selected'[procs'[j].copy]["main"] = NoRequest
    BY <1>1 DEF Cleared
  <2>1. CASE j = i
    BY <1>1, <2>1 DEF Successor
  <2>2. CASE j # i
    <3>1. procs'[j] = procs[j] /\ procs[j].copy \in Copies /\ "main" \in Kinds
      BY <1>1, <1>2, <2>2, ProcessFields DEF Kinds
    <3>2. selected[procs[j].copy]["main"] = NoRequest
      BY <3>1 DEF StoresInv, Cleared
    <3>3. ~(Main(i) /\ procs[i].copy = procs[j].copy)
      BY <2>2, <3>1 DEF StoresInv, OneMain, Main, Alive, Ids
    <3>. QED  BY <3>1, <3>2, <3>3 DEF Main
  <2>. QED  BY <2>1, <2>2
<1>7. GuestsStay
  BY <1>1 DEF GuestsStay, Successor, Guest, Alive
<1>8. Holds(procs', lock) /\ \A j \in Ids : Holds(procs', procs[j].seen)
  BY <1>7, HoldsKept DEF StoresInv, Holders
<1>9. Holds(procs', lock')
  BY <1>1, <1>8 DEF Holds, Ids
<1>10. \A j \in Ids : Holds(procs', procs'[j].seen)
  BY <1>1, <1>8, NoLockHolds DEF Successor
<1>. QED  BY <1>1, <1>3, <1>r, <1>5, <1>6, <1>7, <1>9, <1>10 DEF StoresInv, Holders

\* A process is started by no one, or by an app list whose request it takes over.
LEMMA StoresByStart ==
  ASSUME LaunchTypeOK, StoresInv,
         NEW l \in Copies, NEW kind \in Kinds, NEW phase \in Phases, NEW next \in Requests,
         phase = IF kind = "main" THEN "boot" ELSE "handoff",
         kind = "main" => ~\E i \in Ids : Main(i) /\ procs[i].copy = l,
         next.app = None => next = NoRequest, kind = "live" => next # NoRequest,
         Ids' = Ids \cup {Newest}, procs' \in Seq(Processes),
         procs'[Newest] = Fresh(l, kind, phase, next),
         \A j \in Ids : \/ procs'[j] = procs[j]
                        \/ /\ procs[j].kind = "main"
                           /\ procs'[j] = [procs[j] EXCEPT !.next = NoRequest],
         \A c \in Copies, k \in Kinds :
            selected'[c][k] \in {selected[c][k], NoRequest},
         lock' = lock
  PROVE  StoresInv' /\ GuestsStay
<1> USE NothingTypes
<1>1. \A j \in Ids : /\ procs[j] \in Processes
                     /\ procs'[j].phase = procs[j].phase /\ procs'[j].kind = procs[j].kind
                     /\ procs'[j].copy = procs[j].copy /\ procs'[j].run = procs[j].run
                     /\ procs'[j].seen = procs[j].seen
                     /\ procs'[j].next \in {procs[j].next, NoRequest}
                     /\ procs[j].kind = "live" => procs'[j].next = procs[j].next
  <2>1. \A j \in Ids : procs[j] \in Processes
    BY ProcsFacts
  <2> SUFFICES ASSUME NEW j \in Ids
               PROVE  /\ procs'[j].phase = procs[j].phase /\ procs'[j].kind = procs[j].kind
                      /\ procs'[j].copy = procs[j].copy /\ procs'[j].run = procs[j].run
                      /\ procs'[j].seen = procs[j].seen
                      /\ procs'[j].next \in {procs[j].next, NoRequest}
                      /\ procs[j].kind = "live" => procs'[j].next = procs[j].next
    BY <2>1
  <2>. QED  BY <2>1 DEF Processes
<1>2. /\ procs'[Newest].kind = kind /\ procs'[Newest].copy = l /\ procs'[Newest].phase = phase
      /\ procs'[Newest].next = next /\ procs'[Newest].seen = NoLock
  BY DEF Fresh
<1>3. \A j \in Ids' : j \in Ids \/ j = Newest
  OBVIOUS
<1>4. RequestsOK'
  BY <1>1, <1>2, <1>3 DEF StoresInv, RequestsOK
<1>r. Roles'
  BY <1>1, <1>2, <1>3 DEF StoresInv, Roles, Kinds
<1>5. OneMain'
  <2>1. \A j \in Ids : Main(j)' => Main(j)
    BY <1>1 DEF Main, Alive, Ids
  <2>2. ASSUME NEW j \in Ids', j \notin Ids, Main(j)'
        PROVE  procs'[j].copy = l /\ ~\E i \in Ids : Main(i) /\ procs[i].copy = l
    BY <1>2, <1>3, <2>2 DEF Main
  <2>3. \A j, m \in Ids' : j \notin Ids /\ m \notin Ids => j = m
    BY <1>3
  <2>. QED  BY <1>1, <2>1, <2>2, <2>3 DEF StoresInv, OneMain
<1>6. Cleared'
  <2>1. \A j \in Ids : procs[j].copy \in Copies
    BY <1>1, ProcessFields
  <2>2. "main" \in Kinds
    BY DEF Kinds
  <2>. QED  BY <1>1, <1>2, <1>3, <2>1, <2>2 DEF StoresInv, Cleared
<1>7. GuestsStay
  BY <1>1 DEF GuestsStay, Guest
<1>8. Holds(procs', lock) /\ \A j \in Ids : Holds(procs', procs[j].seen)
  BY <1>7, HoldsKept DEF StoresInv, Holders
<1>9. Holders'
  BY <1>1, <1>2, <1>3, <1>8, NoLockHolds DEF Holders
<1>. QED  BY <1>4, <1>r, <1>5, <1>6, <1>7, <1>9 DEF StoresInv

(* One step per action, by StoresByStep and StoresByStart. *)
LEMMA StoresStep == LaunchTypeOK /\ StoresInv /\ [Next]_vars => StoresInv' /\ GuestsStay
<1> SUFFICES ASSUME LaunchTypeOK, StoresInv, [Next]_vars PROVE StoresInv' /\ GuestsStay
  OBVIOUS
<1> USE NothingTypes
<1>a. \A i \in Ids : /\ procs[i] \in Processes /\ procs[i].copy \in Copies
                     /\ procs[i].kind \in Kinds /\ ProcessOK(procs[i])
                     /\ procs[i].next \in Requests /\ procs[i].seen \in Locks
  BY ProcsFacts, ProcessFields DEF LaunchTypeOK, ProcessOK, Ids
<1>b. /\ selected \in [Copies -> [Kinds -> Requests]] /\ task \in Tasks
      /\ lock \in Locks /\ procs \in Seq(Processes)
  BY DEF LaunchTypeOK
<1>c. \A i \in Ids : /\ procs[i].phase = "dead" => procs[i].next = NoRequest
                     /\ procs[i].next.app = None => procs[i].next = NoRequest
                     /\ procs[i].kind = "live" => procs[i].next # NoRequest
  BY DEF StoresInv, RequestsOK
<1>d. \A c \in Copies, k \in Kinds : selected[c][k].app = None => selected[c][k] = NoRequest
  BY DEF StoresInv, RequestsOK
<1>s. ASSUME UNCHANGED <<procs, selected, lock>> PROVE StoresInv' /\ GuestsStay
  BY <1>s DEF StoresInv, RequestsOK, Roles, OneMain, Main, Alive, Cleared, Holders, GuestsStay, Guest, Ids
<1>1. CASE TaskExpires
  BY <1>1, <1>s DEF TaskExpires
<1>2. ASSUME NEW l \in Copies, StartCopy(l) PROVE StoresInv' /\ GuestsStay
  <2>1. StartProcess(procs, l, "main", "boot", NoRequest) /\ UNCHANGED <<selected, lock>>
    BY <1>2 DEF StartCopy
  <2>2. ~\E i \in Ids : Main(i) /\ procs[i].copy = l
    BY <1>2 DEF StartCopy, Main, Ids
  <2>3. "main" \in Kinds /\ "boot" \in Phases
    BY DEF Kinds, Phases
  <2>4. /\ procs' \in Seq(Processes) /\ Ids' = Ids \cup {Newest}
        /\ procs'[Newest] = Fresh(l, "main", "boot", NoRequest)
        /\ \A j \in Ids : procs'[j] = procs[j]
    BY <1>b, <2>1, <2>3, StartFacts
  <2>. QED  BY <2>1, <2>2, <2>3, <2>4, StoresByStart
<1>3. ASSUME NEW a \in Apps, NEW f \in LCContainers[a] \cup {None}, PostTask(a, f)
      PROVE  StoresInv' /\ GuestsStay
  BY <1>3, <1>s DEF PostTask
<1>4. ASSUME NEW i \in Ids, Die(i) PROVE StoresInv' /\ GuestsStay
  <2>1. Step(i, Dead) /\ Alive(i) /\ UNCHANGED <<selected, lock>>
    BY <1>4 DEF Die
  <2>. QED  BY <2>1, StoresByStep
<1>5. ASSUME NEW i \in Ids, Relaunch(i) PROVE StoresInv' /\ GuestsStay
  <2>1. /\ Step(i, Dead) /\ procs[i].kind = "main" /\ procs[i].next # NoRequest
        /\ selected' = [selected EXCEPT ![procs[i].copy]["main"] = procs[i].next]
        /\ lock' = lock
    BY <1>5 DEF Relaunch
  <2>2. Alive(i) /\ procs[i].next.app # None
    BY <1>c, <2>1 DEF Alive, Ids
  <2>3. \A c \in Copies, k \in Kinds :
           selected'[c][k] = IF c = procs[i].copy /\ k = "main" THEN procs[i].next ELSE selected[c][k]
    BY <1>a, <2>1, SelectedFacts
  <2>. QED  BY <2>1, <2>2, <2>3, StoresByStep
<1>6. ASSUME NEW i \in Ids, Decline(i) PROVE StoresInv' /\ GuestsStay
  <2> DEFINE p == [procs[i] EXCEPT !.next = NoRequest]
  <2>1. Step(i, p) /\ procs[i].kind = "main" /\ Alive(i) /\ UNCHANGED <<selected, lock>>
    BY <1>6, <1>c DEF Decline, Alive, Ids
  <2>2. p \in Processes /\ p.copy = procs[i].copy /\ p.kind = "main" /\ p.phase = procs[i].phase
        /\ p.next = NoRequest /\ p.run = procs[i].run /\ p.seen = procs[i].seen
    BY <1>a, <2>1 DEF Processes
  <2> HIDE DEF p
  <2>3. Successor(i, p)
    BY <2>1, <2>2 DEF Successor, Alive, Guest, StoresInv, Cleared, Roles
  <2>. QED  BY <2>1, <2>2, <2>3, StoresByStep
<1>7. ASSUME NEW i \in Ids, OpenWindow(i) PROVE StoresInv' /\ GuestsStay
  <2> DEFINE p == [procs[i] EXCEPT !.next = NoRequest]
             others == [procs EXCEPT ![i].next = NoRequest]
  <2>1. /\ StartProcess(others, procs[i].copy, "live", "handoff", procs[i].next)
        /\ selected' = [selected EXCEPT ![procs[i].copy]["main"] = NoRequest] /\ lock' = lock
        /\ procs[i].phase = "ui" /\ procs[i].next # NoRequest
    BY <1>7 DEF OpenWindow
  <2>2. p \in Processes /\ others = [procs EXCEPT ![i] = p]
    BY <1>a DEF Processes
  <2>3. /\ others \in Seq(Processes) /\ Len(others) = Len(procs)
        /\ \A j \in Ids : others[j] = IF j = i THEN p ELSE procs[j]
    BY <1>b, <2>2, ExceptSeq DEF Ids
  <2>4. "live" \in Kinds /\ "main" \in Kinds /\ "handoff" \in Phases
    BY DEF Kinds, Phases
  <2> HIDE DEF others
  <2>5. /\ procs' \in Seq(Processes) /\ Ids' = Ids \cup {Newest}
        /\ procs'[Newest] = Fresh(procs[i].copy, "live", "handoff", procs[i].next)
        /\ \A j \in Ids : procs'[j] = others[j]
    BY <1>a, <2>1, <2>3, <2>4, StartFacts
  <2>6. \A c \in Copies, k \in Kinds : selected'[c][k] \in {selected[c][k], NoRequest}
    BY <1>a, <2>1, <2>4, SelectedFacts
  <2>7. procs[i].kind = "main"
    BY <2>1 DEF StoresInv, Roles
  <2>8. \A j \in Ids : \/ procs'[j] = procs[j]
                       \/ /\ procs[j].kind = "main"
                          /\ procs'[j] = [procs[j] EXCEPT !.next = NoRequest]
    BY <2>3, <2>5, <2>7
  <2>9. /\ procs[i].copy \in Copies /\ procs[i].next \in Requests /\ procs[i].next # NoRequest
        /\ procs[i].next.app = None => procs[i].next = NoRequest
    BY <1>a, <1>c, <2>1
  <2> HIDE DEF p
  <2>. QED  BY <2>1, <2>4, <2>5, <2>6, <2>8, <2>9, StoresByStart
<1>8. ASSUME NEW i \in Ids, Handoff(i) PROVE StoresInv' /\ GuestsStay
  <2> DEFINE p == [procs[i] EXCEPT !.phase = "boot"]
  <2>1. /\ Step(i, p) /\ procs[i].phase = "handoff" /\ lock' = lock
        /\ selected' = [selected EXCEPT ![procs[i].copy]["live"] = procs[i].next]
    BY <1>8 DEF Handoff
  <2>2. procs[i].kind = "live"
    BY <2>1 DEF StoresInv, Roles
  <2>3. /\ p \in Processes /\ p.copy = procs[i].copy /\ p.kind = "live" /\ p.phase = "boot"
        /\ p.next = procs[i].next /\ p.run = procs[i].run /\ p.seen = procs[i].seen
    BY <1>a, <2>2 DEF Processes, Phases
  <2> HIDE DEF p
  <2>4. Alive(i) /\ Successor(i, p)
    BY <1>c, <2>1, <2>2, <2>3 DEF Successor, Alive, Guest, Ids
  <2>5. \A c \in Copies, k \in Kinds :
           selected'[c][k] = IF c = procs[i].copy /\ k = "live" THEN procs[i].next ELSE selected[c][k]
    BY <1>a, <2>1, <2>2, SelectedFacts
  <2>. QED  BY <1>c, <2>1, <2>2, <2>3, <2>4, <2>5, StoresByStep
<1>9. ASSUME NEW i \in Ids, Boot(i) PROVE StoresInv' /\ GuestsStay
  <2> DEFINE r == selected[procs[i].copy][procs[i].kind]
             Run(a, box) == [procs[i] EXCEPT !.phase = "check", !.run = Defaulted(a, box)]
             takes == r.app = None /\ procs[i].kind = "main" /\ task.app # None
  <2>1. /\ procs[i].phase = "boot" /\ UNCHANGED <<selected, lock>>
        /\ \/ r.app # None /\ Step(i, Run(r.app, r.box))
           \/ task.app # None /\ Step(i, Run(task.app, task.box))
           \/ r.app = None /\ Step(i, ToUI(i))
    BY <1>9 DEF Boot
  <2>2. r \in Requests
    BY <1>a, <1>b
  <2>3. Alive(i)
    BY <2>1 DEF Alive, Ids
  <2>4. ASSUME NEW a \in Apps, NEW box \in Folders \cup {None}
        PROVE  Run(a, box) \in Processes /\ Successor(i, Run(a, box))
    <3>1. Defaulted(a, box) \in Requests
      BY DefaultedFacts
    <3>. QED  BY <1>a, <1>c, <2>1, <3>1 DEF Processes, Phases, Successor, Guest
  <2>5. CASE \E a \in Apps, box \in Folders \cup {None} : Step(i, Run(a, box))
    BY <2>1, <2>3, <2>4, <2>5, StoresByStep
  <2>6. CASE r.app = None /\ Step(i, ToUI(i))
    <3>1. ToUI(i) \in Processes
      BY <1>a DEF ToUI, Processes, Phases
    <3>2. ToUI(i) = Dead \/ Successor(i, ToUI(i))
      BY <1>a, <1>c, <1>d, <2>1, <2>6 DEF ToUI, Processes, Phases, Successor, Guest
    <3>. QED  BY <2>1, <2>3, <2>6, <3>1, <3>2, StoresByStep
  <2>. QED  BY <1>b, <2>1, <2>2, <2>5, <2>6 DEF Requests, Tasks
<1>10. ASSUME NEW i \in Ids, Check(i) PROVE StoresInv' /\ GuestsStay
  <2> DEFINE p == [procs[i] EXCEPT !.phase = "lock",
                     !.run.box = IF @ = None THEN LCDataUUID[procs[i].run.app] ELSE @]
  <2>1. /\ procs[i].phase = "check" /\ lock' = lock
        /\ selected' = [selected EXCEPT ![procs[i].copy][procs[i].kind] = NoRequest]
        /\ Step(i, ToUI(i)) \/ Step(i, p)
    BY <1>10 DEF Check
  <2>2. Alive(i)
    BY <2>1 DEF Alive, Ids
  <2>3. \A c \in Copies, k \in Kinds :
           selected'[c][k] = IF c = procs[i].copy /\ k = procs[i].kind THEN NoRequest ELSE selected[c][k]
    BY <1>a, <2>1, SelectedFacts
  <2>4. procs[i].run.app \in Apps /\ procs[i].run \in Requests
    BY <1>a, <2>1 DEF ProcessOK, Processes
  <2>5. p \in Processes
    BY <1>a, <2>4 DEF Processes, Phases, Requests
  <2>6. Successor(i, p)
    BY <1>a, <1>c, <2>1, <2>3 DEF Processes, Successor, Guest
  <2>7. ToUI(i) \in Processes
    BY <1>a DEF ToUI, Processes, Phases
  <2>8. ToUI(i) = Dead \/ Successor(i, ToUI(i))
    BY <1>a, <1>c, <2>1, <2>3 DEF ToUI, Processes, Successor, Guest
  <2> HIDE DEF p
  <2>. QED  BY <2>1, <2>2, <2>3, <2>5, <2>6, <2>7, <2>8, StoresByStep
<1>11. ASSUME NEW i \in Ids, LockRead(i) PROVE StoresInv' /\ GuestsStay
  <2> DEFINE p == [procs[i] EXCEPT !.phase = "save", !.seen = lock]
  <2>1. procs[i].phase = "lock" /\ UNCHANGED <<selected, lock>> /\ Step(i, p) /\ Alive(i)
    BY <1>11 DEF LockRead, Alive, Ids
  <2>2. p \in Processes
    BY <1>a, <1>b DEF Processes, Phases
  <2>3. Successor(i, p)
    BY <1>a, <1>c, <2>1 DEF Processes, Successor, Guest, StoresInv, Cleared
  <2> HIDE DEF p
  <2>. QED  BY <2>1, <2>2, <2>3, StoresByStep
<1>12. ASSUME NEW i \in Ids, LockSave(i) PROVE StoresInv' /\ GuestsStay
  <2> DEFINE p == [procs[i] EXCEPT !.phase = "guest", !.seen = NoLock]
  <2>1. /\ procs[i].phase = "save" /\ selected' = selected /\ Step(i, p) /\ Alive(i)
        /\ lock' = [procs[i].seen EXCEPT !.folder[procs[i].run.box] = i,
                                         !.scheme[procs[i].copy] = i]
    BY <1>12 DEF LockSave, Alive, Ids
  <2>2. p \in Processes /\ p.phase = "guest" /\ p.run = procs[i].run
    BY <1>a DEF Processes, Phases
  <2>3. Successor(i, p)
    BY <1>a, <1>c, <2>1 DEF Processes, Successor, Guest, StoresInv, Cleared
  <2>4. /\ lock'.folder = [procs[i].seen.folder EXCEPT ![procs[i].run.box] = i]
        /\ procs[i].seen.folder \in [Folders -> Tokens]
    BY <1>a, <2>1 DEF Locks
  <2>5. \A f \in Folders :
           \/ lock'.folder[f] = procs[i].seen.folder[f]
           \/ lock'.folder[f] = i /\ f = procs[i].run.box
    BY <2>4
  <2> HIDE DEF p
  <2>. QED  BY <2>1, <2>2, <2>3, <2>5, StoresByStep
<1>13. ASSUME NEW i \in Ids, NEW a \in Apps, AskForJIT(i, a) PROVE StoresInv' /\ GuestsStay
  BY <1>13, <1>s DEF AskForJIT
<1>14. ASSUME NEW i \in Ids, NEW a \in Apps, NEW f \in LCContainers[a] \cup {None},
              Ask(i, a, f)
       PROVE  StoresInv' /\ GuestsStay
  <2> DEFINE p == [procs[i] EXCEPT !.next = [app |-> a, box |-> f]]
  <2>1. /\ procs[i].kind = "main" /\ procs[i].phase \in {"guest", "ui"} /\ Step(i, p)
        /\ UNCHANGED <<selected, lock>>
    BY <1>14 DEF Ask, Guest
  <2>2. [app |-> a, box |-> f] \in Requests /\ a # None
    BY LaunchAssumption DEF Requests
  <2>3. p \in Processes /\ Alive(i)
    BY <1>a, <2>1, <2>2 DEF Processes, Alive, Ids
  <2>4. Successor(i, p)
    BY <1>a, <2>1, <2>2 DEF Processes, Successor, Guest, StoresInv, Cleared
  <2> HIDE DEF p
  <2>. QED  BY <2>1, <2>3, <2>4, StoresByStep
<1>15. CASE UNCHANGED vars
  BY <1>15, <1>s DEF vars
<1>. QED
  BY <1>1, <1>2, <1>3, <1>4, <1>5, <1>6, <1>7, <1>8, <1>9, <1>10, <1>11, <1>12, <1>13, <1>14, <1>15
  DEF Next, Ids

-----------------------------------------------------------------------------
(* Boxes is inductive.                                                       *)

(* Boxes is kept by a step of one process ... *)
LEMMA BoxesByStep ==
  ASSUME LaunchTypeOK, Boxes,
         NEW i \in Ids, NEW p \in Processes, Step(i, p), Placed(p),
         \A c \in Copies, k \in Kinds :
            \/ selected'[c][k] \in {selected[c][k], NoRequest}
            \/ /\ c = procs[i].copy /\ selected'[c][k] = procs[i].next
               /\ k = "live" => procs[i].next.box # None,
         task' = task \/ task'.app = None
  PROVE  Boxes'
<1>1. /\ Ids' = Ids /\ procs'[i] = p /\ \A j \in Ids : j # i => procs'[j] = procs[j]
  BY StepFacts
<1>2. ~Private(None) /\ NoRequest.app = None
  BY LaunchAssumption DEF Private, NoRequest
<1>3. \A j \in Ids' : Placed(procs'[j])
  BY <1>1 DEF Boxes
<1>4. Private(procs[i].next.app) => procs[i].copy = Primary
  BY DEF Boxes, Placed
<1>5. "live" \in Kinds
  BY DEF Kinds
<1>. QED  BY <1>2, <1>3, <1>4, <1>5 DEF Boxes

(* ... and by the start of one. *)
LEMMA BoxesByStart ==
  ASSUME LaunchTypeOK, Boxes,
         NEW l \in Copies, NEW kind \in Kinds, NEW phase \in Phases, NEW next \in Requests,
         next = NoRequest \/ (next.box # None /\ (Private(next.app) => l = Primary)),
         phase \in {"boot", "handoff"},
         Ids' = Ids \cup {Newest}, procs'[Newest] = Fresh(l, kind, phase, next),
         \A j \in Ids : \/ procs'[j] = procs[j]
                        \/ procs'[j] = [procs[j] EXCEPT !.next = NoRequest],
         \A c \in Copies, k \in Kinds : selected'[c][k] \in {selected[c][k], NoRequest},
         task' = task
  PROVE  Boxes'
<1>1. ~Private(None) /\ NoRequest.app = None
  BY LaunchAssumption DEF Private, NoRequest
<1>2. Placed(Fresh(l, kind, phase, next))
  BY <1>1 DEF Placed, Fresh
<1>3. \A j \in Ids : Placed(procs[j]) /\ procs[j] \in Processes
  BY ProcsFacts DEF Boxes
<1>4. ASSUME NEW q \in Processes, Placed(q) PROVE Placed([q EXCEPT !.next = NoRequest])
  BY <1>1, <1>4 DEF Placed, Processes
<1>5. \A j \in Ids' : Placed(procs'[j])
  BY <1>2, <1>3, <1>4
<1>6. "live" \in Kinds
  BY DEF Kinds
<1>. QED  BY <1>1, <1>5, <1>6 DEF Boxes

-----------------------------------------------------------------------------
(* SerialInv is inductive.                                                   *)

\* A step that makes no guest: i becomes p.
CarriesOn(i, p) ==
    /\ p.phase \in StartPhases => procs[i].phase \in StartPhases
    /\ p.phase = "guest" => Guest(i)
    /\ KeepsRequest(p, selected')
    /\ \A c \in Copies : selected'[c]["live"] = selected[c]["live"] \/ Starting(i)
    /\ \A c \in Copies :
          \/ selected'[c]["main"] \in {selected[c]["main"], NoRequest}
          \/ selected'[c]["main"].box = None => NoChildStarts(procs, c)
    /\ p.phase = "save" => p.seen = lock
    /\ p.phase \in {"lock", "save"} => Vacant(procs, p.run.box)
    /\ \A a \in Apps \ Shared :
          selected'[Primary]["main"] = [app |-> a, box |-> None] \/ Expects(p, a)
              => Vacant(procs, LCDataUUID[a])
    /\ lock' = lock

(* While processes start one at a time, such a step keeps SerialInv. *)
LEMMA SerialByStep ==
  ASSUME LaunchTypeOK, StoresInv, Boxes, SerialInv, ~overlapped,
         NEW i \in Ids, NEW p \in Processes, Step(i, p), Alive(i),
         p = Dead \/ Successor(i, p), CarriesOn(i, p)
  PROVE  SerialInv'
<1> USE NothingTypes
<1>0. Serial /\ ChildKeepsRequest /\ QuietCopies /\ Recorded /\ Reserved /\ DefaultsFree
  BY DEF SerialInv
<1> USE DEF CarriesOn
<1>1. /\ Ids' = Ids /\ procs'[i] = p /\ \A j \in Ids : j # i => procs'[j] = procs[j]
  BY StepFacts
<1>2. \A j \in Ids : /\ procs[j] \in Processes /\ procs[j].copy \in Copies
                     /\ procs[j].kind \in Kinds /\ "live" \in Kinds /\ "main" \in Kinds
  BY ProcsFacts, ProcessFields DEF Kinds
<1>3. \A j \in Ids : /\ Starting(j)' => Starting(j)
                     /\ procs'[j] = Dead \/ (procs'[j].copy = procs[j].copy /\ procs'[j].kind = procs[j].kind)
  BY <1>1 DEF Starting, StartPhases, Successor
<1>4. \A j \in Ids : Guest(j)' => Guest(j) /\ procs'[j].run = procs[j].run
                     /\ procs'[j].copy = procs[j].copy /\ procs'[j].kind = procs[j].kind
  BY <1>1 DEF Guest, Successor
<1>5. \A j \in Ids : AtHome(j)' => AtHome(j)
  BY <1>4 DEF AtHome
<1>6. ASSUME NEW f, Vacant(procs, f) PROVE Vacant(procs', f)
  BY <1>1, <1>4, <1>6 DEF Vacant, Guest, Ids
<1>7. ASSUME NEW c, NoChildStarts(procs, c) PROVE NoChildStarts(procs', c)
  BY <1>1, <1>3, <1>7 DEF NoChildStarts, Starting, StartPhases, Ids
<1>8. Serial'
  BY <1>0, <1>1, <1>3 DEF Serial
<1>9. ChildKeepsRequest'
  <2> SUFFICES ASSUME NEW j \in Ids, j # i PROVE KeepsRequest(procs[j], selected')
    BY <1>1 DEF ChildKeepsRequest
  <2>1. procs[j].phase = "boot" => selected'[procs[j].copy]["live"] = selected[procs[j].copy]["live"]
    BY <1>0, <1>2 DEF Serial, Starting
  <2>. QED  BY <1>0, <2>1 DEF ChildKeepsRequest, KeepsRequest
<1>10. QuietCopies'
  <2>1. \A j \in Ids : Guest(j)' /\ procs'[j].kind = "main" => NoChildStarts(procs', procs'[j].copy)
    BY <1>0, <1>4, <1>7 DEF QuietCopies
  <2>2. \A c \in Copies : selected'[c]["main"].app # None /\ selected'[c]["main"].box = None
                            => NoChildStarts(procs', c)
    BY <1>0, <1>7 DEF QuietCopies, NoRequest
  <2>. QED  BY <1>1, <2>1, <2>2 DEF QuietCopies
<1>11. Recorded'
  <2>1. \A j \in Ids : AtHome(j)' => AtHome(j) /\ procs'[j].run = procs[j].run
    BY <1>4, <1>5 DEF AtHome
  <2>2. \A j \in Ids : procs'[j].phase = "save" => procs'[j].seen = lock
    BY <1>0, <1>1 DEF Recorded
  <2>. QED  BY <1>0, <1>1, <1>4, <2>1, <2>2 DEF Recorded
<1>12. Reserved'
  BY <1>0, <1>1, <1>6 DEF Reserved
<1>13. DefaultsFree'
  BY <1>0, <1>1, <1>6 DEF DefaultsFree
<1>. QED  BY <1>8, <1>9, <1>10, <1>11, <1>12, <1>13 DEF SerialInv

\* A process that starts while no other does.
LEMMA SerialByStart ==
  ASSUME LaunchTypeOK, StoresInv, Boxes, SerialInv,
         NEW l \in Copies, NEW kind \in Kinds, NEW phase \in Phases, NEW next \in Requests,
         phase = IF kind = "main" THEN "boot" ELSE "handoff",
         kind = "live" => next.box # None /\ \E i \in Ids : procs[i].phase = "ui" /\ procs[i].copy = l,
         kind = "live" => selected'[l]["main"] = NoRequest,
         kind = "main" => next = NoRequest,
         Ids' = Ids \cup {Newest}, procs'[Newest] = Fresh(l, kind, phase, next),
         \A j \in Ids : \/ procs'[j] = procs[j]
                        \/ procs'[j] = [procs[j] EXCEPT !.next = NoRequest] /\ procs[j].kind = "main",
         \A c \in Copies : selected'[c]["main"] \in {selected[c]["main"], NoRequest}
                            /\ selected'[c]["live"] = selected[c]["live"],
         overlapped' = (overlapped \/ \E i \in Ids : Starting(i)), lock' = lock
  PROVE  SerialInv'
<1> USE NothingTypes
<1> SUFFICES ASSUME ~overlapped, \A j \in Ids : ~Starting(j)
             PROVE  (Serial /\ ChildKeepsRequest /\ QuietCopies /\ Recorded /\ Reserved /\ DefaultsFree)'
  BY DEF SerialInv
<1>0. Serial /\ ChildKeepsRequest /\ QuietCopies /\ Recorded /\ Reserved /\ DefaultsFree
  BY DEF SerialInv
<1>1. \A j \in Ids' : j \in Ids \/ j = Newest
  OBVIOUS
<1>2. \A j \in Ids : procs[j] \in Processes /\ procs[j].copy \in Copies
  BY ProcsFacts, ProcessFields
<1>3. \A j \in Ids : /\ procs'[j].phase = procs[j].phase /\ procs'[j].kind = procs[j].kind
                     /\ procs'[j].copy = procs[j].copy /\ procs'[j].run = procs[j].run
                     /\ procs'[j].seen = procs[j].seen
                     /\ procs'[j].next \in {procs[j].next, NoRequest}
                     /\ procs[j].kind = "live" => procs'[j].next = procs[j].next
  <2> SUFFICES ASSUME NEW j \in Ids
               PROVE  /\ procs'[j].phase = procs[j].phase /\ procs'[j].kind = procs[j].kind
                      /\ procs'[j].copy = procs[j].copy /\ procs'[j].run = procs[j].run
                      /\ procs'[j].seen = procs[j].seen
                      /\ procs'[j].next \in {procs[j].next, NoRequest}
                      /\ procs[j].kind = "live" => procs'[j].next = procs[j].next
    OBVIOUS
  <2>. QED  BY <1>2 DEF Processes
<1>4. /\ procs'[Newest].kind = kind /\ procs'[Newest].copy = l /\ procs'[Newest].phase = phase
      /\ procs'[Newest].next = next /\ phase \in {"boot", "handoff"}
  BY DEF Fresh
<1>5. \A j \in Ids' : /\ Guest(j)' => j \in Ids /\ Guest(j)
                      /\ AtHome(j)' => j \in Ids /\ AtHome(j)
                      /\ Starting(j)' => j \notin Ids
  BY <1>1, <1>3, <1>4 DEF Guest, AtHome, Starting
<1>6. ASSUME NEW f, Vacant(procs, f) PROVE Vacant(procs', f)
  BY <1>1, <1>3, <1>4, <1>6 DEF Vacant, Ids
<1>7. Serial'
  BY <1>1, <1>5 DEF Serial
<1>8. ChildKeepsRequest'
  <2>1. \A j \in Ids : procs[j].phase # "boot"
    BY DEF Starting
  <2>2. \A j \in Ids : KeepsRequest(procs'[j], selected')
    BY <1>0, <1>3, <2>1 DEF ChildKeepsRequest, KeepsRequest
  <2>3. KeepsRequest(procs'[Newest], selected')
    BY <1>4 DEF KeepsRequest, Kinds
  <2>. QED  BY <1>1, <2>2, <2>3 DEF ChildKeepsRequest
<1>9. QuietCopies'
  <2>1. ASSUME NEW c \in Copies, kind = "main" \/ c # l PROVE NoChildStarts(procs', c)
    BY <1>1, <1>3, <1>4, <2>1 DEF NoChildStarts, Starting, StartPhases, Ids
  <2>2. \A j \in Ids' : Guest(j)' /\ procs'[j].kind = "main" => NoChildStarts(procs', procs'[j].copy)
    <3> SUFFICES ASSUME NEW j \in Ids, Guest(j), procs[j].kind = "main"
                 PROVE  kind = "main" \/ procs[j].copy # l
      BY <1>2, <1>3, <1>5, <2>1
    <3>1. \A m \in Ids : procs[m].phase = "ui" => procs[m].kind = "main"
      BY DEF StoresInv, Roles
    <3>2. \A m \in Ids : procs[m].phase = "ui" /\ procs[m].copy = procs[j].copy => m = j
      BY <3>1 DEF StoresInv, OneMain, Main, Alive, Guest, Ids
    <3>. QED  BY <3>2 DEF Guest, Kinds
  <2>3. \A c \in Copies : selected'[c]["main"].app # None /\ selected'[c]["main"].box = None
                            => NoChildStarts(procs', c)
    BY <2>1 DEF Kinds, NoRequest
  <2>. QED  BY <2>2, <2>3 DEF QuietCopies
<1>10. Recorded'
  BY <1>0, <1>1, <1>3, <1>4, <1>5 DEF Recorded
<1>11. Reserved'
  BY <1>1, <1>4, <1>5 DEF Reserved, Starting
<1>12. DefaultsFree'
  BY <1>0, <1>1, <1>3, <1>4, <1>6, LaunchAssumption DEF DefaultsFree, Expects, NoRequest, Kinds
<1>. QED  BY <1>7, <1>8, <1>9, <1>10, <1>11, <1>12

\* The step that makes a guest.
LEMMA SerialByLockSave ==
  ASSUME LaunchTypeOK, StoresInv, Boxes, SerialInv, ~overlapped, UNCHANGED overlapped,
         NEW i \in Ids, LockSave(i)
  PROVE  SerialInv'
<1> USE NothingTypes
<1> DEFINE q == procs[i]
           p == [q EXCEPT !.phase = "guest", !.seen = NoLock]
<1>0. Serial /\ ChildKeepsRequest /\ QuietCopies /\ Recorded /\ Reserved /\ DefaultsFree
  BY DEF SerialInv
<1>1. /\ q.phase = "save" /\ Step(i, p) /\ selected' = selected
      /\ lock' = [q.seen EXCEPT !.folder[q.run.box] = i, !.scheme[q.copy] = i]
  BY DEF LockSave
<1>2. \A j \in Ids : /\ procs[j] \in Processes /\ procs[j].copy \in Copies
                     /\ procs[j].kind \in Kinds /\ ProcessOK(procs[j])
  BY ProcsFacts, ProcessFields DEF LaunchTypeOK, ProcessOK, Ids
<1>3. /\ p \in Processes /\ p.phase = "guest" /\ p.run = q.run /\ p.copy = q.copy
      /\ p.kind = q.kind /\ p.next = q.next
  BY <1>2 DEF Processes, Phases
<1>4. q.seen = lock /\ lock \in Locks /\ q.run.box \in Folders /\ q.run.app \in Apps
  BY <1>0, <1>1, <1>2 DEF Recorded, LaunchTypeOK, ProcessOK
<1>5. /\ lock'.folder = [lock.folder EXCEPT ![q.run.box] = i]
      /\ lock'.scheme = [lock.scheme EXCEPT ![q.copy] = i]
      /\ lock.folder \in [Folders -> Tokens] /\ lock.scheme \in [Copies -> Tokens]
  BY <1>1, <1>4 DEF Locks
<1> HIDE DEF p
<1>6. /\ Ids' = Ids /\ procs'[i] = p /\ \A j \in Ids : j # i => procs'[j] = procs[j]
  BY <1>1, <1>3, StepFacts
<1>7. \A j \in Ids : Starting(j) => j = i
  BY <1>0, <1>1 DEF Serial, Starting
<1>8. \A j \in Ids : ~Starting(j)'
  BY <1>3, <1>6, <1>7 DEF Starting
<1>9. \A c : NoChildStarts(procs', c)
  BY <1>6, <1>8 DEF NoChildStarts, Starting, StartPhases, Ids
\* No other main process of this copy is alive, and this one is not a guest yet.
<1>10. \A j \in Ids : Guest(j) /\ procs[j].kind = "main" => procs[j].copy # q.copy
  <2> SUFFICES ASSUME NEW j \in Ids, Guest(j), procs[j].kind = "main", procs[j].copy = q.copy
               PROVE  FALSE
    OBVIOUS
  <2>1. CASE q.kind = "main"
    BY <1>1, <2>1 DEF StoresInv, OneMain, Main, Alive, Guest, Ids
  <2>2. CASE q.kind = "live"
    <3>1. NoChildStarts(procs, q.copy)
      BY <1>0 DEF QuietCopies
    <3>. QED  BY <1>1, <2>2, <3>1 DEF NoChildStarts, StartPhases, Ids
  <2>. QED  BY <1>2, <2>1, <2>2 DEF Kinds
<1>11. Vacant(procs, q.run.box)
  BY <1>0, <1>1 DEF Reserved
<1>12. Serial'
  BY <1>6, <1>8 DEF Serial
<1>13. ChildKeepsRequest'
  BY <1>0, <1>1, <1>3, <1>6 DEF ChildKeepsRequest, KeepsRequest
<1>14. QuietCopies'
  BY <1>9 DEF QuietCopies
<1>15. Recorded'
  <2>1. ASSUME NEW j \in Ids, AtHome(j)' PROVE lock'.folder[procs'[j].run.box] = j
    <3>1. CASE j = i
      BY <1>3, <1>4, <1>5, <1>6, <3>1
    <3>2. CASE j # i
      <4>1. procs'[j] = procs[j] /\ AtHome(j)
        BY <1>6, <2>1, <3>2 DEF AtHome, Guest
      <4>2. procs[j].run.box # q.run.box /\ lock.folder[procs[j].run.box] = j
        BY <1>0, <1>11, <4>1 DEF Vacant, AtHome, Guest, Ids, Recorded
      <4>3. procs[j].run.box \in Folders
        BY <1>2, <4>1 DEF AtHome, Guest, ProcessOK
      <4>. QED  BY <1>5, <4>1, <4>2, <4>3
    <3>. QED  BY <3>1, <3>2
  <2>2. ASSUME NEW j \in Ids, Guest(j)', procs'[j].kind = "main"
        PROVE  lock'.scheme[procs'[j].copy] = j
    <3>1. CASE j = i
      BY <1>2, <1>3, <1>5, <1>6, <3>1
    <3>2. CASE j # i
      BY <1>0, <1>2, <1>5, <1>6, <1>10, <2>2, <3>2 DEF Guest, Recorded
    <3>. QED  BY <3>1, <3>2
  <2>3. \A j \in Ids : procs'[j].phase # "save"
    BY <1>8 DEF Starting
  <2>. QED  BY <1>6, <2>1, <2>2, <2>3 DEF Recorded
<1>16. Reserved'
  BY <1>6, <1>8 DEF Reserved, Starting
<1>17. DefaultsFree'
  <2> SUFFICES ASSUME NEW a \in Apps \ Shared,
                      \/ selected[Primary]["main"] = [app |-> a, box |-> None]
                      \/ \E j \in Ids : Expects(procs'[j], a)
               PROVE  Vacant(procs', LCDataUUID[a])
    BY <1>1, <1>6 DEF DefaultsFree
  <2> DEFINE r == [app |-> a, box |-> None]
  <2>1. r # NoRequest /\ r.box = None /\ r.app = a /\ a # None /\ Private(a)
    BY LaunchAssumption DEF NoRequest, Private
  \* Nobody else is starting: the request is the copy's selected, or waits with a guest.
  <2>2. ASSUME NEW j \in Ids, Expects(procs'[j], a)
        PROVE  procs[j].next = r /\ Guest(j) /\ procs[j].kind = "main" /\ procs[j].copy = Primary
    <3>1. procs'[j].next = procs[j].next /\ procs'[j].phase # "check"
      BY <1>3, <1>6, <1>8 DEF Starting
    <3>2. procs[j].next = r /\ Placed(procs[j])
      BY <2>2, <3>1 DEF Expects, Boxes
    <3>. QED  BY <2>1, <3>2 DEF Placed, Guest
  <2>3. Vacant(procs, LCDataUUID[a])
    BY <1>0, <2>2 DEF DefaultsFree, Expects
  <2>4. ASSUME q.run.box = LCDataUUID[a], q.run.box \in LCContainers[q.run.app] PROVE FALSE
    <3>1. q.run.app = a
      BY <1>4, <2>4, LaunchAssumption
    <3>2. q.copy = Primary
      BY <2>1, <3>1 DEF Boxes, Placed
    <3>3. CASE \E j \in Ids : Expects(procs'[j], a)
      BY <1>10, <2>2, <3>2, <3>3
    <3>4. CASE selected[Primary]["main"] = r /\ q.kind = "main"
      BY <1>1, <2>1, <3>2, <3>4 DEF StoresInv, Cleared
    <3>5. CASE selected[Primary]["main"] = r /\ q.kind = "live"
      <4>1. NoChildStarts(procs, Primary)
        BY <1>0, <2>1, <3>5 DEF QuietCopies
      <4>. QED  BY <1>1, <3>2, <3>5, <4>1 DEF NoChildStarts, StartPhases, Ids
    <3>. QED  BY <1>2, <3>3, <3>4, <3>5 DEF Kinds
  <2>. QED  BY <1>3, <1>6, <2>3, <2>4 DEF Vacant, Ids
<1>. QED  BY <1>12, <1>13, <1>14, <1>15, <1>16, <1>17 DEF SerialInv

(* One step per action, by the lemmas above. *)
LEMMA SerialStep ==
  LaunchTypeOK /\ StoresInv /\ Boxes /\ SerialInv /\ [Next]_vars => Boxes' /\ SerialInv'
<1> SUFFICES ASSUME LaunchTypeOK, StoresInv, Boxes, SerialInv, [Next]_vars
             PROVE  Boxes' /\ SerialInv'
  OBVIOUS
<1> USE NothingTypes
<1>a. \A i \in Ids : /\ procs[i] \in Processes /\ procs[i].copy \in Copies
                     /\ procs[i].kind \in Kinds /\ ProcessOK(procs[i])
                     /\ procs[i].next \in Requests /\ procs[i].seen \in Locks
                     /\ procs[i].run \in Requests
  BY ProcsFacts, ProcessFields DEF LaunchTypeOK, ProcessOK, Ids
<1>b. /\ selected \in [Copies -> [Kinds -> Requests]] /\ task \in Tasks
      /\ lock \in Locks /\ procs \in Seq(Processes)
  BY DEF LaunchTypeOK
<1>c. \A i \in Ids : /\ procs[i].phase = "dead" => procs[i].next = NoRequest
                     /\ procs[i].next.app = None => procs[i].next = NoRequest
                     /\ procs[i].kind = "live" => procs[i].next # NoRequest
                     /\ procs[i].phase = "ui" => procs[i].kind = "main"
                     /\ procs[i].phase = "handoff" => procs[i].kind = "live"
                     /\ Placed(procs[i])
  BY DEF StoresInv, RequestsOK, Roles, Boxes
<1>d. "main" \in Kinds /\ "live" \in Kinds /\ ~Private(None) /\ NoRequest.app = None
      /\ NoRequest.box = None /\ \A a \in Apps : a # None
  BY LaunchAssumption DEF Kinds, Private, NoRequest
<1>e. ~overlapped => Serial /\ ChildKeepsRequest /\ QuietCopies /\ Recorded /\ Reserved /\ DefaultsFree
  BY DEF SerialInv
<1>f. Placed(Dead) /\ \A sel : KeepsRequest(Dead, sel)
  BY <1>d DEF Placed, KeepsRequest
<1>g. \A a \in Apps : [app |-> a, box |-> None] # NoRequest
  BY <1>d DEF NoRequest
<1>h. \A a \in Apps : ~Expects(Dead, a)
  BY <1>g DEF Expects
<1>s. ASSUME UNCHANGED <<procs, selected, lock, overlapped>> PROVE SerialInv'
  BY <1>s DEF SerialInv, Serial, Starting, ChildKeepsRequest, QuietCopies, Recorded, Reserved,
              DefaultsFree, AtHome, Guest, Ids
<1>t. ASSUME overlapped, UNCHANGED overlapped PROVE SerialInv'
  BY <1>t DEF SerialInv
<1>1. CASE TaskExpires
  <2>1. UNCHANGED <<procs, selected, lock, overlapped>> /\ task' = [task EXCEPT !.fresh = FALSE]
    BY <1>1 DEF TaskExpires
  <2>2. task'.app = task.app /\ task'.copy = task.copy /\ task'.box = task.box
    BY <1>b, <2>1 DEF Tasks
  <2>. QED  BY <1>s, <2>1, <2>2 DEF Boxes, Ids
<1>2. ASSUME NEW l \in Copies, StartCopy(l) PROVE Boxes' /\ SerialInv'
  <2>1. StartProcess(procs, l, "main", "boot", NoRequest) /\ UNCHANGED <<selected, task, lock>>
    BY <1>2 DEF StartCopy
  <2>2. "boot" \in Phases
    BY DEF Phases
  <2>3. /\ Ids' = Ids \cup {Newest} /\ procs'[Newest] = Fresh(l, "main", "boot", NoRequest)
        /\ \A j \in Ids : procs'[j] = procs[j]
        /\ overlapped' = (overlapped \/ \E i \in Ids : Starting(i))
    BY <1>b, <1>d, <2>1, <2>2, StartFacts
  <2>4. Boxes'
    BY <1>d, <2>1, <2>2, <2>3, BoxesByStart
  <2>5. SerialInv'
    BY <1>d, <2>1, <2>2, <2>3, SerialByStart
  <2>. QED  BY <2>4, <2>5
<1>3. ASSUME NEW a \in Apps, NEW f \in LCContainers[a] \cup {None}, PostTask(a, f)
      PROVE  Boxes' /\ SerialInv'
  <2>1. PICK l \in Copies :
           /\ a \notin Shared => l = Primary
           /\ task' = [copy |-> l, app |-> a, fresh |-> TRUE,
                       box |-> IF f = None THEN LCDataUUID[a] ELSE f]
    BY <1>3 DEF PostTask
  <2>2. UNCHANGED <<procs, selected, lock, overlapped>>
    BY <1>3 DEF PostTask
  <2>. QED  BY <1>s, <2>1, <2>2 DEF Boxes, Private, Ids
<1>4. ASSUME NEW i \in Ids, Die(i) PROVE Boxes' /\ SerialInv'
  <2>1. Step(i, Dead) /\ Alive(i) /\ UNCHANGED <<selected, task, lock, overlapped>>
    BY <1>4 DEF Die
  <2>2. Boxes'
    BY <1>f, <2>1, BoxesByStep
  <2>3. CASE ~overlapped
    <3>1. \A a \in Apps \ Shared :
             selected'[Primary]["main"] = [app |-> a, box |-> None] \/ Expects(Dead, a)
                => Vacant(procs, LCDataUUID[a])
      BY <1>e, <1>h, <2>1, <2>3 DEF DefaultsFree
    <3>2. CarriesOn(i, Dead)
      BY <1>f, <2>1, <3>1 DEF CarriesOn, StartPhases
    <3>. QED  BY <2>1, <2>2, <2>3, <3>2, SerialByStep
  <2>. QED  BY <1>t, <2>1, <2>2, <2>3
<1>5. ASSUME NEW i \in Ids, Relaunch(i) PROVE Boxes' /\ SerialInv'
  <2>1. /\ Step(i, Dead) /\ procs[i].kind = "main" /\ procs[i].next # NoRequest
        /\ selected' = [selected EXCEPT ![procs[i].copy]["main"] = procs[i].next]
        /\ UNCHANGED <<task, lock, overlapped>>
    BY <1>5 DEF Relaunch
  <2>2. Alive(i)
    BY <1>c, <2>1 DEF Alive, Ids
  <2>3. \A c \in Copies, k \in Kinds :
           selected'[c][k] = IF c = procs[i].copy /\ k = "main" THEN procs[i].next ELSE selected[c][k]
    BY <1>a, <1>d, <2>1, SelectedFacts
  <2>4. Boxes'
    BY <1>d, <1>f, <2>1, <2>3, BoxesByStep
  <2>5. CASE ~overlapped
    <3>1. procs[i].next.box = None => NoChildStarts(procs, procs[i].copy)
      BY <1>c, <1>e, <2>1, <2>5 DEF Placed, Guest, QuietCopies
    <3>2. \A c \in Copies :
             \/ selected'[c]["main"] \in {selected[c]["main"], NoRequest}
             \/ selected'[c]["main"].box = None => NoChildStarts(procs, c)
      BY <1>d, <2>3, <3>1
    <3>3. \A a \in Apps \ Shared :
             selected'[Primary]["main"] = [app |-> a, box |-> None] \/ Expects(Dead, a)
                => Vacant(procs, LCDataUUID[a])
      BY <1>d, <1>e, <1>h, <2>3, <2>5 DEF DefaultsFree, Expects
    <3>4. \A c \in Copies : selected'[c]["live"] = selected[c]["live"]
      BY <1>d, <2>3
    <3>5. CarriesOn(i, Dead)
      BY <1>f, <2>1, <3>2, <3>3, <3>4 DEF CarriesOn, StartPhases
    <3>. QED  BY <2>1, <2>2, <2>4, <2>5, <3>5, SerialByStep
  <2>. QED  BY <1>t, <2>1, <2>4, <2>5
<1>6. ASSUME NEW i \in Ids, Decline(i) PROVE Boxes' /\ SerialInv'
  <2> DEFINE p == [procs[i] EXCEPT !.next = NoRequest]
  <2>1. /\ Step(i, p) /\ procs[i].kind = "main" /\ procs[i].next # NoRequest /\ Alive(i)
        /\ UNCHANGED <<selected, task, lock, overlapped>>
    BY <1>6, <1>c DEF Decline, Alive, Ids
  <2>2. p \in Processes /\ p.copy = procs[i].copy /\ p.kind = "main" /\ p.phase = procs[i].phase
        /\ p.next = NoRequest /\ p.run = procs[i].run /\ p.seen = procs[i].seen
    BY <1>a, <2>1 DEF Processes
  <2> HIDE DEF p
  <2>3. Successor(i, p)
    BY <1>c, <2>1, <2>2 DEF Successor, Alive, Guest, StoresInv, Cleared
  <2>4. Boxes'
    <3>1. Placed(p)
      BY <1>c, <1>d, <2>1, <2>2 DEF Placed
    <3>. QED  BY <2>1, <2>2, <3>1, BoxesByStep
  <2>5. CASE ~overlapped
    <3>1. \A a \in Apps \ Shared :
             selected'[Primary]["main"] = [app |-> a, box |-> None] \/ Expects(p, a)
                => Vacant(procs, LCDataUUID[a])
      BY <1>e, <1>g, <2>1, <2>2, <2>5 DEF DefaultsFree, Expects
    <3>2. /\ p.phase = "save" => p.seen = lock
          /\ p.phase \in {"lock", "save"} => Vacant(procs, p.run.box)
      BY <1>e, <2>2, <2>5 DEF Recorded, Reserved
    <3>3. KeepsRequest(p, selected')
      BY <2>2 DEF KeepsRequest
    <3>4. CarriesOn(i, p)
      BY <2>1, <2>2, <3>1, <3>2, <3>3 DEF CarriesOn, Guest
    <3>. QED  BY <2>1, <2>2, <2>3, <2>4, <2>5, <3>4, SerialByStep
  <2>. QED  BY <1>t, <2>1, <2>4, <2>5
<1>7. ASSUME NEW i \in Ids, OpenWindow(i) PROVE Boxes' /\ SerialInv'
  <2> DEFINE p == [procs[i] EXCEPT !.next = NoRequest]
             others == [procs EXCEPT ![i].next = NoRequest]
  <2>1. /\ StartProcess(others, procs[i].copy, "live", "handoff", procs[i].next)
        /\ selected' = [selected EXCEPT ![procs[i].copy]["main"] = NoRequest]
        /\ UNCHANGED <<task, lock>>
        /\ procs[i].phase = "ui" /\ procs[i].next # NoRequest
    BY <1>7 DEF OpenWindow
  <2>2. p \in Processes /\ others = [procs EXCEPT ![i] = p]
    BY <1>a DEF Processes
  <2>3. /\ others \in Seq(Processes) /\ Len(others) = Len(procs)
        /\ \A j \in Ids : others[j] = IF j = i THEN p ELSE procs[j]
    BY <1>b, <2>2, ExceptSeq DEF Ids
  <2>4. "handoff" \in Phases
    BY DEF Phases
  <2> HIDE DEF others
  <2>5. /\ Ids' = Ids \cup {Newest}
        /\ procs'[Newest] = Fresh(procs[i].copy, "live", "handoff", procs[i].next)
        /\ \A j \in Ids : procs'[j] = others[j]
        /\ overlapped' = (overlapped \/ \E j \in Ids : Starting(j))
    BY <1>a, <1>d, <2>1, <2>3, <2>4, StartFacts
  <2>6. \A c \in Copies, k \in Kinds :
           selected'[c][k] = IF c = procs[i].copy /\ k = "main" THEN NoRequest ELSE selected[c][k]
    BY <1>a, <1>d, <2>1, SelectedFacts
  <2>7. \A j \in Ids :
           \/ procs'[j] = procs[j]
           \/ procs'[j] = [procs[j] EXCEPT !.next = NoRequest] /\ procs[j].kind = "main"
    BY <1>c, <2>1, <2>3, <2>5
  <2>8. /\ procs[i].copy \in Copies /\ procs[i].next \in Requests
        /\ procs[i].next.box # None
        /\ Private(procs[i].next.app) => procs[i].copy = Primary
    BY <1>a, <1>c, <2>1 DEF Placed
  <2> HIDE DEF p
  <2>9. Boxes'
    BY <1>d, <2>1, <2>4, <2>5, <2>6, <2>7, <2>8, BoxesByStart
  <2>10. SerialInv'
    <3>1. \A c \in Copies : /\ selected'[c]["main"] \in {selected[c]["main"], NoRequest}
                            /\ selected'[c]["live"] = selected[c]["live"]
      BY <1>d, <2>6
    <3>2. selected'[procs[i].copy]["main"] = NoRequest
      BY <1>d, <2>6, <2>8
    <3>. QED  BY <1>d, <2>1, <2>4, <2>5, <2>7, <2>8, <3>1, <3>2, SerialByStart
  <2>. QED  BY <2>9, <2>10
<1>8. ASSUME NEW i \in Ids, Handoff(i) PROVE Boxes' /\ SerialInv'
  <2> DEFINE p == [procs[i] EXCEPT !.phase = "boot"]
  <2>1. /\ Step(i, p) /\ procs[i].phase = "handoff" /\ UNCHANGED <<task, lock, overlapped>>
        /\ selected' = [selected EXCEPT ![procs[i].copy]["live"] = procs[i].next]
    BY <1>8 DEF Handoff
  <2>2. procs[i].kind = "live" /\ Alive(i) /\ Starting(i)
    BY <1>c, <2>1 DEF Alive, Starting, Ids
  <2>3. /\ p \in Processes /\ p.copy = procs[i].copy /\ p.kind = "live" /\ p.phase = "boot"
        /\ p.next = procs[i].next /\ p.run = procs[i].run /\ p.seen = procs[i].seen
    BY <1>a, <2>2 DEF Processes, Phases
  <2> HIDE DEF p
  <2>4. Successor(i, p)
    BY <1>c, <2>1, <2>2, <2>3 DEF Successor, Guest
  <2>5. \A c \in Copies, k \in Kinds :
           selected'[c][k] = IF c = procs[i].copy /\ k = "live" THEN procs[i].next ELSE selected[c][k]
    BY <1>a, <1>d, <2>1, SelectedFacts
  <2>6. procs[i].next # NoRequest /\ procs[i].next.box # None
    BY <1>c, <2>2 DEF Placed
  <2>7. Boxes'
    <3>1. Placed(p)
      BY <1>c, <2>3, <2>6 DEF Placed
    <3>. QED  BY <1>d, <2>1, <2>3, <2>5, <2>6, <3>1, BoxesByStep
  <2>8. CASE ~overlapped
    <3>1. \A a \in Apps \ Shared : ~Expects(p, a)
      BY <2>3, <2>6 DEF Expects
    <3>2. \A c \in Copies : selected'[c]["main"] = selected[c]["main"]
      BY <1>d, <2>5
    <3>3. KeepsRequest(p, selected')
      BY <1>a, <1>d, <2>3, <2>5 DEF KeepsRequest
    <3>4. CarriesOn(i, p)
      BY <1>e, <2>1, <2>2, <2>3, <2>8, <3>1, <3>2, <3>3 DEF CarriesOn, StartPhases, DefaultsFree
    <3>. QED  BY <2>1, <2>2, <2>3, <2>4, <2>7, <2>8, <3>4, SerialByStep
  <2>. QED  BY <1>t, <2>1, <2>7, <2>8
<1>9. ASSUME NEW i \in Ids, Boot(i) PROVE Boxes' /\ SerialInv'
  <2> DEFINE r == selected[procs[i].copy][procs[i].kind]
             Run(a, box) == [procs[i] EXCEPT !.phase = "check", !.run = Defaulted(a, box)]
  <2>1. /\ procs[i].phase = "boot" /\ UNCHANGED <<selected, lock, overlapped>>
        /\ task' = task \/ task' = [task EXCEPT !.app = None, !.box = None]
        /\ \/ r.app # None /\ Step(i, Run(r.app, r.box))
           \/ /\ task.app # None /\ Step(i, Run(task.app, task.box))
              /\ procs[i].kind = "main" /\ task.copy = procs[i].copy
           \/ r.app = None /\ Step(i, ToUI(i))
    BY <1>9 DEF Boot
  <2>2. r \in Requests /\ (task' = task \/ task'.app = None)
    <3>1. r \in Requests
      BY <1>a, <1>b
    <3>2. [task EXCEPT !.app = None, !.box = None].app = None
      BY <1>b DEF Tasks
    <3>. QED  BY <2>1, <3>1, <3>2
  <2>3. Alive(i) /\ Starting(i)
    BY <2>1 DEF Alive, Starting, Ids
  <2>4. procs[i].next = NoRequest \/ procs[i].next.box # None
    <3>1. Placed(procs[i])
      BY <1>c
    <3>. QED  BY <2>1, <3>1 DEF Placed
  <2>5. ~overlapped => \A a \in Apps \ Shared :
           /\ selected[Primary]["main"] = [app |-> a, box |-> None] => Vacant(procs, LCDataUUID[a])
           /\ procs[i].next # [app |-> a, box |-> None]
    <3>1. \A a \in Apps : procs[i].next # [app |-> a, box |-> None]
      <4> SUFFICES ASSUME NEW a \in Apps, procs[i].next = [app |-> a, box |-> None] PROVE FALSE
        OBVIOUS
      <4>1. procs[i].next.box = None /\ procs[i].next # NoRequest
        BY <1>g
      <4>. QED  BY <2>4, <4>1
    <3>. QED  BY <1>e, <3>1 DEF DefaultsFree
  \* What every outcome has to show.
  <2>6. ASSUME NEW p \in Processes, Step(i, p), p = Dead \/ Successor(i, p), Placed(p),
               p.phase \in {"check", "ui", "dead"},
               ~overlapped => KeepsRequest(p, selected),
               ~overlapped => \A a \in Apps \ Shared : Expects(p, a) => Vacant(procs, LCDataUUID[a])
        PROVE  Boxes' /\ SerialInv'
    <3>1. Boxes'
      BY <2>1, <2>2, <2>6, BoxesByStep
    <3>2. CASE ~overlapped
      <4>1. CarriesOn(i, p)
        BY <2>1, <2>5, <2>6, <3>2 DEF CarriesOn, StartPhases
      <4>. QED  BY <2>3, <2>6, <3>1, <3>2, <4>1, SerialByStep
    <3>. QED  BY <1>t, <2>1, <3>1, <3>2
  <2>7. ASSUME NEW a \in Apps, NEW box \in Folders \cup {None}, Step(i, Run(a, box)),
               \/ r.app = a /\ r.box = box
               \/ task.app = a /\ task.box = box /\ procs[i].kind = "main" /\ task.copy = procs[i].copy
        PROVE  Boxes' /\ SerialInv'
    <3> DEFINE d == Defaulted(a, box)
               p == Run(a, box)
    <3>1. d \in Requests /\ d.app = a /\ d.box = IF box = None /\ a \in Shared THEN LCDataUUID[a] ELSE box
      BY DefaultedFacts
    <3> HIDE DEF d
    <3>2. /\ p \in Processes /\ p.copy = procs[i].copy /\ p.kind = procs[i].kind /\ p.phase = "check"
          /\ p.next = procs[i].next /\ p.run = d /\ p.seen = procs[i].seen
      BY <1>a, <3>1 DEF Processes, Phases, d
    <3> HIDE DEF p
    <3>3. Successor(i, p)
      BY <1>c, <2>1, <3>2 DEF Successor, Guest
    <3>4. Private(a) => procs[i].copy = Primary
      BY <1>a, <2>7 DEF Boxes
    <3>5. d.box = None => Private(a) /\ box = None
      BY <3>1 DEF Private
    <3>6. d.box = None => procs[i].kind = "main" /\ r.app = a /\ r.box = None
      BY <1>a, <1>d, <2>7, <3>5 DEF Boxes, Kinds
    <3>7. Placed(p)
      BY <1>c, <2>4, <3>1, <3>2, <3>4, <3>5, <3>6 DEF Placed
    <3>8. ~overlapped => KeepsRequest(p, selected)
      <4> SUFFICES ASSUME ~overlapped, procs[i].kind = "live" PROVE d = procs[i].next
        BY <3>2 DEF KeepsRequest
      <4>1. r = procs[i].next
        BY <1>e, <2>1 DEF ChildKeepsRequest, KeepsRequest
      <4>2. r.app = a /\ r.box = box /\ r \in Requests /\ r.box # None
        BY <1>c, <2>2, <2>4, <2>7, <4>1
      <4>. QED  BY <3>1, <4>1, <4>2 DEF Requests
    <3>9. ASSUME ~overlapped, NEW b \in Apps \ Shared, Expects(p, b) PROVE Vacant(procs, LCDataUUID[b])
      <4>1. d = [app |-> b, box |-> None]
        BY <2>5, <3>2, <3>9 DEF Expects
      <4>2. a = b /\ d.box = None
        BY <3>1, <4>1
      <4>3. r = [app |-> b, box |-> None] /\ procs[i].kind = "main" /\ procs[i].copy = Primary
        BY <2>2, <3>4, <3>5, <3>6, <4>2 DEF Requests
      <4>. QED  BY <2>5, <3>9, <4>3
    <3>10. ~overlapped => \A b \in Apps \ Shared : Expects(p, b) => Vacant(procs, LCDataUUID[b])
      BY <3>9
    <3>11. Step(i, p) /\ p.phase \in {"check", "ui", "dead"}
      BY <2>7, <3>2 DEF p
    <3>. QED  BY <2>6, <3>2, <3>3, <3>7, <3>8, <3>10, <3>11
  <2>8. CASE r.app = None /\ Step(i, ToUI(i))
    <3>1. ToUI(i) \in Processes
      BY <1>a DEF ToUI, Processes, Phases
    <3>2. CASE procs[i].kind = "live"
      BY <1>f, <1>h, <2>6, <2>8, <3>1, <3>2 DEF ToUI
    <3>3. CASE procs[i].kind = "main"
      <4> DEFINE p == ToUI(i)
      <4>1. /\ p.copy = procs[i].copy /\ p.kind = "main" /\ p.phase = "ui"
            /\ p.next = procs[i].next /\ p.run = NoRequest /\ p.seen = procs[i].seen
        BY <1>a, <3>3 DEF ToUI, Processes
      <4>2. selected[procs[i].copy]["main"] = NoRequest
        BY <1>a, <1>d, <2>8, <3>3 DEF StoresInv, RequestsOK
      <4> HIDE DEF p
      <4>3. Successor(i, p)
        BY <1>c, <2>1, <3>3, <4>1, <4>2 DEF Successor, Guest
      <4>4. Placed(p)
        BY <1>c, <1>d, <2>4, <4>1 DEF Placed
      <4>5. KeepsRequest(p, selected)
        BY <4>1 DEF KeepsRequest
      <4>6. ~overlapped => \A a \in Apps \ Shared : ~Expects(p, a)
        BY <2>5, <4>1 DEF Expects
      <4>. QED  BY <2>6, <2>8, <3>1, <4>1, <4>3, <4>4, <4>5, <4>6 DEF p
    <3>. QED  BY <1>a, <3>2, <3>3 DEF Kinds
  <2>. QED
    <3>1. r.app \in Apps \cup {None} /\ r.box \in Folders \cup {None}
      BY <2>2 DEF Requests
    <3>2. task.app \in Apps \cup {None} /\ task.box \in Folders \cup {None}
      BY <1>b DEF Tasks
    <3>. QED  BY <2>1, <2>7, <2>8, <3>1, <3>2
<1>10. ASSUME NEW i \in Ids, Check(i) PROVE Boxes' /\ SerialInv'
  <2> DEFINE run == procs[i].run
             p == [procs[i] EXCEPT !.phase = "lock",
                     !.run.box = IF @ = None THEN LCDataUUID[procs[i].run.app] ELSE @]
  <2>1. /\ procs[i].phase = "check" /\ UNCHANGED <<task, lock, overlapped>>
        /\ selected' = [selected EXCEPT ![procs[i].copy][procs[i].kind] = NoRequest]
        /\ Step(i, ToUI(i)) \/ (~InUse(run.box) /\ Step(i, p))
    BY <1>10 DEF Check
  <2>2. Alive(i) /\ Starting(i)
    BY <2>1 DEF Alive, Starting, Ids
  <2>3. \A c \in Copies, k \in Kinds :
           selected'[c][k] = IF c = procs[i].copy /\ k = procs[i].kind THEN NoRequest ELSE selected[c][k]
    BY <1>a, <2>1, SelectedFacts
  <2>4. run.app \in Apps /\ run \in Requests
    BY <1>a, <2>1 DEF ProcessOK
  <2>5. Placed(procs[i]) /\ (procs[i].next = NoRequest \/ procs[i].next.box # None)
    <3>1. Placed(procs[i])
      BY <1>c
    <3>. QED  BY <2>1, <3>1 DEF Placed
  <2>6. \A a \in Apps : procs[i].next # [app |-> a, box |-> None]
    <3> SUFFICES ASSUME NEW a \in Apps, procs[i].next = [app |-> a, box |-> None] PROVE FALSE
      OBVIOUS
    <3>1. procs[i].next.box = None /\ procs[i].next # NoRequest
      BY <1>g
    <3>. QED  BY <2>5, <3>1
  <2>7. /\ \A c \in Copies : selected'[c]["main"] \in {selected[c]["main"], NoRequest}
        /\ \A c \in Copies, k \in Kinds : selected'[c][k] \in {selected[c][k], NoRequest}
    BY <1>d, <2>3
  <2>8. \A a \in Apps \ Shared :
           /\ selected'[Primary]["main"] = [app |-> a, box |-> None]
                 => selected[Primary]["main"] = [app |-> a, box |-> None]
    BY <1>g, <2>7
  \* What both outcomes have to show.
  <2>9. ASSUME NEW q \in Processes, Step(i, q), q = Dead \/ Successor(i, q), Placed(q),
               q.phase \in {"lock", "ui", "dead"}, q.next \in {procs[i].next, NoRequest},
               ~overlapped => KeepsRequest(q, selected'),
               ~overlapped /\ q.phase = "lock" => Vacant(procs, q.run.box)
        PROVE  Boxes' /\ SerialInv'
    <3>1. Boxes'
      BY <2>1, <2>7, <2>9, BoxesByStep
    <3>2. CASE ~overlapped
      <4>1. \A a \in Apps \ Shared : ~Expects(q, a)
        BY <1>g, <2>6, <2>9 DEF Expects
      <4>2. CarriesOn(i, q)
        BY <1>e, <2>1, <2>2, <2>7, <2>8, <2>9, <3>2, <4>1 DEF CarriesOn, StartPhases, DefaultsFree
      <4>. QED  BY <2>2, <2>9, <3>1, <3>2, <4>2, SerialByStep
    <3>. QED  BY <1>t, <2>1, <3>1, <3>2
  <2>10. CASE Step(i, ToUI(i))
    <3>1. ToUI(i) \in Processes
      BY <1>a DEF ToUI, Processes, Phases
    <3>2. CASE procs[i].kind = "live"
      BY <1>f, <2>9, <2>10, <3>1, <3>2 DEF ToUI
    <3>3. CASE procs[i].kind = "main"
      <4> DEFINE q == ToUI(i)
      <4>1. /\ q.copy = procs[i].copy /\ q.kind = "main" /\ q.phase = "ui"
            /\ q.next = procs[i].next /\ q.run = NoRequest /\ q.seen = procs[i].seen
        BY <1>a, <3>3 DEF ToUI, Processes
      <4>2. selected'[procs[i].copy]["main"] = NoRequest
        BY <1>a, <2>3, <3>3
      <4> HIDE DEF q
      <4>3. Successor(i, q)
        BY <1>c, <2>1, <3>3, <4>1, <4>2 DEF Successor, Guest
      <4>4. Placed(q)
        BY <1>d, <2>5, <4>1 DEF Placed
      <4>5. KeepsRequest(q, selected')
        BY <4>1 DEF KeepsRequest
      <4>. QED  BY <2>9, <2>10, <3>1, <4>1, <4>3, <4>4, <4>5 DEF q
    <3>. QED  BY <1>a, <3>2, <3>3 DEF Kinds
  <2>11. CASE ~InUse(run.box) /\ Step(i, p)
    <3>1. /\ p \in Processes /\ p.copy = procs[i].copy /\ p.kind = procs[i].kind /\ p.phase = "lock"
          /\ p.next = procs[i].next /\ p.seen = procs[i].seen
          /\ p.run = [run EXCEPT !.box = IF @ = None THEN LCDataUUID[run.app] ELSE @]
      BY <1>a, <2>4 DEF Processes, Phases, Requests
    <3>2. /\ p.run.app = run.app /\ p.run.box = IF run.box = None THEN LCDataUUID[run.app] ELSE run.box
          /\ run.box # None => p.run = run
      BY <2>4, <3>1 DEF Requests
    <3> HIDE DEF p
    <3>3. Successor(i, p)
      BY <1>a, <1>c, <2>1, <2>3, <3>1 DEF Successor, Guest
    <3>4. Placed(p)
      BY <2>5, <3>1, <3>2 DEF Placed
    <3>5. ~overlapped => KeepsRequest(p, selected')
      BY <1>e, <2>1, <2>5, <3>1, <3>2 DEF KeepsRequest, ChildKeepsRequest, Placed
    <3>6. ASSUME ~overlapped PROVE Vacant(procs, p.run.box)
      <4>1. CASE run.box = None
        <5>1. Private(run.app) /\ run = [app |-> run.app, box |-> None]
          BY <2>1, <2>4, <2>5, <4>1 DEF Placed, Requests
        <5>2. Expects(procs[i], run.app)
          BY <2>1, <5>1 DEF Expects
        <5>. QED  BY <1>e, <3>2, <3>6, <4>1, <5>1, <5>2 DEF DefaultsFree, Private
      <4>2. CASE run.box # None
        <5>1. \A j \in Ids : AtHome(j) => lock.folder[procs[j].run.box] = j
          BY <1>e, <3>6 DEF Recorded
        <5>2. \A j \in Ids : AtHome(j) => procs[j].run.box # run.box
          BY <2>11, <4>2, <5>1 DEF InUse, Alive, AtHome, Guest, Ids
        <5>. QED  BY <3>2, <4>2, <5>2 DEF Vacant, AtHome, Guest, Ids
      <4>. QED  BY <4>1, <4>2
    <3>. QED  BY <2>9, <2>11, <3>1, <3>3, <3>4, <3>5, <3>6
  <2>. QED  BY <2>1, <2>10, <2>11
<1>11. ASSUME NEW i \in Ids, LockRead(i) PROVE Boxes' /\ SerialInv'
  <2> DEFINE p == [procs[i] EXCEPT !.phase = "save", !.seen = lock]
  <2>1. /\ procs[i].phase = "lock" /\ Step(i, p) /\ Alive(i)
        /\ UNCHANGED <<selected, task, lock, overlapped>>
    BY <1>11 DEF LockRead, Alive, Ids
  <2>2. /\ p \in Processes /\ p.copy = procs[i].copy /\ p.kind = procs[i].kind /\ p.phase = "save"
        /\ p.next = procs[i].next /\ p.run = procs[i].run /\ p.seen = lock
    BY <1>a, <1>b DEF Processes, Phases
  <2> HIDE DEF p
  <2>3. Successor(i, p)
    BY <1>c, <2>1, <2>2 DEF Successor, Guest, StoresInv, Cleared
  <2>4. Boxes'
    <3>1. Placed(procs[i])
      BY <1>c
    <3>2. Placed(p)
      BY <2>1, <2>2, <3>1 DEF Placed
    <3>. QED  BY <2>1, <2>2, <3>2, BoxesByStep
  <2>5. CASE ~overlapped
    <3>1. KeepsRequest(p, selected')
      BY <1>e, <2>1, <2>2, <2>5 DEF KeepsRequest, ChildKeepsRequest
    <3>2. \A a \in Apps \ Shared : Expects(p, a) => Expects(procs[i], a)
      BY <2>2 DEF Expects
    <3>3. Vacant(procs, p.run.box)
      BY <1>e, <2>1, <2>2, <2>5 DEF Reserved
    <3>4. CarriesOn(i, p)
      BY <1>e, <2>1, <2>2, <2>5, <3>1, <3>2, <3>3 DEF CarriesOn, StartPhases, DefaultsFree
    <3>. QED  BY <2>1, <2>2, <2>3, <2>4, <2>5, <3>4, SerialByStep
  <2>. QED  BY <1>t, <2>1, <2>4, <2>5
<1>12. ASSUME NEW i \in Ids, LockSave(i) PROVE Boxes' /\ SerialInv'
  <2> DEFINE p == [procs[i] EXCEPT !.phase = "guest", !.seen = NoLock]
  <2>1. /\ procs[i].phase = "save" /\ Step(i, p) /\ UNCHANGED <<selected, task, overlapped>>
    BY <1>12 DEF LockSave
  <2>2. /\ p \in Processes /\ p.copy = procs[i].copy /\ p.kind = procs[i].kind /\ p.phase = "guest"
        /\ p.next = procs[i].next /\ p.run = procs[i].run
    BY <1>a DEF Processes, Phases
  <2> HIDE DEF p
  <2>3. Boxes'
    <3>1. Placed(procs[i])
      BY <1>c
    <3>2. Placed(p)
      BY <2>1, <2>2, <3>1 DEF Placed
    <3>. QED  BY <2>1, <2>2, <3>2, BoxesByStep
  <2>. QED  BY <1>t, <1>12, <2>1, <2>3, SerialByLockSave
<1>13. ASSUME NEW i \in Ids, NEW a \in Apps, AskForJIT(i, a) PROVE Boxes' /\ SerialInv'
  <2>1. PICK l \in Copies : task' = [task EXCEPT !.copy = l, !.app = a, !.fresh = TRUE]
    BY <1>13 DEF AskForJIT
  <2>2. UNCHANGED <<procs, selected, lock, overlapped>> /\ a \in Shared
    BY <1>13 DEF AskForJIT
  <2>3. ~Private(task'.app)
    BY <1>b, <2>1, <2>2 DEF Private, Tasks
  <2>. QED  BY <1>s, <2>2, <2>3 DEF Boxes, Ids
<1>14. ASSUME NEW i \in Ids, NEW a \in Apps, NEW f \in LCContainers[a] \cup {None},
              Ask(i, a, f)
       PROVE  Boxes' /\ SerialInv'
  <2> DEFINE n == [app |-> a, box |-> f]
             p == [procs[i] EXCEPT !.next = n]
  <2>1. /\ procs[i].kind = "main" /\ procs[i].phase \in {"guest", "ui"} /\ Step(i, p)
        /\ f = None => procs[i].phase = "guest"
        /\ Private(a) => procs[i].copy = Primary
        /\ f = None => ~InUse(LCDataUUID[a])
        /\ UNCHANGED <<selected, task, lock, overlapped>>
    BY <1>14 DEF Ask, Guest, Runs, Private
  <2>2. n \in Requests /\ n.app = a /\ n.box = f
    BY LaunchAssumption DEF Requests
  <2> HIDE DEF n
  <2>3. /\ p \in Processes /\ p.copy = procs[i].copy /\ p.kind = "main" /\ p.phase = procs[i].phase
        /\ p.next = n /\ p.run = procs[i].run /\ p.seen = procs[i].seen /\ Alive(i)
    BY <1>a, <2>1, <2>2 DEF Processes, Alive, Ids
  <2> HIDE DEF p
  <2>4. Successor(i, p)
    BY <1>d, <2>1, <2>2, <2>3 DEF Successor, Guest, StoresInv, Cleared
  <2>5. Boxes'
    <3>1. Placed(procs[i])
      BY <1>c
    <3>2. Placed(p)
      BY <2>1, <2>2, <2>3, <3>1 DEF Placed
    <3>. QED  BY <2>1, <2>3, <3>2, BoxesByStep
  <2>6. CASE ~overlapped
    <3>1. f = None => Vacant(procs, LCDataUUID[a])
      <4>1. \A j \in Ids : AtHome(j) => lock.folder[procs[j].run.box] = j
        BY <1>e, <2>6 DEF Recorded
      <4>2. f = None => \A j \in Ids : AtHome(j) => procs[j].run.box # LCDataUUID[a]
        BY <2>1, <4>1 DEF InUse, Alive, AtHome, Guest, Ids
      <4>. QED  BY <4>2 DEF Vacant, AtHome, Guest, Ids
    <3>2. ASSUME NEW b \in Apps \ Shared, Expects(p, b) PROVE b = a /\ f = None
      BY <2>1, <2>2, <2>3, <3>2 DEF Expects
    <3>3. KeepsRequest(p, selected')
      BY <2>3 DEF KeepsRequest
    <3>4. CarriesOn(i, p)
      BY <1>e, <2>1, <2>3, <2>6, <3>1, <3>2, <3>3 DEF CarriesOn, StartPhases, DefaultsFree, Guest
    <3>. QED  BY <2>1, <2>3, <2>4, <2>5, <2>6, <3>4, SerialByStep
  <2>. QED  BY <1>t, <2>1, <2>5, <2>6
<1>15. CASE UNCHANGED vars
  BY <1>15, <1>s DEF vars, Boxes, Ids
<1>. QED
  BY <1>1, <1>2, <1>3, <1>4, <1>5, <1>6, <1>7, <1>8, <1>9, <1>10, <1>11, <1>12, <1>13, <1>14, <1>15
  DEF Next, Ids

-----------------------------------------------------------------------------
(* The theorems.                                                             *)

(* IInv holds initially ... *)
LEMMA InvInit == Init => IInv
<1> SUFFICES ASSUME Init PROVE IInv
  OBVIOUS
<1> USE NothingTypes
<1>1. LaunchTypeOK
  BY TypeInit
<1>2. Ids = {}
  BY EmptySeq DEF Init, Ids
<1>3. \A l \in Copies, k \in Kinds : selected[l][k] = NoRequest
  BY DEF Init
<1>4. StoresInv
  BY <1>2, <1>3, NoLockHolds DEF Init, StoresInv, RequestsOK, Roles, OneMain, Cleared, Holders
<1>5. ~Private(None) /\ NoRequest.app = None /\ task.app = None /\ "live" \in Kinds /\ "main" \in Kinds
  BY LaunchAssumption DEF Private, NoRequest, Init, Kinds
<1>6. Boxes
  BY <1>2, <1>3, <1>5 DEF Boxes
<1>7. \A f : Vacant(procs, f)
  BY <1>2 DEF Vacant, Ids
<1>8. SerialInv
  BY <1>2, <1>3, <1>5, <1>7 DEF SerialInv, Serial, ChildKeepsRequest, QuietCopies, Recorded, Reserved,
                                DefaultsFree
<1>. QED  BY <1>1, <1>4, <1>6, <1>8 DEF IInv

(* ... and every step keeps it. *)
LEMMA InvStep == IInv /\ [Next]_vars => IInv'
BY TypeStep, StoresStep, SerialStep DEF IInv

(* IInv is an invariant, for every number of processes. *)
THEOREM InvariantHolds == Spec => []IInv
<1>1. Init => IInv
  BY InvInit
<1>2. IInv /\ [Next]_vars => IInv'
  BY InvStep
<1>. QED  BY <1>1, <1>2, PTL DEF Spec

\* Every variable has its type, and a process that goes on with an app has one.
THEOREM LaunchTypeCorrect == Spec => []LaunchTypeOK
<1>1. IInv => LaunchTypeOK
  BY DEF IInv
<1>. QED  BY <1>1, InvariantHolds, PTL

\* The lock file sends the user to a guest of that container, or to nobody: Holders, which
\* a lost update of the file cannot break because every copy of it satisfies the same.
THEOREM RedirectReachesGuest == Spec => []RedirectFindsGuest
<1>1. IInv => RedirectFindsGuest
  <2> SUFFICES ASSUME IInv, NEW f \in Folders, InUse(f)
               PROVE  LET h == lock.folder[f] IN Guest(h) /\ procs[h].run.box = f
    BY DEF RedirectFindsGuest
  <2> DEFINE h == lock.folder[f]
  <2>1. h \in Ids /\ procs[h].phase # "dead" /\ h # 0
    BY ProcsFacts DEF InUse, Alive, Ids, IInv
  <2>. QED  BY <2>1 DEF IInv, StoresInv, Holders, Holds, Guest
<1>. QED  BY <1>1, InvariantHolds, PTL

\* A crashed guest does not come back: the next start of its copy shows the app list.
THEOREM CrashShowsAppList == Spec => []CrashReturnsToUI
<1>1. IInv => CrashReturnsToUI
  BY DEF IInv, StoresInv, Cleared, CrashReturnsToUI, Guests, Guest, Ids
<1>. QED  BY <1>1, InvariantHolds, PTL

\* While processes start one at a time, a container of an app has one guest, also when the
\* app is private and its default container was not looked up.
THEOREM ContainersAreExclusive == Spec => []OneGuestPerContainer
<1>1. IInv => OneGuestPerContainer
  BY DEF IInv, SerialInv, Recorded, OneGuestPerContainer, Ids
<1>. QED  BY <1>1, InvariantHolds, PTL

\* While processes start one at a time, a copy that runs a guest counts as in use.
THEOREM GuestCopiesAreInUse == Spec => []GuestCopyInUse
<1>1. IInv => GuestCopyInUse
  <2> SUFFICES ASSUME IInv, ~overlapped, NEW i \in Ids, Guest(i), procs[i].kind = "main"
               PROVE  SchemeInUse(procs[i].copy)
    BY DEF GuestCopyInUse, Guests, Ids
  <2>1. lock.scheme[procs[i].copy] = i
    BY DEF IInv, SerialInv, Recorded
  <2>. QED  BY <2>1 DEF SchemeInUse, Alive, Guest, Ids
<1>. QED  BY <1>1, InvariantHolds, PTL

\* While processes start one at a time, a window shows the app it was opened for.
THEOREM WindowsShowTheirApps == Spec => []WindowShowsItsApp
<1>1. IInv => WindowShowsItsApp
  BY DEF IInv, SerialInv, ChildKeepsRequest, KeepsRequest, WindowShowsItsApp, Guests, Guest, Ids
<1>. QED  BY <1>1, InvariantHolds, PTL

\* The dead stay dead, and a guest keeps its app and its container until it dies.
THEOREM GuestsAreStable == Spec => [][GuestsStay]_vars
<1>1. IInv /\ [Next]_vars => [GuestsStay]_vars
  BY StoresStep DEF IInv
<1>. QED  BY <1>1, InvariantHolds, PTL DEF Spec
=============================================================================
