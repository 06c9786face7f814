--------------------------- MODULE Dead10ccFixProofs ---------------------------
(***************************************************************************)
(* The 0xdead10cc workaround for any files, descriptors and callbacks: a    *)
(* process is suspended only when a scan has seen to the locks it holds.    *)
(***************************************************************************)
EXTENDS Dead10ccFix, FiniteSetTheorems, NaturalsInduction, TLAPS

(* Every set of descriptors that is not empty has a first one. *)
LEMMA FirstDescriptor ==
    ASSUME NEW S \in SUBSET Nat, S # {}
    PROVE  Min(S) \in S
<1>1. PICK m \in S : \A n \in S : <<n, m>> \notin OpToRel(<, Nat)
  <2>. HIDE DEF OpToRel
  <2>. QED  BY NatLessThanWellFounded, WFMin, Zenon
<1>2. \A n \in S : ~(n < m)
  BY <1>1 DEF OpToRel
<1>3. \A n \in S : m <= n
  BY <1>2
<1>. QED  BY <1>3 DEF Min

-----------------------------------------------------------------------------
(* The inductive invariant.                                                 *)

(* One turn of the loop is under way at most: it waits for the end of a task, is due,
   waits for its timer or scans.  What waits, waits for a task. *)
One(b) == IF b THEN 1 ELSE 0
TurnsInv ==
    /\ waiting + due + One(timer) + One(scan.pc # "idle") <= MaxCallbacks + 1
    /\ waiting > 0 => tasks
    /\ state = "suspended" => waiting = 0 /\ due = 0 /\ ~tasks /\ scan.pc = "idle"

(* There are descriptors left for the rounds that are left. *)
LookInv == scan.pc = "look" => scan.count <= Cardinality(scan.list)

(* Out of the foreground a scan is still to come, or the one that runs or ran last sees
   to every lock on a file that must be marked. *)
ToLook == {f \in Files : \E d \in scan.list : fds[d] = f}
Handled ==
    marked \cup late \cup
    CASE scan.pc = "idle" -> missed
      [] scan.pc = "look" -> scan.paths \cup ToLook
      [] scan.pc = "check" -> missed \cup scan.paths \cup scan.found
Coming == waiting > 0 \/ due > 0
CoverInv == state # "active" => Coming \/ locked \cap Watched \subseteq Handled

(* SuspendTypeOK in parts; a lock is held through a descriptor of the guest. *)
LoopOK ==
    /\ kind \in FileKinds
    /\ state \in {"active", "background", "suspended"} /\ tasks \in BOOLEAN
    /\ waiting \in Nat /\ due \in Nat /\ timer \in BOOLEAN
FilesOK ==
    /\ fds \in [Descriptors -> Files \cup {None}] /\ own \subseteq Descriptors
    /\ \A d \in own : fds[d] # None
    /\ \A f \in locked : \E d \in own : fds[d] = f
    /\ late \subseteq locked /\ missed \subseteq locked
ScanTypes == [pc : {"idle", "look", "check"}, list : SUBSET Descriptors, count : 0..MaxFds,
              paths : SUBSET Files, found : SUBSET Watched]
ScanOK == scan \in ScanTypes /\ marked \subseteq Watched /\ LookInv

FixInv == LoopOK /\ FilesOK /\ ScanOK /\ TurnsInv /\ CoverInv

LEMMA FixTypes == FixInv => SuspendTypeOK
<1> SUFFICES ASSUME FixInv PROVE SuspendTypeOK
  OBVIOUS
<1>1. waiting \in 0..MaxCallbacks + 1 /\ due \in 0..MaxCallbacks + 1
  <2>1. One(timer) \in 0..1 /\ One(scan.pc # "idle") \in 0..1
    BY DEF One
  <2>. QED  BY <2>1, FixAssumption DEF FixInv, LoopOK, TurnsInv
<1>2. locked \subseteq {fds[d] : d \in own}
  BY DEF FixInv, FilesOK
<1>3. scan \in [pc : {"idle", "look", "check"}, list : SUBSET Descriptors, count : 0..MaxFds,
                paths : SUBSET Files, found : SUBSET Watched]
  BY DEF FixInv, ScanOK, ScanTypes
<1>. QED  BY <1>1, <1>2, <1>3, Zenon DEF FixInv, LoopOK, FilesOK, ScanOK, SuspendTypeOK

LEMMA FixInit == Init => FixInv
<1> SUFFICES ASSUME Init PROVE FixInv
  OBVIOUS
<1>0. MaxFds \in Nat /\ MaxCallbacks \in Nat
  BY FixAssumption
<1>1. LoopOK
  BY DEF Init, LoopOK
<1>2. FilesOK
  BY DEF Init, FilesOK
<1>3. ScanOK
  BY <1>0 DEF Init, ScanOK, ScanTypes, LookInv, NoScan
<1>4. TurnsInv
  BY <1>0 DEF Init, TurnsInv, NoScan, One
<1>5. CoverInv
  BY DEF Init, CoverInv
<1>. QED  BY <1>1, <1>2, <1>3, <1>4, <1>5 DEF FixInv

(* The descriptors are finitely many. *)
LEMMA Lists ==
    ASSUME NEW S \in SUBSET Descriptors
    PROVE  /\ IsFiniteSet(S) /\ Cardinality(S) \in 0..MaxFds
           /\ S \in SUBSET Nat
<1>1. IsFiniteSet(1..MaxFds) /\ Cardinality(1..MaxFds) = MaxFds
  BY FixAssumption, FS_Interval
<1>2. IsFiniteSet(S) /\ Cardinality(S) <= MaxFds /\ Cardinality(S) \in Nat
  BY <1>1, FS_Subset, FS_CardinalityType DEF Descriptors
<1>. QED  BY <1>2, FixAssumption DEF Descriptors

LEMMA FreeOne == Free # {} => Min(Free) \in Free /\ Free \in SUBSET Descriptors
BY Lists, FirstDescriptor DEF Free

-----------------------------------------------------------------------------
(* The guest's threads. *)

(* They leave the loop and the scan alone. *)
LEMMA GuestKeepsLoop ==
    ASSUME FixInv, UNCHANGED <<kind, processVars, loopVars, marked, scan>>
    PROVE  LoopOK' /\ ScanOK' /\ TurnsInv'
<1>1. LoopOK' /\ TurnsInv'
  BY DEF FixInv, LoopOK, TurnsInv, processVars, loopVars
<1>2. ScanOK'
  BY DEF FixInv, ScanOK, ScanTypes, LookInv, Watched
<1>. QED  BY <1>1, <1>2

(* Locks may go, come late or stay; a descriptor of a locked file stays. *)
LEMMA GuestKeepsCover ==
    ASSUME FixInv, UNCHANGED <<kind, processVars, loopVars, marked, scan>>,
           \A f \in locked' : f \in locked \cup late',
           \A f \in locked' : (f \in late => f \in late') /\ (f \in missed => f \in missed'),
           \A f \in locked', d \in scan.list : fds[d] = f => fds'[d] = f
    PROVE  CoverInv'
<1> SUFFICES ASSUME state' # "active", ~Coming', NEW f \in locked', f \in Watched'
             PROVE  f \in Handled'
  BY DEF CoverInv
<1>1. state # "active" /\ ~Coming /\ f \in Watched /\ f \in Files
  BY DEF processVars, loopVars, Coming, Watched
<1>2. CASE f \in late'
  BY <1>2 DEF Handled
<1>3. CASE f \in locked
  <2>1. f \in Handled
    BY <1>1, <1>3 DEF FixInv, CoverInv
  <2>2. scan.pc \in {"idle", "look", "check"} /\ scan' = scan /\ marked' = marked
    BY DEF FixInv, ScanOK, ScanTypes
  <2>3. f \in ToLook => f \in ToLook'
    BY <2>2 DEF ToLook
  <2>. QED  BY <2>1, <2>2, <2>3 DEF Handled
<1>. QED  BY <1>2, <1>3

LEMMA OpenKeeps == ASSUME FixInv, NEW f \in Files, Open(f) PROVE FixInv'
<1>1. Min(Free) \in Free /\ Free \in SUBSET Descriptors
  BY FreeOne DEF Open
<1>2. None \notin Files
  BY FixAssumption
<1>3. /\ fds \in [Descriptors -> Files \cup {None}] /\ own \subseteq Descriptors
      /\ fds[Min(Free)] = None /\ Min(Free) \in Descriptors
      /\ \A d \in own : fds[d] # None
      /\ \A g \in locked : \E d \in own : fds[d] = g
  BY <1>1 DEF FixInv, FilesOK, Free
<1>4. /\ fds' = [fds EXCEPT ![Min(Free)] = f] /\ own' = own \cup {Min(Free)}
      /\ locked' = locked /\ late' = late /\ missed' = missed
  BY DEF Open
<1>5. FilesOK'
  <2>1. Min(Free) \notin own
    BY <1>3
  <2>. QED  BY <1>2, <1>3, <1>4, <2>1 DEF FixInv, FilesOK
<1>6. \A g \in locked', d \in scan.list : fds[d] = g => fds'[d] = g
  <2>1. \A g \in locked : g # None
    BY <1>3
  <2>2. \A d \in scan.list : d \in Descriptors
    BY DEF FixInv, ScanOK, ScanTypes
  <2>. QED  BY <1>3, <1>4, <2>1, <2>2
<1>7. CoverInv'
  BY <1>4, <1>6, GuestKeepsCover DEF Open
<1>. QED  BY <1>5, <1>7, GuestKeepsLoop DEF Open, FixInv

LEMMA CloseKeeps == ASSUME FixInv, NEW d \in Descriptors, Close(d) PROVE FixInv'
<1>1. /\ fds \in [Descriptors -> Files \cup {None}] /\ own \subseteq Descriptors
      /\ \A e \in own : fds[e] # None
      /\ \A g \in locked : \E e \in own : fds[e] = g
      /\ late \subseteq locked /\ missed \subseteq locked
  BY DEF FixInv, FilesOK
<1>2. /\ d \in own /\ fds' = [fds EXCEPT ![d] = None] /\ own' = own \ {d}
      /\ locked' = locked \ {fds[d]} /\ late' = late \ {fds[d]} /\ missed' = missed \ {fds[d]}
  BY DEF Close, Releases
<1>3. FilesOK'
  BY <1>1, <1>2 DEF FilesOK
<1>4. \A g \in locked', e \in scan.list : fds[e] = g => fds'[e] = g
  <2>1. \A e \in scan.list : e \in Descriptors
    BY DEF FixInv, ScanOK, ScanTypes
  <2>. QED  BY <1>1, <1>2, <2>1
<1>5. CoverInv'
  BY <1>1, <1>2, <1>4, GuestKeepsCover DEF Close
<1>. QED  BY <1>3, <1>5, GuestKeepsLoop DEF Close, FixInv

LEMMA LockKeeps == ASSUME FixInv, NEW d \in Descriptors, Lock(d) PROVE FixInv'
<1>1. FilesOK'
  BY DEF FixInv, FilesOK, Lock
<1>2. CoverInv'
  BY GuestKeepsCover DEF Lock
<1>. QED  BY <1>1, <1>2, GuestKeepsLoop DEF Lock, FixInv

LEMMA UnlockKeeps == ASSUME FixInv, NEW f \in Files, Unlock(f) PROVE FixInv'
<1>1. FilesOK'
  BY DEF FixInv, FilesOK, Unlock, Releases
<1>2. CoverInv'
  BY GuestKeepsCover DEF Unlock, Releases
<1>. QED  BY <1>1, <1>2, GuestKeepsLoop DEF Unlock, FixInv

-----------------------------------------------------------------------------
(* The life of the process and the callbacks. *)

LEMMA OneTypes == One(timer) \in {0, 1} /\ One(scan.pc # "idle") \in {0, 1}
                  /\ (scan.pc = "idle" => One(scan.pc # "idle") = 0)
                  /\ (timer = TRUE => One(timer) = 1)
BY DEF One

LEMMA OneMore ==
    ASSUME NEW w \in Nat, NEW d \in Nat, NEW t \in Nat, NEW m \in Nat, w + d <= m, t <= 1
    PROVE  w + d + t <= m + 1
OBVIOUS

LEMMA TaskStartsKeeps == ASSUME FixInv, TaskStarts PROVE FixInv'
<1>1. UNCHANGED <<kind, state, waiting, due, timer, fds, own, locked, late, marked, scan, missed>>
      /\ tasks' = TRUE /\ state # "suspended"
  BY DEF TaskStarts, loopVars, fileVars, Running
<1>2. LoopOK' /\ FilesOK' /\ ScanOK'
  BY <1>1 DEF FixInv, LoopOK, FilesOK, ScanOK, ScanTypes, LookInv, Watched
<1>3. TurnsInv'
  BY <1>1 DEF FixInv, TurnsInv
<1>4. CoverInv'
  BY <1>1 DEF FixInv, CoverInv, Coming, Handled, ToLook, Watched
<1>. QED  BY <1>2, <1>3, <1>4 DEF FixInv

LEMMA TaskEndsKeeps == ASSUME FixInv, TaskEnds PROVE FixInv'
<1>1. UNCHANGED <<kind, state, timer, fds, own, locked, late, marked, scan, missed>>
      /\ tasks /\ tasks' = FALSE /\ due' = due + waiting /\ waiting' = 0
  BY DEF TaskEnds, fileVars
<1>2. LoopOK' /\ FilesOK' /\ ScanOK'
  <2>1. due' \in Nat /\ waiting' \in Nat
    BY <1>1 DEF FixInv, LoopOK
  <2>2. LoopOK'
    BY <1>1, <2>1 DEF FixInv, LoopOK
  <2>. QED  BY <1>1, <2>2 DEF FixInv, FilesOK, ScanOK, ScanTypes, LookInv, Watched
<1>3. TurnsInv'
  BY <1>1, OneTypes, FixAssumption DEF FixInv, TurnsInv, LoopOK
<1>4. CoverInv'
  <2>1. Coming => Coming'
    BY <1>1 DEF Coming, FixInv, LoopOK
  <2>. QED  BY <1>1, <2>1 DEF FixInv, CoverInv, Handled, ToLook, Watched
<1>. QED  BY <1>2, <1>3, <1>4 DEF FixInv

(* The callback joins those that wait or those that are due. *)
LEMMA CompletionShape ==
    ASSUME FixInv, HandleTaskCompletion
    PROVE  /\ waiting' \in Nat /\ due' \in Nat /\ waiting' + due' = waiting + due + 1
           /\ Coming'
           /\ waiting' > 0 => tasks
BY DEF HandleTaskCompletion, FixInv, LoopOK, TurnsInv, Coming

LEMMA EnterKeeps == ASSUME FixInv, EnterBackground PROVE FixInv'
<1>1. /\ UNCHANGED <<kind, tasks, timer, fds, own, locked, marked, scan>>
      /\ state' = "background" /\ late' = {} /\ missed' = {} /\ scan.pc = "idle"
      /\ waiting + due < MaxCallbacks /\ HandleTaskCompletion
  BY DEF EnterBackground, MainIsFree
<1>2. /\ waiting' \in Nat /\ due' \in Nat /\ waiting' + due' = waiting + due + 1
      /\ Coming' /\ (waiting' > 0 => tasks)
  BY <1>1, CompletionShape
<1>3. LoopOK' /\ FilesOK' /\ ScanOK'
  BY <1>1, <1>2 DEF FixInv, LoopOK, FilesOK, ScanOK, ScanTypes, LookInv, Watched
<1>4. TurnsInv'
  <2>1. waiting' + due' + One(timer') + One(scan'.pc # "idle") <= MaxCallbacks + 1
    <3>1. PICK t \in {0, 1} : One(timer') = t
      BY DEF One
    <3>3. One(scan'.pc # "idle") = 0
      BY <1>1 DEF One
    <3>2. waiting \in Nat /\ due \in Nat /\ MaxCallbacks \in Nat
      BY FixAssumption DEF FixInv, LoopOK
    <3>5. waiting' + due' <= MaxCallbacks
      <4>1. waiting + due < MaxCallbacks
        BY <1>1
      <4>2. waiting + due + 1 <= MaxCallbacks
        BY <4>1, <3>2
      <4>. QED  BY <4>2, <1>2
    <3>6. waiting' \in Nat /\ due' \in Nat
      BY <1>2
    <3>7. t \in Nat /\ t <= 1
      BY <3>1
    <3>4. waiting' + due' + t <= MaxCallbacks + 1
      BY <3>2, <3>5, <3>6, <3>7, OneMore
    <3>. QED  BY <1>2, <3>1, <3>3, <3>4
  <2>. QED  BY <1>1, <1>2, <2>1 DEF TurnsInv
<1>5. CoverInv'
  BY <1>2 DEF CoverInv
<1>. QED  BY <1>3, <1>4, <1>5 DEF FixInv

LEMMA ActiveKeeps == ASSUME FixInv, BecomeActive PROVE FixInv'
<1>1. /\ UNCHANGED <<kind, tasks, waiting, due, timer, fds, own, locked, late, marked, scan, missed>>
      /\ state' = "active"
  BY DEF BecomeActive, loopVars, fileVars
<1>. QED  BY <1>1 DEF FixInv, LoopOK, FilesOK, ScanOK, ScanTypes, LookInv, Watched, TurnsInv,
                      CoverInv

LEMMA SuspendKeeps == ASSUME FixInv, Suspend PROVE FixInv'
<1>1. /\ UNCHANGED <<kind, tasks, waiting, due, timer, fds, own, locked, late, marked, scan, missed>>
      /\ state' = "suspended" /\ state = "background" /\ ~tasks /\ due = 0 /\ scan.pc = "idle"
  BY DEF Suspend, loopVars, fileVars, MainIsFree
<1>2. waiting = 0
  BY <1>1 DEF FixInv, TurnsInv, LoopOK
<1>3. CoverInv'
  BY <1>1 DEF FixInv, CoverInv, Coming, Handled, ToLook, Watched
<1>. QED  BY <1>1, <1>2, <1>3
          DEF FixInv, LoopOK, FilesOK, ScanOK, ScanTypes, LookInv, Watched, TurnsInv

LEMMA TimerKeeps == ASSUME FixInv, TimerFires PROVE FixInv'
<1>1. /\ UNCHANGED <<kind, state, tasks, fds, own, locked, late, marked, scan, missed>>
      /\ timer = TRUE /\ timer' = FALSE /\ scan.pc = "idle" /\ state # "suspended"
      /\ HandleTaskCompletion
  BY DEF TimerFires, MainIsFree, Running, processVars, fileVars, FixInv, LoopOK
<1>2. /\ waiting' \in Nat /\ due' \in Nat /\ waiting' + due' = waiting + due + 1
      /\ Coming' /\ (waiting' > 0 => tasks)
  BY <1>1, CompletionShape
<1>3. LoopOK' /\ FilesOK' /\ ScanOK'
  BY <1>1, <1>2 DEF FixInv, LoopOK, FilesOK, ScanOK, ScanTypes, LookInv, Watched
<1>4. TurnsInv'
  <2>1. One(timer') = 0 /\ One(timer) = 1
        /\ One(scan'.pc # "idle") = 0 /\ One(scan.pc # "idle") = 0
    BY <1>1 DEF One
  <2>2. waiting + due + 1 <= MaxCallbacks + 1
    BY <2>1 DEF FixInv, LoopOK, TurnsInv
  <2>3. waiting' + due' + One(timer') + One(scan'.pc # "idle") <= MaxCallbacks + 1
    BY <1>2, <2>1, <2>2
  <2>. QED  BY <1>1, <1>2, <2>3 DEF TurnsInv
<1>5. CoverInv'
  BY <1>2 DEF CoverInv
<1>. QED  BY <1>3, <1>4, <1>5 DEF FixInv

-----------------------------------------------------------------------------
(* The scan. *)

LEMMA ListKeeps == ASSUME FixInv, ListFds PROVE FixInv'
<1> DEFINE list == Descriptors \ Free
<1>1. /\ UNCHANGED <<kind, state, tasks, waiting, timer, fds, own, locked, marked>>
      /\ due > 0 /\ due' = due - 1 /\ scan.pc = "idle" /\ state # "suspended"
      /\ late' = {} /\ missed' = {}
      /\ scan' = [pc |-> "look", list |-> list, count |-> Cardinality(list),
                  paths |-> {}, found |-> {}]
  BY DEF ListFds, MainIsFree, Running, processVars, NoScan
<1>2. list \in SUBSET Descriptors /\ Cardinality(list) \in 0..MaxFds
  BY Lists
<1>3. LoopOK'
  BY <1>1 DEF FixInv, LoopOK
<1>4. FilesOK'
  BY <1>1 DEF FixInv, FilesOK
<1>5. ScanOK'
  <2>1. scan' \in ScanTypes
    <3> HIDE DEF list
    <3>. QED  BY <1>1, <1>2 DEF ScanTypes
  <2>2. scan'.count <= Cardinality(scan'.list)
    <3>1. scan'.count = Cardinality(list) /\ scan'.list = list
      BY <1>1
    <3> HIDE DEF list
    <3>. QED  BY <3>1, <1>2, FixAssumption
  <2>. QED  BY <1>1, <2>1, <2>2 DEF FixInv, ScanOK, ScanTypes, LookInv, Watched
<1>6. TurnsInv'
  <2>1. One(scan.pc # "idle") = 0 /\ One(scan'.pc # "idle") = 1
    BY <1>1 DEF One
  <2>2. PICK t \in {0, 1} : One(timer) = t
    BY DEF One
  <2>3. One(timer') = t
    BY <1>1, <2>2 DEF One
  <2>4. waiting \in Nat /\ due \in Nat /\ MaxCallbacks \in Nat
    BY FixAssumption DEF FixInv, LoopOK
  <2>5. waiting + due + t <= MaxCallbacks + 1
    BY <2>1, <2>2, <2>4 DEF FixInv, TurnsInv
  <2>6. waiting' + due' + t + 1 <= MaxCallbacks + 1
    <3>1. waiting' = waiting /\ due' = due - 1
      BY <1>1
    <3>. QED  BY <2>4, <2>5, <3>1
  <2>7. waiting' + due' + One(timer') + One(scan'.pc # "idle") <= MaxCallbacks + 1
    BY <2>1, <2>3, <2>6
  <2>. QED  BY <1>1, <2>7 DEF FixInv, TurnsInv
<1>7. CoverInv'
  <2> SUFFICES ASSUME NEW f \in locked' PROVE f \in Handled'
    BY DEF CoverInv
  <2>1. PICK d \in own : fds[d] = f
    BY <1>1 DEF FixInv, FilesOK
  <2>2. d \in list /\ fds[d] \in Files
    BY <2>1 DEF FixInv, FilesOK, Free
  <2>3. scan'.pc = "look" /\ scan'.list = list /\ fds' = fds
    BY <1>1
  <2>4. f \in ToLook'
    BY <2>1, <2>2, <2>3 DEF ToLook
  <2>. QED  BY <2>3, <2>4 DEF Handled
<1>. QED  BY <1>3, <1>4, <1>5, <1>6, <1>7 DEF FixInv

(* A step of the scan leaves the guest and the loop alone; the scan does not end. *)
LEMMA ScanKeepsLoop ==
    ASSUME FixInv, UNCHANGED <<kind, processVars, loopVars>>, scan.pc # "idle", scan'.pc # "idle"
    PROVE  LoopOK' /\ TurnsInv'
<1>1. LoopOK' /\ state # "suspended" /\ UNCHANGED <<state, tasks, waiting, due, timer>>
  BY DEF FixInv, LoopOK, TurnsInv, processVars, loopVars
<1>2. One(scan.pc # "idle") = 1 /\ One(scan'.pc # "idle") = 1 /\ One(timer') = One(timer)
  BY <1>1 DEF One
<1>3. TurnsInv
  BY DEF FixInv
<1>. QED  BY <1>1, <1>2, <1>3 DEF TurnsInv

LEMMA LookKeeps == ASSUME FixInv, Look PROVE FixInv'
<1> DEFINE d == Min(scan.list)
           known == fds[d] # None /\ kind[fds[d]] # "unlinked"
           list == IF known THEN scan.list \ {d} ELSE scan.list
           paths == IF known THEN scan.paths \cup {fds[d]} ELSE scan.paths
<1>1. /\ UNCHANGED <<kind, state, tasks, waiting, due, timer, fds, own, locked, late, marked, missed>>
      /\ scan.pc = "look" /\ scan.count > 0
      /\ scan' = [scan EXCEPT !.count = scan.count - 1, !.list = list, !.paths = paths]
  BY DEF Look, processVars, loopVars, fileVars
<1>2. /\ scan.list \in SUBSET Descriptors /\ scan.count \in 0..MaxFds /\ scan.paths \in SUBSET Files
      /\ scan.found \in SUBSET Watched /\ scan.count <= Cardinality(scan.list)
      /\ scan \in ScanTypes
  BY <1>1 DEF FixInv, ScanOK, ScanTypes, LookInv
<1>3. /\ IsFiniteSet(scan.list) /\ Cardinality(scan.list) \in 0..MaxFds
      /\ scan.list \in SUBSET Nat
  BY <1>2, Lists
<1>4. scan.list # {}
  <2>1. Cardinality(scan.list) # 0
    BY <1>1, <1>2, <1>3, FixAssumption
  <2>. QED  BY <2>1, FS_EmptySet
<1>5. d \in scan.list
  BY <1>3, <1>4, FirstDescriptor
<1>6. fds[d] \in Files \cup {None}
  BY <1>2, <1>5 DEF FixInv, FilesOK
<1> HIDE DEF d
<1>7. list \in SUBSET Descriptors /\ paths \in SUBSET Files
  BY <1>2, <1>6
<1>8. scan.count - 1 \in 0..MaxFds /\ scan.count - 1 <= Cardinality(list)
  <2>1. Cardinality(scan.list \ {d}) = Cardinality(scan.list) - 1
    BY <1>3, <1>5, FS_RemoveElement
  <2>2. Cardinality(list) \in {Cardinality(scan.list), Cardinality(scan.list) - 1}
    BY <2>1
  <2> HIDE DEF list
  <2>3. scan.count \in Nat /\ Cardinality(scan.list) \in Nat /\ MaxFds \in Nat
    BY <1>2, <1>3, FixAssumption
  <2>. QED  BY <1>1, <1>2, <2>2, <2>3
<1>9. scan' = [pc |-> "look", list |-> list, count |-> scan.count - 1, paths |-> paths,
               found |-> scan.found]
  <2> HIDE DEF list, paths
  <2>. QED  BY <1>1, <1>2 DEF ScanTypes
<1>10. FilesOK'
  BY <1>1 DEF FixInv, FilesOK
<1>11. ScanOK'
  <2>1. scan' \in ScanTypes' /\ LookInv'
    <3> HIDE DEF list, paths
    <3>. QED  BY <1>1, <1>2, <1>7, <1>8, <1>9 DEF ScanTypes, LookInv, Watched
  <2>. QED  BY <1>1, <2>1 DEF FixInv, ScanOK, Watched
<1>12. CoverInv'
  <2> SUFFICES ASSUME state' # "active", ~Coming', NEW f \in locked', f \in Watched'
               PROVE  f \in Handled'
    BY DEF CoverInv
  <2>1. f \in Handled
    BY <1>1 DEF FixInv, CoverInv, Coming, Watched
  <2>2. f \in marked \/ f \in late \/ f \in scan.paths \/ f \in ToLook
    BY <1>1, <2>1 DEF Handled
  <2>3. scan'.pc = "look" /\ scan'.list = list /\ scan'.paths = paths
    BY <1>9
  <2>4. f \in ToLook => f \in paths \/ f \in ToLook'
    <3> SUFFICES ASSUME NEW e \in scan.list, fds[e] = f, f \in Files
                 PROVE  f \in paths \/ f \in ToLook'
      BY DEF ToLook
    <3>1. CASE e \in list
      BY <1>1, <2>3, <3>1 DEF ToLook
    <3>2. CASE e \notin list
      BY <3>2
    <3>. QED  BY <3>1, <3>2
  <2>5. scan.paths \subseteq paths
    OBVIOUS
  <2>. QED  BY <1>1, <2>2, <2>3, <2>4, <2>5 DEF Handled
<1>13. LoopOK' /\ TurnsInv'
  BY <1>1, <1>9, ScanKeepsLoop DEF processVars, loopVars
<1>. QED  BY <1>10, <1>11, <1>12, <1>13 DEF FixInv

LEMMA LookDoneKeeps == ASSUME FixInv, LookDone PROVE FixInv'
<1>1. /\ UNCHANGED <<kind, state, tasks, waiting, due, timer, fds, own, locked, late, marked>>
      /\ scan.pc = "look" /\ scan' = [scan EXCEPT !.pc = "check"]
      /\ missed' = {f \in locked \ scan.paths : \E d \in scan.list : fds[d] = f}
  BY DEF LookDone, processVars, loopVars, fileVars
<1>2. scan \in ScanTypes
  BY DEF FixInv, ScanOK
<1>3. /\ scan'.pc = "check" /\ scan'.list = scan.list /\ scan'.paths = scan.paths
      /\ scan'.found = scan.found /\ scan'.count = scan.count
  BY <1>1, <1>2 DEF ScanTypes
<1>4. FilesOK'
  BY <1>1 DEF FixInv, FilesOK
<1>5. ScanOK'
  BY <1>1, <1>2 DEF FixInv, ScanOK, ScanTypes, LookInv, Watched
<1>6. CoverInv'
  <2> SUFFICES ASSUME state' # "active", ~Coming', NEW f \in locked', f \in Watched'
               PROVE  f \in Handled'
    BY DEF CoverInv
  <2>1. f \in Handled
    BY <1>1 DEF FixInv, CoverInv, Coming, Watched
  <2>2. f \in marked \/ f \in late \/ f \in scan.paths \/ f \in ToLook
    BY <1>1, <2>1 DEF Handled
  <2>3. f \in ToLook => f \in scan.paths \/ f \in missed'
    BY <1>1 DEF ToLook
  <2>. QED  BY <1>1, <1>3, <2>2, <2>3 DEF Handled
<1>7. LoopOK' /\ TurnsInv'
  BY <1>1, <1>3, ScanKeepsLoop DEF processVars, loopVars
<1>. QED  BY <1>4, <1>5, <1>6, <1>7 DEF FixInv

(* A file leaves the list of those to check: it needs no mark or has it, no lock was seen
   on it, it was found or missed. *)
LEMMA CheckKeeps ==
    ASSUME FixInv, NEW f \in Files, NEW found \in SUBSET Watched,
           UNCHANGED <<kind, processVars, loopVars, own, locked, late, marked>>,
           scan.pc = "check",
           scan' = [scan EXCEPT !.paths = scan.paths \ {f}, !.found = found],
           scan.found \subseteq found, missed \subseteq missed', missed' \subseteq locked,
           f \in locked \cap Watched => f \in marked \cup found \cup missed',
           \/ fds' = fds
           \/ fds' = [fds EXCEPT ![Min(Free)] = f] /\ Free # {}
    PROVE  FixInv'
<1>1. UNCHANGED <<state, tasks, waiting, due, timer, own, locked, late, marked>>
  BY DEF processVars, loopVars
<1>2. scan \in ScanTypes
  BY DEF FixInv, ScanOK
<1>3. /\ scan'.pc = "check" /\ scan'.paths = scan.paths \ {f} /\ scan'.found = found
      /\ scan'.list = scan.list /\ scan'.count = scan.count
  BY <1>2 DEF ScanTypes
<1>4. FilesOK'
  <2>1. CASE fds' = fds
    BY <1>1, <2>1 DEF FixInv, FilesOK
  <2>2. CASE fds' = [fds EXCEPT ![Min(Free)] = f] /\ Free # {}
    <3>1. Min(Free) \in Free /\ Free \in SUBSET Descriptors
      BY <2>2, FreeOne
    <3>2. fds[Min(Free)] = None /\ Min(Free) \in Descriptors /\ None \notin Files
      BY <3>1, FixAssumption DEF Free
    <3>3. \A d \in own : d \in Descriptors /\ fds'[d] = fds[d]
      BY <2>2, <3>2 DEF FixInv, FilesOK
    <3>4. fds' \in [Descriptors -> Files \cup {None}]
      BY <2>2, <3>2 DEF FixInv, FilesOK
    <3>. QED  BY <1>1, <3>3, <3>4 DEF FixInv, FilesOK
  <2>. QED  BY <2>1, <2>2
<1>5. ScanOK'
  BY <1>1, <1>2, <1>3 DEF FixInv, ScanOK, ScanTypes, LookInv, Watched
<1>6. CoverInv'
  <2> SUFFICES ASSUME state' # "active", ~Coming', NEW g \in locked', g \in Watched'
               PROVE  g \in Handled'
    BY DEF CoverInv
  <2>1. g \in Handled /\ g \in locked /\ g \in Watched
    BY <1>1 DEF FixInv, CoverInv, Coming, Watched
  <2>2. g \in marked \/ g \in late \/ g \in missed \/ g \in scan.paths \/ g \in scan.found
    BY <2>1 DEF Handled
  <2>. QED  BY <1>1, <1>3, <2>1, <2>2 DEF Handled
<1>7. LoopOK' /\ TurnsInv'
  BY <1>3, ScanKeepsLoop
<1>. QED  BY <1>4, <1>5, <1>6, <1>7 DEF FixInv

LEMMA FoundWatched ==
    ASSUME FixInv, NEW f \in Watched
    PROVE  /\ Found(f) \in SUBSET Watched /\ scan.found \subseteq Found(f)
           /\ f \in locked => f \in Found(f)
BY DEF Found, FixInv, ScanOK, ScanTypes

LEMMA SkipsKeeps == ASSUME FixInv, NEW f \in Files, CheckSkips(f) PROVE FixInv'
<1>1. scan.found \in SUBSET Watched /\ scan \in ScanTypes /\ missed \subseteq locked
  BY DEF FixInv, FilesOK, ScanOK, ScanTypes
<1>2. scan' = [scan EXCEPT !.paths = scan.paths \ {f}, !.found = scan.found]
  BY <1>1 DEF CheckSkips, ScanTypes
<1>3. f \in locked \cap Watched => f \in marked
  BY DEF CheckSkips
<1>4. /\ UNCHANGED <<kind, processVars, loopVars, own, locked, late, marked>>
      /\ scan.pc = "check" /\ missed' = missed /\ fds' = fds
  BY DEF CheckSkips, fileVars
<1>. QED  BY <1>1, <1>2, <1>3, <1>4, CheckKeeps

LEMMA DatabaseKeeps == ASSUME FixInv, NEW f \in Files, CheckDatabase(f) PROVE FixInv'
<1>1. f \in Watched /\ missed \subseteq locked
  BY DEF CheckDatabase, Watched, FixInv, FilesOK
<1>2. /\ UNCHANGED <<kind, processVars, loopVars, own, locked, late, marked>>
      /\ scan.pc = "check" /\ missed' = missed /\ fds' = fds
      /\ scan' = [scan EXCEPT !.paths = scan.paths \ {f}, !.found = Found(f)]
  BY DEF CheckDatabase, fileVars
<1>. QED  BY <1>1, <1>2, FoundWatched, CheckKeeps

LEMMA FileKeeps == ASSUME FixInv, NEW f \in Files, CheckFile(f) PROVE FixInv'
<1>1. f \in Watched /\ missed \subseteq locked /\ scan \in ScanTypes
      /\ scan.found \in SUBSET Watched
  BY DEF CheckFile, Watched, FixInv, FilesOK, ScanOK, ScanTypes
<1>2. /\ UNCHANGED <<kind, processVars, loopVars, own, locked, late, marked>>
      /\ scan.pc = "check"
  BY DEF CheckFile
<1>3. CASE Free = {}
  <2>1. missed' = missed \cup ({f} \cap locked) /\ fds' = fds
        /\ scan' = [scan EXCEPT !.paths = scan.paths \ {f}]
    BY <1>3 DEF CheckFile
  <2>2. scan' = [scan EXCEPT !.paths = scan.paths \ {f}, !.found = scan.found]
    BY <1>1, <2>1 DEF ScanTypes
  <2>. QED  BY <1>1, <1>2, <2>1, <2>2, CheckKeeps
<1>4. CASE Free # {}
  <2>1. /\ fds' = [fds EXCEPT ![Min(Free)] = f] /\ missed' = missed
        /\ scan' = [scan EXCEPT !.paths = scan.paths \ {f}, !.found = Found(f)]
    BY <1>4 DEF CheckFile
  <2>. QED  BY <1>1, <1>2, <1>4, <2>1, FoundWatched, CheckKeeps
<1>. QED  BY <1>3, <1>4

LEMMA DoneKeeps == ASSUME FixInv, ScanDone PROVE FixInv'
<1>1. /\ UNCHANGED <<kind, state, tasks, waiting, due, fds, own, locked, late, missed>>
      /\ scan.pc = "check" /\ scan.paths = {} /\ marked' = marked \cup scan.found
      /\ timer' = (state # "active" \/ timer) /\ scan' = NoScan
  BY DEF ScanDone, processVars, fileVars
<1>2. scan'.pc = "idle"
  BY <1>1 DEF NoScan
<1>3. LoopOK' /\ FilesOK'
  BY <1>1 DEF FixInv, LoopOK, FilesOK
<1>4. ScanOK'
  <2>1. scan' \in ScanTypes'
    BY <1>1, FixAssumption DEF NoScan, ScanTypes
  <2>. QED  BY <1>1, <1>2, <2>1 DEF FixInv, ScanOK, ScanTypes, LookInv, Watched
<1>5. TurnsInv'
  <2>1. One(scan.pc # "idle") = 1 /\ One(scan'.pc # "idle") = 0
    BY <1>1, <1>2 DEF One
  <2>2. PICK t \in {0, 1} : One(timer) = t
    BY DEF One
  <2>3. PICK u \in {0, 1} : One(timer') = u
    BY DEF One
  <2>4. waiting \in Nat /\ due \in Nat /\ MaxCallbacks \in Nat
    BY FixAssumption DEF FixInv, LoopOK
  <2>5. waiting + due + t + 1 <= MaxCallbacks + 1
    BY <2>1, <2>2 DEF FixInv, TurnsInv
  <2>6. waiting' = waiting /\ due' = due
    BY <1>1
  <2>7. waiting' + due' + u <= MaxCallbacks + 1
    BY <2>4, <2>5, <2>6
  <2>8. waiting' + due' + One(timer') + One(scan'.pc # "idle") <= MaxCallbacks + 1
    BY <2>1, <2>3, <2>4, <2>6, <2>7
  <2>9. state # "suspended"
    BY <1>1 DEF FixInv, TurnsInv
  <2>. QED  BY <1>1, <2>8, <2>9 DEF FixInv, TurnsInv
<1>6. CoverInv'
  BY <1>1, <1>2 DEF FixInv, CoverInv, Coming, Handled, Watched
<1>. QED  BY <1>3, <1>4, <1>5, <1>6 DEF FixInv

-----------------------------------------------------------------------------
LEMMA FixStep == FixInv /\ [Next]_fixVars => FixInv'
<1> SUFFICES ASSUME FixInv, [Next]_fixVars PROVE FixInv'
  OBVIOUS
<1>1. ASSUME NEW f \in Files, Open(f) \/ Unlock(f) PROVE FixInv'
  BY <1>1, OpenKeeps, UnlockKeeps
<1>2. ASSUME NEW d \in Descriptors, Close(d) \/ Lock(d) PROVE FixInv'
  BY <1>2, CloseKeeps, LockKeeps
<1>3. CASE TaskStarts \/ TaskEnds
  BY <1>3, TaskStartsKeeps, TaskEndsKeeps
<1>4. CASE EnterBackground \/ BecomeActive \/ Suspend
  BY <1>4, EnterKeeps, ActiveKeeps, SuspendKeeps
<1>5. CASE TimerFires \/ ListFds
  BY <1>5, TimerKeeps, ListKeeps
<1>6. CASE Scan
  BY <1>6, LookKeeps, LookDoneKeeps, SkipsKeeps, DatabaseKeeps, FileKeeps, DoneKeeps DEF Scan
<1>7. CASE UNCHANGED fixVars
  BY <1>7 DEF fixVars, FixInv, LoopOK, FilesOK, ScanOK, ScanTypes, LookInv, TurnsInv, CoverInv,
              Coming, Handled, ToLook, Watched
<1>. QED  BY <1>1, <1>2, <1>3, <1>4, <1>5, <1>6, <1>7 DEF Next

LEMMA FixAlways == Spec => []FixInv
BY FixInit, FixStep, PTL DEF Spec

(* The workaround's counters stay in their bounds, a locked file is open in the guest, and
   what a scan keeps are descriptors, paths and marks of the right kind of file. *)
THEOREM SuspendTypeCorrect == Spec => []SuspendTypeOK
BY FixAlways, FixTypes, PTL

(* Dead10ccFix.m's purpose: however listings, timers, background tasks and the guest's own
   opens, locks and closes interleave, a suspended process holds no unmarked lock but those
   taken after the last listing and those that scan could not look at. *)
THEOREM SuspendedIsMarked == Spec => []SuspendedMarked
<1>1. FixInv => SuspendedMarked
  BY DEF FixInv, TurnsInv, CoverInv, Coming, Handled, SuspendedMarked, LoopOK
<1>. QED  BY <1>1, FixAlways, PTL
=============================================================================
