----------------------------- MODULE AppRunProofs -----------------------------
(***************************************************************************)
(* What AppRun keeps for every set of apps and tasks and any number of      *)
(* windows.                                                                 *)
(***************************************************************************)
EXTENDS AppSigningProofs, SequenceTheorems

(***************************************************************************)
(* Types.                                                                   *)
(***************************************************************************)
WindowRecord ==
    [app : Apps \cup {None}, container : Apps \cup {None}, opener : Tasks \cup {None},
     guest : {"none", "starting", "failed", "started", "running", "dead"},
     view : {"none", "shown", "page", "removed"},
     cleaned : BOOLEAN, closing : BOOLEAN,
     orphaned : BOOLEAN, company : {"none", "later", "earlier"}]

CallRecord ==
    [pc : {"idle", "bring", "lock", "alert", "enter", "signing", "container",
           "launch", "await", "finish", "resign", "install"},
     app : Apps \cup {None}, multitask : BOOLEAN,
     key : (Apps \X Apps) \cup {None},
     taken : [selected : Apps \cup {None}, container : Apps \cup {None}]]

CallTypeOK ==
    /\ isAppRunning \in [Apps -> BOOLEAN]
    /\ call \in [Tasks -> CallRecord]
    /\ reset \in [Tasks -> Apps \cup {None}]
    /\ box \in [selected : Apps \cup {None}, container : Apps \cup {None}]
    /\ raced \subseteq Apps /\ mixed \in BOOLEAN
    /\ events \in Scenarios

LEMMA TypeParts == RunTypeOK <=> Signing!SigningTypeOK /\ Multitask!WindowsTypeOK /\ CallTypeOK
  BY DEF RunTypeOK, CallTypeOK, CallRecord

LEMMA NoRunOK == NoRun \in CallRecord /\ NoRun.pc = "idle" /\ NoRun.app = None
                 /\ EmptyBox \in [selected : Apps \cup {None}, container : Apps \cup {None}]
  BY DEF NoRun, EmptyBox, CallRecord

LEMMA NoWindowOK == Multitask!NoWindow \in WindowRecord
  BY DEF Multitask!NoWindow, WindowRecord

(***************************************************************************)
(* The main queue.                                                          *)
(***************************************************************************)
LEMMA BlocksTyped ==
  /\ \A t \in Tasks : Multitask!Block("bring", t) \in Multitask!Blocks
                      /\ Multitask!Block("create", t) \in Multitask!Blocks
  /\ \A w \in Multitask!Windows, do \in {"dockAdd", "initialized", "failed", "cleanUp"} :
       Multitask!Block(do, w) \in Multitask!Blocks
  /\ \A a \in Apps : Multitask!Block("dockRemove", a) \in Multitask!Blocks
  BY DEF Multitask!Block, Multitask!Blocks

LEMMA QueueTyped ==
  ASSUME NEW q \in Seq(Multitask!Blocks), NEW b \in Multitask!Blocks
  PROVE  /\ q \o <<b>> \in Seq(Multitask!Blocks) /\ Append(q, b) \in Seq(Multitask!Blocks)
         /\ q \o <<>> = q /\ q \o <<b>> = Append(q, b)
         /\ q # <<>> => Tail(q) \in Seq(Multitask!Blocks) /\ Head(q) \in Multitask!Blocks
  OBVIOUS

In(q, b) == \E i \in DOMAIN q : q[i] = b
Once(q, b) == \A i, j \in DOMAIN q : q[i] = b /\ q[j] = b => i = j

\* Blocks are dispatched to the end, one of them is perhaps taken from the head.
Dispatched(blocks) ==
    \/ main' = main /\ blocks = <<>>
    \/ Multitask!Dispatch(blocks)
    \/ main # <<>> /\ Multitask!DispatchFromHead(blocks)

\* Nothing comes into the queue but what was dispatched, and nothing comes twice.
OnlyAdds(q, r, blocks) ==
    /\ r \in Seq(Multitask!Blocks)
    /\ \A b \in Multitask!Blocks : In(r, b) => In(q, b) \/ In(blocks, b)
    /\ \A b \in Multitask!Blocks : Once(q, b) /\ ~In(blocks, b) => Once(r, b)

LEMMA DispatchedFacts ==
  ASSUME main \in Seq(Multitask!Blocks), NEW blocks \in Seq(Multitask!Blocks), Dispatched(blocks)
  PROVE  OnlyAdds(main, main', blocks)
<1>1. CASE main' = main
  BY <1>1 DEF In, OnlyAdds
<1>2. ASSUME NEW q \in Seq(Multitask!Blocks), main' = q \o blocks,
             \A b \in Multitask!Blocks : In(q, b) => In(main, b),
             \A b \in Multitask!Blocks : Once(main, b) => Once(q, b)
      PROVE  OnlyAdds(main, main', blocks)
  <2>1. main' \in Seq(Multitask!Blocks) /\ DOMAIN main' = 1..(Len(q) + Len(blocks))
        /\ DOMAIN q = 1..Len(q) /\ DOMAIN blocks = 1..Len(blocks)
        /\ Len(q) \in Nat /\ Len(blocks) \in Nat
    BY <1>2
  <2>2. ASSUME NEW i \in DOMAIN main'
        PROVE  \/ i \in DOMAIN q /\ main'[i] = q[i]
               \/ i - Len(q) \in DOMAIN blocks /\ main'[i] = blocks[i - Len(q)]
    BY <1>2, <2>1
  <2>3. \A b \in Multitask!Blocks : In(main', b) => In(main, b) \/ In(blocks, b)
    BY <1>2, <2>1, <2>2 DEF In
  <2>4. ASSUME NEW b \in Multitask!Blocks, Once(main, b), ~In(blocks, b)
        PROVE  Once(main', b)
    <3>1. \A i \in DOMAIN main' : main'[i] = b => i \in DOMAIN q /\ q[i] = b
      BY <2>2, <2>4 DEF In
    <3> QED BY <1>2, <2>4, <3>1 DEF Once
  <2> QED BY <2>1, <2>3, <2>4 DEF OnlyAdds
<1>3. CASE Multitask!Dispatch(blocks)
  BY <1>2, <1>3 DEF Multitask!Dispatch
<1>4. CASE main # <<>> /\ Multitask!DispatchFromHead(blocks)
  <2>1. Tail(main) \in Seq(Multitask!Blocks)
    BY <1>4
  <2>2. \A i \in DOMAIN Tail(main) : i \in Nat /\ i + 1 \in DOMAIN main /\ Tail(main)[i] = main[i + 1]
    BY <1>4
  <2>3. \A b \in Multitask!Blocks : In(Tail(main), b) => In(main, b)
    BY <2>2 DEF In
  <2>4. \A b \in Multitask!Blocks : Once(main, b) => Once(Tail(main), b)
    <3> SUFFICES ASSUME NEW b \in Multitask!Blocks, Once(main, b),
                        NEW i \in DOMAIN Tail(main), NEW j \in DOMAIN Tail(main),
                        Tail(main)[i] = b, Tail(main)[j] = b
                 PROVE  i = j
      BY DEF Once
    <3>1. i + 1 = j + 1
      BY <2>2 DEF Once
    <3> QED BY <2>2, <3>1
  <2> QED BY <1>2, <1>4, <2>1, <2>3, <2>4 DEF Multitask!DispatchFromHead
<1> QED BY <1>1, <1>3, <1>4 DEF Dispatched

LEMMA OnceAppend ==
  ASSUME NEW q \in Seq(Multitask!Blocks), NEW b \in Multitask!Blocks, ~In(q, b)
  PROVE  Once(Append(q, b), b)
<1>1. \A i \in 1..Len(q) : Append(q, b)[i] = q[i]
  OBVIOUS
<1>2. DOMAIN q = 1..Len(q) /\ DOMAIN Append(q, b) = 1..(Len(q) + 1) /\ Len(q) \in Nat
  OBVIOUS
<1> QED BY <1>1, <1>2 DEF In, Once

\* What is in the queue once and taken from its head is in it no more.
LEMMA HeadGone ==
  ASSUME NEW q \in Seq(Multitask!Blocks), q # <<>>, Once(q, Head(q))
  PROVE  ~In(Tail(q), Head(q))
<1>1. \A i \in DOMAIN Tail(q) : i \in Nat \ {0} /\ i + 1 \in DOMAIN q /\ Tail(q)[i] = q[i + 1]
  OBVIOUS
<1>2. 1 \in DOMAIN q /\ Head(q) = q[1]
  OBVIOUS
<1> QED BY <1>1, <1>2 DEF In, Once

LEMMA FewBlocks ==
  ASSUME NEW b \in Multitask!Blocks
  PROVE  /\ <<>> \in Seq(Multitask!Blocks) /\ <<b>> \in Seq(Multitask!Blocks)
         /\ \A c : ~In(<<>>, c)
         /\ \A c : In(<<b>>, c) => c = b
  BY DEF In

(***************************************************************************)
(* The inductive invariant: a block that waits for its turn finds a window  *)
(* that still exists, and cleans up only after a guest that is no more.     *)
(***************************************************************************)
InMain(b) == In(main, b)

BlockInv(b) ==
    /\ b.do \in {"dockAdd", "initialized", "failed", "cleanUp"} => win[b.on].view # "none"
    /\ b.do = "failed" => win[b.on].guest = "failed"
    /\ b.do = "cleanUp" => win[b.on].guest \in {"failed", "dead"}

WindowInv(w) ==
    /\ win[w].view = "none" => win[w].guest = "none"
    /\ win[w].view # "none" => win[w].opener \in Tasks
    /\ win[w].guest = "starting" \/ Multitask!Alive(w) => win[w].view = "shown" \/ win[w].orphaned

BlocksInv == \A b \in Multitask!Blocks : InMain(b) => BlockInv(b)
WindowsInv == \A w \in Multitask!Windows : WindowInv(w)
CallsInv == \A t \in Tasks : call[t].pc # "idle" <=> call[t].app \in Apps


\* Who looks for its window is served once.
BringsInv ==
    \A t \in Tasks :
        InMain(Multitask!Block("bring", t)) =>
            call[t].pc = "bring" /\ Once(main, Multitask!Block("bring", t))

RunInv == RunTypeOK /\ CallsInv /\ BlocksInv /\ WindowsInv /\ BringsInv

(***************************************************************************)
(* What the actions of MultitaskWindows do to the window they are about,    *)
(* and that they keep the types.                                            *)
(***************************************************************************)
WindowTypes ==
    /\ win \in [Multitask!Windows -> WindowRecord]
    /\ \A w \in Multitask!Windows : win[w].view # "none" => {win[w].app, win[w].container} \subseteq Apps

QueueTypes ==
    /\ main \in Seq(Multitask!Blocks) /\ dock \subseteq Multitask!Windows
    /\ registered \subseteq Apps /\ relaunch \subseteq Apps \X Apps
    /\ onExit \in {"page", "skip", "restart"}

LEMMA WindowTypeParts == Multitask!WindowsTypeOK <=> WindowTypes /\ QueueTypes
  BY DEF Multitask!WindowsTypeOK, WindowTypes, QueueTypes, WindowRecord

\* Only w changes, and not in what it is.
Changes(w) ==
    /\ \A v \in Multitask!Windows \ {w} : win'[v] = win[v]
    /\ win'[w].app = win[w].app /\ win'[w].container = win[w].container
    /\ win'[w].opener = win[w].opener /\ win'[w].company = win[w].company

Touches(w, guest, view, closing, orphaned) ==
    /\ Changes(w)
    /\ win'[w].guest = guest /\ win'[w].view = view
    /\ win'[w].closing = closing /\ win'[w].orphaned = orphaned

LEMMA GuestChanges ==
  ASSUME WindowTypes, NEW w \in Multitask!Windows,
         NEW g \in {"none", "starting", "failed", "started", "running", "dead"},
         win' = [win EXCEPT ![w].guest = g]
  PROVE  WindowTypes' /\ Touches(w, g, win[w].view, win[w].closing, win[w].orphaned)
  BY DEF WindowTypes, WindowRecord, Touches, Changes

LEMMA CleanedChanges ==
  ASSUME WindowTypes, NEW w \in Multitask!Windows, win' = [win EXCEPT ![w].cleaned = TRUE]
  PROVE  WindowTypes' /\ Touches(w, win[w].guest, win[w].view, win[w].closing, win[w].orphaned)
  BY DEF WindowTypes, WindowRecord, Touches, Changes

LEMMA ViewChanges ==
  ASSUME WindowTypes, NEW w \in Multitask!Windows, win[w].view # "none",
         NEW v \in {"removed", "page"}, win' = [win EXCEPT ![w].view = v]
  PROVE  WindowTypes' /\ Touches(w, win[w].guest, v, win[w].closing, win[w].orphaned)
  BY DEF WindowTypes, WindowRecord, Touches, Changes

LEMMA ClosingChanges ==
  ASSUME WindowTypes, NEW w \in Multitask!Windows, win' = [win EXCEPT ![w].closing = TRUE]
  PROVE  WindowTypes' /\ Touches(w, win[w].guest, win[w].view, TRUE, win[w].orphaned)
  BY DEF WindowTypes, WindowRecord, Touches, Changes

LEMMA RemovalChanges ==
  ASSUME WindowTypes, NEW w \in Multitask!Windows, win[w].view # "none", NEW o \in BOOLEAN,
         win' = [win EXCEPT ![w].closing = TRUE, ![w].view = "removed", ![w].orphaned = o]
  PROVE  WindowTypes' /\ Touches(w, win[w].guest, "removed", TRUE, o)
<1> DEFINE closed == [win[w] EXCEPT !.closing = TRUE]
           gone == [closed EXCEPT !.view = "removed"]
           new == [gone EXCEPT !.orphaned = o]
<1>1. /\ closed \in WindowRecord /\ closed.closing = TRUE /\ closed.guest = win[w].guest
      /\ closed.app = win[w].app /\ closed.container = win[w].container
      /\ closed.opener = win[w].opener /\ closed.company = win[w].company
  BY DEF WindowTypes, WindowRecord
<1>2. /\ gone \in WindowRecord /\ gone.view = "removed" /\ gone.closing = TRUE
      /\ gone.guest = win[w].guest /\ gone.app = win[w].app /\ gone.container = win[w].container
      /\ gone.opener = win[w].opener /\ gone.company = win[w].company
  BY <1>1 DEF WindowRecord
<1>3. /\ new \in WindowRecord /\ new.view = "removed" /\ new.closing = TRUE /\ new.orphaned = o
      /\ new.guest = win[w].guest /\ new.app = win[w].app /\ new.container = win[w].container
      /\ new.opener = win[w].opener /\ new.company = win[w].company
  BY <1>2 DEF WindowRecord
<1>4. win' = [win EXCEPT ![w] = new]
  BY DEF WindowTypes
<1> HIDE DEF new
<1>5. win'[w] = new /\ win' \in [Multitask!Windows -> WindowRecord]
      /\ \A v \in Multitask!Windows \ {w} : win'[v] = win[v]
  BY <1>3, <1>4 DEF WindowTypes
<1> QED BY <1>3, <1>5 DEF WindowTypes, Touches, Changes

\* A window is made for a call, and says so if it is not the first of its container.
Creates(t, w, a, c) ==
    /\ win'[w].app = a /\ win'[w].container = c /\ win'[w].opener = t
    /\ win'[w].guest = "starting" /\ win'[w].view = "shown"
    /\ win'[w].company = IF \E v \in Multitask!Windows : win[v].container = c
                         THEN "earlier" ELSE "none"
    /\ \A v \in Multitask!Windows \ {w} :
         /\ win'[v].app = win[v].app /\ win'[v].container = win[v].container
         /\ win'[v].opener = win[v].opener /\ win'[v].guest = win[v].guest
         /\ win'[v].view = win[v].view /\ win'[v].closing = win[v].closing
         /\ win'[v].orphaned = win[v].orphaned
         /\ win'[v].company = IF win[v].container = c /\ win[v].company = "none"
                              THEN "later" ELSE win[v].company

LEMMA CreateChanges ==
  ASSUME WindowTypes, NEW t \in Tasks, NEW w \in Multitask!Windows, NEW a \in Apps, NEW c \in Apps,
         Multitask!CreateWindow(t, w, a, c)
  PROVE  WindowTypes' /\ Creates(t, w, a, c)
<1> DEFINE others == {v \in Multitask!Windows : win[v].container = c}
           company == IF others = {} THEN "none" ELSE "earlier"
           new == [Multitask!NoWindow EXCEPT !.app = a, !.container = c, !.opener = t,
                                             !.guest = "starting", !.view = "shown",
                                             !.company = company]
<1>1. /\ new \in WindowRecord
      /\ new.app = a /\ new.container = c /\ new.opener = t
      /\ new.guest = "starting" /\ new.view = "shown" /\ new.company = company
  BY DEF Multitask!NoWindow, WindowRecord
<1>2. win' = [v \in Multitask!Windows |->
                IF v = w THEN new
                ELSE IF v \in others /\ win[v].company = "none"
                     THEN [win[v] EXCEPT !.company = "later"] ELSE win[v]]
  BY DEF Multitask!CreateWindow
<1> HIDE DEF new
<1>3. win'[w] = new
  BY <1>2
<1>4. ASSUME NEW v \in Multitask!Windows \ {w}
      PROVE  /\ win'[v] \in WindowRecord
             /\ win'[v].app = win[v].app /\ win'[v].container = win[v].container
             /\ win'[v].opener = win[v].opener /\ win'[v].guest = win[v].guest
             /\ win'[v].view = win[v].view /\ win'[v].closing = win[v].closing
             /\ win'[v].orphaned = win[v].orphaned
             /\ win'[v].company = IF win[v].container = c /\ win[v].company = "none"
                                  THEN "later" ELSE win[v].company
  <2>1. CASE v \in others /\ win[v].company = "none"
    <3>1. win'[v] = [win[v] EXCEPT !.company = "later"] /\ win[v] \in WindowRecord
      BY <1>2, <2>1 DEF WindowTypes
    <3> QED BY <2>1, <3>1 DEF WindowRecord
  <2>2. CASE ~(v \in others /\ win[v].company = "none")
    BY <1>2, <2>2 DEF WindowTypes
  <2> QED BY <2>1, <2>2
<1>5. win' \in [Multitask!Windows -> WindowRecord]
  BY <1>1, <1>2, <1>3, <1>4
<1>6. Creates(t, w, a, c)
  BY <1>1, <1>3, <1>4 DEF Creates
<1> QED BY <1>5, <1>6 DEF WindowTypes, Creates

LEMMA ReleaseChanges ==
  ASSUME WindowTypes, NEW w \in Multitask!Windows, win' = [win EXCEPT ![w] = Multitask!NoWindow]
  PROVE  /\ WindowTypes' /\ win'[w] = Multitask!NoWindow
         /\ \A v \in Multitask!Windows \ {w} : win'[v] = win[v]
<1>1. Multitask!NoWindow.view = "none"
  BY DEF Multitask!NoWindow
<1> QED BY <1>1, NoWindowOK DEF WindowTypes

(***************************************************************************)
(* The steps of one window.                                                 *)
(***************************************************************************)
\* The window goes on, and what blocks may rely on stays.
Advances(w) ==
    /\ Changes(w)
    /\ win[w].view # "none" => win'[w].view # "none"
    /\ win[w].guest = "failed" => win'[w].guest = "failed"
    /\ win[w].guest = "dead" => win'[w].guest = "dead"

LEMMA BlockAdvances ==
  ASSUME NEW w \in Multitask!Windows, Advances(w), NEW b \in Multitask!Blocks, BlockInv(b)
  PROVE  BlockInv(b)'
<1>1. CASE b.do \in {"dockAdd", "initialized", "failed", "cleanUp"}
  <2>1. b.on \in Multitask!Windows
    BY <1>1 DEF Multitask!Blocks
  <2>2. CASE b.on = w
    BY <1>1, <2>2 DEF BlockInv, Advances
  <2>3. CASE b.on # w
    <3>1. win'[b.on] = win[b.on]
      BY <2>1, <2>3 DEF Advances, Changes
    <3> QED BY <3>1 DEF BlockInv
  <2> QED BY <2>2, <2>3
<1>2. CASE b.do \notin {"dockAdd", "initialized", "failed", "cleanUp"}
  BY <1>2 DEF BlockInv
<1> QED BY <1>1, <1>2

NoBring(blocks) == \A t \in Tasks : ~In(blocks, Multitask!Block("bring", t))

LEMMA OtherBlocks ==
  /\ NoBring(<<>>)
  /\ \A b \in Multitask!Blocks : b.do # "bring" => NoBring(<<b>>)
  BY FewBlocks DEF NoBring, In, Multitask!Block

\* A step of w that dispatches these blocks.
WindowMoves(w, blocks) ==
    /\ WindowTypes' /\ Advances(w) /\ WindowInv(w)'
    /\ blocks \in Seq(Multitask!Blocks) /\ Dispatched(blocks)
    /\ \A b \in Multitask!Blocks : In(blocks, b) => BlockInv(b)'
    /\ NoBring(blocks)
    /\ dock' \subseteq Multitask!Windows /\ registered' \subseteq Apps
    /\ relaunch' \subseteq Apps \X Apps /\ UNCHANGED onExit

LEMMA WindowMovesKeep ==
  ASSUME RunInv, NEW w \in Multitask!Windows, NEW blocks, WindowMoves(w, blocks)
  PROVE  Multitask!WindowsTypeOK' /\ BlocksInv' /\ WindowsInv'
<1>1. QueueTypes /\ WindowTypes
  BY TypeParts, WindowTypeParts DEF RunInv
<1>2. /\ main' \in Seq(Multitask!Blocks)
      /\ \A b \in Multitask!Blocks : InMain(b)' => InMain(b) \/ In(blocks, b)
  BY <1>1, DispatchedFacts DEF OnlyAdds, WindowMoves, QueueTypes, InMain
<1>3. Multitask!WindowsTypeOK'
  BY <1>1, <1>2, WindowTypeParts DEF WindowMoves, QueueTypes, Multitask!WindowsTypeOK, WindowTypes, WindowRecord
<1>4. BlocksInv'
  <2> SUFFICES ASSUME NEW b \in Multitask!Blocks, InMain(b)'
               PROVE  BlockInv(b)'
    BY DEF BlocksInv
  <2> QED BY <1>2, BlockAdvances DEF RunInv, BlocksInv, WindowMoves
<1>5. WindowsInv'
  <2> SUFFICES ASSUME NEW v \in Multitask!Windows, v # w
               PROVE  WindowInv(v)'
    BY DEF WindowsInv, WindowMoves
  <2>1. win'[v] = win[v] /\ WindowInv(v)
    BY DEF WindowMoves, Advances, Changes, RunInv, WindowsInv
  <2> QED BY <2>1 DEF WindowInv, Multitask!Alive
<1> QED BY <1>3, <1>4, <1>5

\* A step that leaves the windows as they are.
QueueMoves(blocks) ==
    /\ UNCHANGED <<win, onExit>>
    /\ blocks \in Seq(Multitask!Blocks) /\ Dispatched(blocks)
    /\ \A b \in Multitask!Blocks : In(blocks, b) => BlockInv(b)
    /\ dock' \subseteq Multitask!Windows /\ registered' \subseteq Apps
    /\ relaunch' \subseteq Apps \X Apps

LEMMA QueueMovesKeep ==
  ASSUME RunInv, NEW blocks, QueueMoves(blocks)
  PROVE  Multitask!WindowsTypeOK' /\ BlocksInv' /\ WindowsInv'
<1>1. QueueTypes /\ WindowTypes
  BY TypeParts, WindowTypeParts DEF RunInv
<1>2. /\ main' \in Seq(Multitask!Blocks)
      /\ \A b \in Multitask!Blocks : InMain(b)' => InMain(b) \/ In(blocks, b)
  BY <1>1, DispatchedFacts DEF OnlyAdds, QueueMoves, QueueTypes, InMain
<1>3. Multitask!WindowsTypeOK'
  BY <1>1, <1>2 DEF QueueMoves, QueueTypes, Multitask!WindowsTypeOK, WindowTypes, WindowRecord
<1>4. BlocksInv'
  BY <1>2 DEF RunInv, BlocksInv, BlockInv, QueueMoves
<1>5. WindowsInv'
  BY DEF RunInv, WindowsInv, WindowInv, Multitask!Alive, QueueMoves
<1> QED BY <1>3, <1>4, <1>5

LEMMA HeadInv ==
  ASSUME RunInv, NEW b \in Multitask!Blocks, main # <<>>, Head(main) = b
  PROVE  BlockInv(b)
<1>1. main \in Seq(Multitask!Blocks)
  BY TypeParts, WindowTypeParts DEF RunInv, QueueTypes
<1>2. 1 \in DOMAIN main /\ main[1] = b
  BY <1>1
<1> QED BY <1>2 DEF RunInv, BlocksInv, InMain, In

LEMMA DockSteps ==
  ASSUME RunInv,
         \/ \E w \in Multitask!Windows : Multitask!DockAdd(w) \/ Multitask!Initialized(w)
         \/ \E a \in Apps : Multitask!DockRemove(a)
  PROVE  QueueMoves(<<>>)
<1>1. QueueTypes
  BY TypeParts, WindowTypeParts DEF RunInv
<1>2. <<>> \in Seq(Multitask!Blocks) /\ \A b : ~In(<<>>, b)
  BY DEF In
<1>3. main # <<>> /\ Multitask!DispatchFromHead(<<>>)
  BY DEF Multitask!DockAdd, Multitask!DockRemove, Multitask!Initialized, Multitask!IsHead
<1>4. Dispatched(<<>>)
  BY <1>3 DEF Dispatched
<1> QED BY <1>1, <1>2, <1>4
        DEF QueueMoves, QueueTypes, Multitask!DockAdd, Multitask!DockRemove, Multitask!Initialized

LEMMA GuestSteps ==
  ASSUME RunInv, NEW w \in Multitask!Windows,
         \/ Multitask!GuestStarts(w) \/ Multitask!GuestFails(w) \/ Multitask!GuestRuns(w)
         \/ Multitask!GuestDies(w) \/ Multitask!Interrupted(w)
  PROVE  \E blocks : WindowMoves(w, blocks)
<1>1. QueueTypes /\ WindowTypes /\ WindowInv(w)
  BY TypeParts, WindowTypeParts DEF RunInv, WindowsInv
<1> DEFINE Block(do) == Multitask!Block(do, w)
<1>2. \A do \in {"initialized", "failed", "cleanUp"} :
        Block(do) \in Multitask!Blocks /\ Block(do).do = do /\ Block(do).on = w
  BY BlocksTyped DEF Multitask!Block
<1> HIDE DEF Block
<1>3. CASE Multitask!GuestStarts(w)
  <2>1. win[w].guest = "starting" /\ win' = [win EXCEPT ![w].guest = "started"]
    BY <1>3 DEF Multitask!GuestStarts
  <2>2. WindowTypes' /\ Touches(w, "started", win[w].view, win[w].closing, win[w].orphaned)
    BY <1>1, <2>1, GuestChanges
  <2>3. Advances(w) /\ WindowInv(w)'
    BY <1>1, <2>1, <2>2 DEF Touches, Changes, Advances, WindowInv, Multitask!Alive
  <2>4. Multitask!Dispatch(<<Block("initialized")>>) /\ UNCHANGED <<dock, relaunch, onExit>>
        /\ registered' = registered \cup {win[w].container}
    BY <1>3 DEF Multitask!GuestStarts, Block
  <2>5. win[w].container \in Apps
    BY <1>1, <2>1 DEF WindowInv, WindowTypes
  <2>6. BlockInv(Block("initialized"))'
    BY <1>1, <1>2, <2>1, <2>2 DEF BlockInv, Touches, WindowInv
  <2>7. WindowMoves(w, <<Block("initialized")>>)
    BY <1>1, <1>2, <2>2, <2>3, <2>4, <2>5, <2>6, FewBlocks, OtherBlocks DEF WindowMoves, Dispatched, QueueTypes
  <2> QED BY <2>7
<1>4. CASE Multitask!GuestFails(w)
  <2>1. win[w].guest = "starting" /\ win' = [win EXCEPT ![w].guest = "failed"]
    BY <1>4 DEF Multitask!GuestFails
  <2>2. WindowTypes' /\ Touches(w, "failed", win[w].view, win[w].closing, win[w].orphaned)
    BY <1>1, <2>1, GuestChanges
  <2>3. Advances(w) /\ WindowInv(w)'
    BY <1>1, <2>1, <2>2 DEF Touches, Changes, Advances, WindowInv, Multitask!Alive
  <2>4. Multitask!Dispatch(<<Block("failed")>>) /\ UNCHANGED <<dock, registered, relaunch, onExit>>
    BY <1>4 DEF Multitask!GuestFails, Block
  <2>6. BlockInv(Block("failed"))'
    BY <1>1, <1>2, <2>1, <2>2 DEF BlockInv, Touches, WindowInv
  <2>7. WindowMoves(w, <<Block("failed")>>)
    BY <1>1, <1>2, <2>2, <2>3, <2>4, <2>6, FewBlocks, OtherBlocks DEF WindowMoves, Dispatched, QueueTypes
  <2> QED BY <2>7
<1>5. ASSUME NEW g \in {"running", "dead"}, Multitask!Alive(w), win' = [win EXCEPT ![w].guest = g],
             UNCHANGED <<main, dock, registered, relaunch, onExit>>
      PROVE  WindowMoves(w, <<>>)
  <2>2. WindowTypes' /\ Touches(w, g, win[w].view, win[w].closing, win[w].orphaned)
    BY <1>1, <1>5, GuestChanges
  <2>3. Advances(w) /\ WindowInv(w)'
    BY <1>1, <1>5, <2>2 DEF Touches, Changes, Advances, WindowInv, Multitask!Alive
  <2>4. <<>> \in Seq(Multitask!Blocks) /\ \A b : ~In(<<>>, b)
    BY DEF In
  <2> QED BY <1>1, <1>5, <2>2, <2>3, <2>4, OtherBlocks DEF WindowMoves, Dispatched, QueueTypes
<1>6. CASE Multitask!GuestRuns(w)
  BY <1>5, <1>6 DEF Multitask!GuestRuns, Multitask!Alive
<1>7. CASE Multitask!GuestDies(w)
  BY <1>5, <1>7 DEF Multitask!GuestDies
<1>8. CASE Multitask!Interrupted(w)
  <2>1. win[w].guest = "dead" /\ win' = [win EXCEPT ![w].cleaned = TRUE]
    BY <1>8 DEF Multitask!Interrupted
  <2>2. WindowTypes' /\ Touches(w, win[w].guest, win[w].view, win[w].closing, win[w].orphaned)
    BY <1>1, <2>1, CleanedChanges
  <2>3. Advances(w) /\ WindowInv(w)'
    BY <1>1, <2>1, <2>2 DEF Touches, Changes, Advances, WindowInv, Multitask!Alive
  <2>4. Multitask!Dispatch(<<Block("cleanUp")>>) /\ UNCHANGED <<dock, registered, relaunch, onExit>>
    BY <1>8 DEF Multitask!Interrupted, Block
  <2>6. BlockInv(Block("cleanUp"))'
    BY <1>1, <1>2, <2>1, <2>2 DEF BlockInv, Touches, WindowInv
  <2>7. WindowMoves(w, <<Block("cleanUp")>>)
    BY <1>1, <1>2, <2>2, <2>3, <2>4, <2>6, FewBlocks, OtherBlocks DEF WindowMoves, Dispatched, QueueTypes
  <2> QED BY <2>7
<1> QED BY <1>3, <1>4, <1>6, <1>7, <1>8

LEMMA ClosingSteps ==
  ASSUME RunInv, NEW w \in Multitask!Windows,
         Multitask!Failed(w) \/ Multitask!CleanUp(w) \/ Multitask!CloseWindow(w)
  PROVE  \E blocks : WindowMoves(w, blocks)
<1>1. QueueTypes /\ WindowTypes /\ WindowInv(w)
  BY TypeParts, WindowTypeParts DEF RunInv, WindowsInv
<1> DEFINE CleanUpBlock == Multitask!Block("cleanUp", w)
<1> PICK RemoveBlock : RemoveBlock = Multitask!Block("dockRemove", win[w].container)
  OBVIOUS
<1>2. /\ CleanUpBlock \in Multitask!Blocks /\ CleanUpBlock.do = "cleanUp" /\ CleanUpBlock.on = w
      /\ RemoveBlock.do = "dockRemove" /\ (win[w].view # "none" => RemoveBlock \in Multitask!Blocks)
  BY <1>1, BlocksTyped DEF Multitask!Block, WindowTypes
<1>3. <<>> \in Seq(Multitask!Blocks) /\ \A b : ~In(<<>>, b)
  BY DEF In
<1>4. CASE Multitask!Failed(w)
  <2>1. /\ win' = [win EXCEPT ![w].cleaned = TRUE] /\ main # <<>>
        /\ Head(main) = Multitask!Block("failed", w)
        /\ UNCHANGED <<dock, registered, relaunch, onExit>>
        /\ Multitask!DispatchFromHead(IF win[w].cleaned THEN <<>> ELSE <<CleanUpBlock>>)
    BY <1>4 DEF Multitask!Failed, Multitask!IsHead
  <2>2. win[w].guest = "failed" /\ win[w].view # "none"
    BY <2>1, BlocksTyped, HeadInv DEF BlockInv, Multitask!Block
  <2>3. WindowTypes' /\ Touches(w, win[w].guest, win[w].view, win[w].closing, win[w].orphaned)
    BY <1>1, <2>1, CleanedChanges
  <2>4. Advances(w) /\ WindowInv(w)'
    BY <1>1, <2>2, <2>3 DEF Touches, Changes, Advances, WindowInv, Multitask!Alive
  <2>5. BlockInv(CleanUpBlock)'
    BY <1>2, <2>2, <2>3 DEF BlockInv, Touches
  <2>6. CASE win[w].cleaned
    <3>1. Dispatched(<<>>)
      BY <2>1, <2>6 DEF Dispatched
    <3> QED BY <1>1, <1>3, <2>1, <2>3, <2>4, <3>1, OtherBlocks DEF WindowMoves, QueueTypes
  <2>7. CASE ~win[w].cleaned
    <3>1. Dispatched(<<CleanUpBlock>>)
      BY <2>1, <2>7 DEF Dispatched
    <3>2. WindowMoves(w, <<CleanUpBlock>>)
      BY <1>1, <1>2, <2>1, <2>3, <2>4, <2>5, <3>1, FewBlocks, OtherBlocks DEF WindowMoves, QueueTypes
    <3> QED BY <3>2
  <2> QED BY <2>6, <2>7
<1>5. CASE Multitask!CleanUp(w)
  <2> DEFINE view == IF Multitask!Removes(w) THEN "removed" ELSE "page"
             key == <<win[w].app, win[w].container>>
  <2>1. /\ win' = [win EXCEPT ![w].view = view] /\ main # <<>>
        /\ Head(main) = Multitask!Block("cleanUp", w)
        /\ UNCHANGED <<dock, onExit>> /\ registered' = registered \ {win[w].container}
        /\ relaunch' = IF Multitask!Relaunches(w) THEN relaunch \cup {key} ELSE relaunch
        /\ Multitask!DispatchFromHead(IF Multitask!Removes(w) THEN <<RemoveBlock>> ELSE <<>>)
    BY <1>5 DEF Multitask!CleanUp, Multitask!IsHead, Multitask!ExitBlocks, Multitask!Key
  <2>2. win[w].guest \in {"failed", "dead"} /\ win[w].view # "none"
    BY <2>1, BlocksTyped, HeadInv DEF BlockInv, Multitask!Block
  <2>3. WindowTypes' /\ Touches(w, win[w].guest, view, win[w].closing, win[w].orphaned)
    BY <1>1, <2>1, <2>2, ViewChanges
  <2>4. Advances(w) /\ WindowInv(w)'
    BY <1>1, <2>2, <2>3 DEF Touches, Changes, Advances, WindowInv, Multitask!Alive
  <2>5. relaunch' \subseteq Apps \X Apps /\ registered' \subseteq Apps /\ dock' \subseteq Multitask!Windows
    BY <1>1, <2>1, <2>2 DEF QueueTypes, WindowTypes
  <2>6. CASE Multitask!Removes(w)
    <3>1. Dispatched(<<RemoveBlock>>)
      BY <2>1, <2>6 DEF Dispatched
    <3>2. BlockInv(RemoveBlock)'
      BY <1>2 DEF BlockInv
    <3>3. WindowMoves(w, <<RemoveBlock>>)
      BY <1>2, <2>1, <2>2, <2>3, <2>4, <2>5, <3>1, <3>2, FewBlocks, OtherBlocks DEF WindowMoves
    <3> QED BY <3>3
  <2>7. CASE ~Multitask!Removes(w)
    <3>1. Dispatched(<<>>)
      BY <2>1, <2>7 DEF Dispatched
    <3> QED BY <1>3, <2>1, <2>3, <2>4, <2>5, <3>1, OtherBlocks DEF WindowMoves
  <2> QED BY <2>6, <2>7
<1>6. CASE Multitask!CloseWindow(w)
  <2>1. /\ win[w].view \in {"shown", "page"} /\ UNCHANGED <<dock, registered, relaunch, onExit>>
        /\ dock' \subseteq Multitask!Windows /\ registered' \subseteq Apps
        /\ relaunch' \subseteq Apps \X Apps
    BY <1>1, <1>6 DEF Multitask!CloseWindow, QueueTypes
  <2>2. CASE Multitask!Alive(w)
    <3>1. win' = [win EXCEPT ![w].closing = TRUE] /\ main' = main
      BY <1>6, <2>2 DEF Multitask!CloseWindow
    <3>2. WindowTypes' /\ Touches(w, win[w].guest, win[w].view, TRUE, win[w].orphaned)
      BY <1>1, <3>1, ClosingChanges
    <3>3. Advances(w) /\ WindowInv(w)'
      BY <1>1, <2>2, <3>2 DEF Touches, Changes, Advances, WindowInv, Multitask!Alive
    <3> QED BY <1>3, <2>1, <3>1, <3>2, <3>3, OtherBlocks DEF WindowMoves, Dispatched
  <2>3. CASE ~Multitask!Alive(w)
    <3>1. /\ win' = [win EXCEPT ![w].closing = TRUE, ![w].view = "removed",
                                ![w].orphaned = (win[w].guest = "starting")]
          /\ Multitask!Dispatch(<<RemoveBlock>>)
      BY <1>6, <2>3 DEF Multitask!CloseWindow, Multitask!ExitBlocks
    <3>2. PICK o \in BOOLEAN : o = (win[w].guest = "starting")
      OBVIOUS
    <3>3. win' = [win EXCEPT ![w].closing = TRUE, ![w].view = "removed", ![w].orphaned = o]
      BY <3>1, <3>2
    <3>4. WindowTypes' /\ Touches(w, win[w].guest, "removed", TRUE, o)
      BY <1>1, <2>1, <3>3, RemovalChanges
    <3>5. Advances(w) /\ WindowInv(w)'
      BY <1>1, <2>1, <2>3, <3>2, <3>4 DEF Touches, Changes, Advances, WindowInv, Multitask!Alive
    <3>6. Dispatched(<<RemoveBlock>>) /\ BlockInv(RemoveBlock)'
      BY <1>2, <3>1 DEF Dispatched, BlockInv
    <3>7. WindowMoves(w, <<RemoveBlock>>)
      BY <1>2, <2>1, <3>4, <3>5, <3>6, FewBlocks, OtherBlocks DEF WindowMoves
    <3> QED BY <3>7
  <2> QED BY <2>2, <2>3
<1> QED BY <1>4, <1>5, <1>6

LEMMA ReleaseStep ==
  ASSUME RunInv, NEW w \in Multitask!Windows, Multitask!WindowReleased(w)
  PROVE  Multitask!WindowsTypeOK' /\ BlocksInv' /\ WindowsInv'
<1>1. QueueTypes /\ WindowTypes
  BY TypeParts, WindowTypeParts DEF RunInv
<1>2. win' = [win EXCEPT ![w] = Multitask!NoWindow] /\ UNCHANGED <<main, dock, registered, relaunch, onExit>>
  BY DEF Multitask!WindowReleased
<1>3. /\ WindowTypes' /\ win'[w] = Multitask!NoWindow
      /\ \A v \in Multitask!Windows \ {w} : win'[v] = win[v]
  BY <1>1, <1>2, ReleaseChanges
<1>4. Multitask!WindowsTypeOK'
  BY <1>1, <1>2, <1>3 DEF QueueTypes, Multitask!WindowsTypeOK, WindowTypes, WindowRecord
<1>5. WindowsInv'
  BY <1>3 DEF RunInv, WindowsInv, WindowInv, Multitask!Alive, Multitask!NoWindow
<1>6. ASSUME NEW b \in Multitask!Blocks, InMain(b)'
      PROVE  BlockInv(b)'
  <2>1. InMain(b) /\ BlockInv(b)
    BY <1>2, <1>6 DEF InMain, In, RunInv, BlocksInv
  <2>2. CASE b.do \notin {"dockAdd", "initialized", "failed", "cleanUp"}
    BY <2>2 DEF BlockInv
  <2>3. CASE b.do \in {"dockAdd", "initialized", "failed", "cleanUp"}
    <3>1. b = Multitask!Block(b.do, b.on) /\ b.on \in Multitask!Windows
      BY <2>3 DEF Multitask!Blocks, Multitask!Block
    <3>2. b.on # w
      BY <2>1, <2>3, <3>1 DEF Multitask!WindowReleased, InMain, In
    <3> QED BY <1>3, <2>1, <3>1, <3>2 DEF BlockInv
  <2> QED BY <2>2, <2>3
<1> QED BY <1>4, <1>5, <1>6 DEF BlocksInv

LEMMA CreateStep ==
  ASSUME RunInv, NEW t \in Tasks, NEW w \in Multitask!Windows, NEW a \in Apps, NEW c \in Apps,
         Multitask!CreateWindow(t, w, a, c)
  PROVE  Multitask!WindowsTypeOK' /\ BlocksInv' /\ WindowsInv'
<1>1. QueueTypes /\ WindowTypes
  BY TypeParts, WindowTypeParts DEF RunInv
<1>2. WindowTypes' /\ Creates(t, w, a, c)
  BY <1>1, CreateChanges
<1> DEFINE Added == Multitask!Block("dockAdd", w)
           blocks == IF Multitask!InDock(c) THEN <<>> ELSE <<Added>>
<1>3. /\ win[w] = Multitask!NoWindow /\ main # <<>> /\ Multitask!DispatchFromHead(blocks)
      /\ UNCHANGED <<dock, registered, relaunch, onExit>>
  BY DEF Multitask!CreateWindow, Multitask!IsHead
<1>4. Added \in Multitask!Blocks /\ Added.do = "dockAdd" /\ Added.on = w
  BY BlocksTyped DEF Multitask!Block
<1>5. /\ blocks \in Seq(Multitask!Blocks)
      /\ \A b \in Multitask!Blocks : In(blocks, b) => b = Added
  BY <1>4, FewBlocks DEF In
<1> HIDE DEF blocks
<1>6. /\ main' \in Seq(Multitask!Blocks)
      /\ \A b \in Multitask!Blocks : InMain(b)' => InMain(b) \/ In(blocks, b)
  BY <1>1, <1>3, <1>5, DispatchedFacts DEF OnlyAdds, Dispatched, QueueTypes, InMain
<1>7. Multitask!WindowsTypeOK'
  BY <1>1, <1>2, <1>3, <1>6 DEF QueueTypes, Multitask!WindowsTypeOK, WindowTypes, WindowRecord
<1>8. WindowsInv'
  BY <1>2 DEF RunInv, WindowsInv, WindowInv, Multitask!Alive, Creates
<1>9. ASSUME NEW b \in Multitask!Blocks, InMain(b)'
      PROVE  BlockInv(b)'
  <2>1. CASE b = Added
    BY <1>2, <1>4, <2>1 DEF BlockInv, Creates
  <2>2. CASE b # Added
    <3>1. InMain(b) /\ BlockInv(b)
      BY <1>5, <1>6, <1>9, <2>2 DEF RunInv, BlocksInv
    <3>2. CASE b.do \notin {"dockAdd", "initialized", "failed", "cleanUp"}
      BY <3>2 DEF BlockInv
    <3>3. CASE b.do \in {"dockAdd", "initialized", "failed", "cleanUp"}
      <4>1. b.on \in Multitask!Windows /\ b.on # w
        BY <1>3, <3>1, <3>3 DEF Multitask!Blocks, BlockInv, Multitask!NoWindow
      <4> QED BY <1>2, <3>1, <4>1 DEF BlockInv, Creates
    <3> QED BY <3>2, <3>3
  <2> QED BY <2>1, <2>2
<1> QED BY <1>7, <1>8, <1>9 DEF BlocksInv

(***************************************************************************)
(* The steps of the calls.                                                  *)
(***************************************************************************)
LEMMA CallGoes ==
  ASSUME call \in [Tasks -> CallRecord], CallsInv, NEW t \in Tasks, call[t].pc # "idle",
         NEW pc \in {"lock", "alert", "enter", "signing", "container", "launch", "await", "finish"},
         call' = [call EXCEPT ![t].pc = pc]
  PROVE  call' \in [Tasks -> CallRecord] /\ CallsInv'
<1>1. [call[t] EXCEPT !.pc = pc] \in CallRecord
  BY DEF CallRecord
<1> QED BY <1>1 DEF CallRecord, CallsInv

LEMMA CallReplaced ==
  ASSUME call \in [Tasks -> CallRecord], CallsInv, NEW t \in Tasks, NEW r \in CallRecord,
         r.pc # "idle" <=> r.app \in Apps, call' = [call EXCEPT ![t] = r]
  PROVE  call' \in [Tasks -> CallRecord] /\ CallsInv'
  BY DEF CallsInv

LEMMA CallReturned ==
  ASSUME call \in [Tasks -> CallRecord], CallsInv, NEW t \in Tasks, Return(t)
  PROVE  call' \in [Tasks -> CallRecord] /\ CallsInv'
  BY NoRunOK, CallReplaced, ConstantsAssumption DEF Return

RunRecord(pc, a, multitask, key) ==
    [NoRun EXCEPT !.pc = pc, !.app = a, !.multitask = multitask, !.key = key]
EntryRecord(pc, a) == [NoRun EXCEPT !.pc = pc, !.app = a]

LEMMA NewCall ==
  ASSUME NEW pc \in {"bring", "lock", "resign", "install"}, NEW a \in Apps
  PROVE  /\ EntryRecord(pc, a) \in CallRecord
         /\ EntryRecord(pc, a).pc = pc /\ EntryRecord(pc, a).app = a
         /\ \A multitask \in BOOLEAN, key \in (Apps \X Apps) \cup {None} :
              /\ RunRecord(pc, a, multitask, key) \in CallRecord
              /\ RunRecord(pc, a, multitask, key).pc = pc
              /\ RunRecord(pc, a, multitask, key).app = a
  BY DEF EntryRecord, RunRecord, NoRun, EmptyBox, CallRecord

\* What a step does to the calls and what goes with them keeps their types.
CallsKept == CallTypeOK' /\ CallsInv'

LEMMA QuietQueue ==
  ASSUME RunInv, UNCHANGED <<win, main, dock, registered, onExit>>, relaunch' \subseteq relaunch
  PROVE  QueueMoves(<<>>)
<1>1. QueueTypes
  BY TypeParts, WindowTypeParts DEF RunInv
<1>2. <<>> \in Seq(Multitask!Blocks) /\ \A b : ~In(<<>>, b)
  BY DEF In
<1> QED BY <1>1, <1>2 DEF QueueMoves, Dispatched, QueueTypes

LEMMA QuietSteps ==
  ASSUME RunInv, NEW t \in Tasks,
         \/ CheckLock(t) \/ Declines(t) \/ Accepts(t) \/ Enter(t)
         \/ SetSelected(t) \/ SetContainer(t) \/ Finish(t) \/ SigningThrows(t)
         \/ ExtensionMissing(t) \/ LateReset(t) \/ ResignEnds(t) \/ InstallEnds(t)
  PROVE  QueueMoves(<<>>) /\ CallsKept
<1>1. CallTypeOK /\ CallsInv /\ call \in [Tasks -> CallRecord]
  BY TypeParts DEF RunInv, CallTypeOK
<1> USE DEF At, Goto, KeyDone, windowVars, CallsKept
<1>2. CASE CheckLock(t)
  <2>1. call' \in [Tasks -> CallRecord] /\ CallsInv'
    BY <1>1, <1>2, CallReturned, CallGoes DEF CheckLock
  <2> QED BY <1>1, <1>2, <2>1, QuietQueue DEF CheckLock, CallTypeOK
<1>3. CASE Declines(t) \/ Accepts(t)
  <2>1. call' \in [Tasks -> CallRecord] /\ CallsInv'
    BY <1>1, <1>3, CallReturned, CallGoes DEF Declines, Accepts
  <2> QED BY <1>1, <1>3, <2>1, QuietQueue DEF Declines, Accepts, CallTypeOK
<1>4. CASE Enter(t)
  <2>1. call' \in [Tasks -> CallRecord] /\ CallsInv'
    BY <1>1, <1>4, CallGoes DEF Enter
  <2> QED BY <1>1, <1>4, <2>1, QuietQueue DEF Enter, CallTypeOK
<1>5. CASE SetSelected(t) \/ SetContainer(t)
  <2>1. call' \in [Tasks -> CallRecord] /\ CallsInv' /\ App(t) \in Apps
    BY <1>1, <1>5, CallGoes DEF SetSelected, SetContainer, CallsInv, App
  <2>2. UNCHANGED <<windowVars, isAppRunning, reset, raced, events>> /\ mixed' \in BOOLEAN
    BY <1>1, <1>5 DEF SetSelected, SetContainer, CallTypeOK
  <2>3. box' \in [selected : Apps \cup {None}, container : Apps \cup {None}]
    BY <1>1, <1>5, <2>1 DEF SetSelected, SetContainer, CallTypeOK
  <2> QED BY <1>1, <2>1, <2>2, <2>3, QuietQueue DEF CallTypeOK
<1>6. CASE Finish(t) \/ SigningThrows(t) \/ ExtensionMissing(t) \/ ResignEnds(t) \/ InstallEnds(t)
  <2>1. call' \in [Tasks -> CallRecord] /\ CallsInv' /\ App(t) \in Apps
    BY <1>1, <1>6, CallReturned
    DEF Finish, SigningThrows, ExtensionMissing, ResignEnds, InstallEnds, End, CallsInv, App
  <2>2. /\ UNCHANGED <<win, main, dock, registered, onExit, box, raced, mixed, events>>
        /\ relaunch' \subseteq relaunch
        /\ isAppRunning' \in [Apps -> BOOLEAN] /\ reset' \in [Tasks -> Apps \cup {None}]
    <3>1. CASE Finish(t)
      BY <1>1, <2>1, <3>1 DEF Finish, End, CallTypeOK
    <3>2. CASE SigningThrows(t) \/ ExtensionMissing(t)
      BY <1>1, <2>1, <3>2 DEF SigningThrows, ExtensionMissing, End, CallTypeOK
    <3>3. CASE ResignEnds(t)
      BY <1>1, <2>1, <3>3 DEF ResignEnds, End, CallTypeOK
    <3>4. CASE InstallEnds(t)
      BY <1>1, <2>1, <3>4 DEF InstallEnds, CallTypeOK
    <3> QED BY <1>6, <3>1, <3>2, <3>3, <3>4
  <2> QED BY <1>1, <2>1, <2>2, QuietQueue DEF CallTypeOK
<1>7. CASE LateReset(t)
  BY <1>1, <1>7, QuietQueue DEF LateReset, CallTypeOK, CallsInv
<1> QED BY <1>2, <1>3, <1>4, <1>5, <1>6, <1>7

LEMMA EntrySteps ==
  ASSUME RunInv, NEW t \in Tasks, NEW a \in Apps, ForceResign(t, a) \/ InstallApp(t, a)
  PROVE  QueueMoves(<<>>) /\ CallsKept
<1>1. CallTypeOK /\ CallsInv /\ call \in [Tasks -> CallRecord]
  BY TypeParts DEF RunInv, CallTypeOK
<1>2. PICK pc \in {"resign", "install"} : call' = [call EXCEPT ![t] = EntryRecord(pc, a)]
  <2>1. CASE ForceResign(t, a)
    <3>1. call' = [call EXCEPT ![t] = EntryRecord("resign", a)]
      BY <2>1 DEF ForceResign, EntryRecord
    <3> QED BY <3>1
  <2>2. CASE InstallApp(t, a)
    <3>1. call' = [call EXCEPT ![t] = EntryRecord("install", a)]
      BY <2>2 DEF InstallApp, EntryRecord
    <3> QED BY <3>1
  <2> QED BY <2>1, <2>2
<1>3. call' \in [Tasks -> CallRecord] /\ CallsInv'
  <2> DEFINE r == EntryRecord(pc, a)
  <2>1. r \in CallRecord /\ (r.pc # "idle" <=> r.app \in Apps)
    BY NewCall
  <2> HIDE DEF r
  <2> QED BY <1>1, <1>2, <2>1, CallReplaced DEF r
<1>4. /\ UNCHANGED <<windowVars, reset, box, raced, mixed, events>>
      /\ isAppRunning' \in [Apps -> BOOLEAN]
  BY <1>1 DEF ForceResign, InstallApp, CallTypeOK
<1> QED BY <1>1, <1>3, <1>4, QuietQueue DEF CallTypeOK, windowVars, CallsKept

LEMMA StartStep ==
  ASSUME RunInv, NEW t \in Tasks, NEW a \in Apps, NEW multitask \in BOOLEAN,
         NEW key \in (Apps \X Apps) \cup {None}, StartRun(t, a, multitask, key)
  PROVE  (\E blocks : QueueMoves(blocks)) /\ CallsKept
<1>1. CallTypeOK /\ CallsInv /\ call \in [Tasks -> CallRecord] /\ QueueTypes
  BY TypeParts, WindowTypeParts DEF RunInv, CallTypeOK
<1> DEFINE bring == multitask \/ Multitask!IsMultitasking
           Bring == Multitask!Block("bring", t)
<1>2. PICK pc \in {"bring", "lock"} : pc = IF bring THEN "bring" ELSE "lock"
  OBVIOUS
<1>3. call' = [call EXCEPT ![t] = RunRecord(pc, a, multitask, key)]
  <2>1. RunRecord(pc, a, multitask, key) = RunRecord(IF bring THEN "bring" ELSE "lock", a, multitask, key)
    BY <1>2
  <2>2. call' = [call EXCEPT ![t] = RunRecord(IF bring THEN "bring" ELSE "lock", a, multitask, key)]
    BY Zenon DEF StartRun, RunRecord
  <2> QED BY <2>1, <2>2
<1>4. /\ main' = IF bring THEN Append(main, Bring) ELSE main
      /\ raced' = raced \cup {b \in {a} : \E u \in Tasks : call[u].app = b}
      /\ UNCHANGED <<win, dock, registered, relaunch, onExit, isAppRunning, reset, box, mixed, events>>
  BY DEF StartRun
<1>5. call' \in [Tasks -> CallRecord] /\ CallsInv'
  <2> DEFINE r == RunRecord(pc, a, multitask, key)
  <2>1. r \in CallRecord /\ (r.pc # "idle" <=> r.app \in Apps)
    BY NewCall
  <2> HIDE DEF r
  <2> QED BY <1>1, <1>3, <2>1, CallReplaced DEF r
<1>6. CallTypeOK'
  BY <1>1, <1>4, <1>5 DEF CallTypeOK
<1>7. CASE ~bring
  <2>1. QueueMoves(<<>>)
    BY <1>4, <1>7, QuietQueue
  <2> QED BY <1>5, <1>6, <2>1 DEF CallsKept
<1>8. CASE bring
  <2>1. Bring \in Multitask!Blocks /\ Bring.do = "bring"
    BY BlocksTyped DEF Multitask!Block
  <2>2. Multitask!Dispatch(<<Bring>>)
    BY <1>1, <1>4, <1>8, <2>1, QueueTyped DEF Multitask!Dispatch, QueueTypes
  <2>3. BlockInv(Bring)
    BY <2>1 DEF BlockInv
  <2> HIDE DEF Bring
  <2>4. QueueMoves(<<Bring>>)
    BY <1>1, <1>4, <2>1, <2>2, <2>3, FewBlocks DEF QueueMoves, Dispatched, QueueTypes
  <2> QED BY <1>5, <1>6, <2>4 DEF CallsKept
<1> QED BY <1>7, <1>8

LEMMA LaunchStep ==
  ASSUME RunInv, NEW t \in Tasks, LaunchWindow(t)
  PROVE  (\E blocks : QueueMoves(blocks)) /\ CallsKept
<1>1. CallTypeOK /\ CallsInv /\ call \in [Tasks -> CallRecord] /\ QueueTypes
  BY TypeParts, WindowTypeParts DEF RunInv, CallTypeOK
<1> DEFINE Create == Multitask!Block("create", t)
<1>2. /\ call' = [call EXCEPT ![t].pc = "await", ![t].taken = box] /\ call[t].pc = "launch"
      /\ box' = EmptyBox /\ Multitask!Dispatch(<<Create>>)
      /\ UNCHANGED <<win, dock, registered, relaunch, onExit, isAppRunning, reset, raced, mixed, events>>
  BY DEF LaunchWindow, At
<1>3. /\ [[call[t] EXCEPT !.pc = "await"] EXCEPT !.taken = box] \in CallRecord
      /\ [[call[t] EXCEPT !.pc = "await"] EXCEPT !.taken = box].pc = "await"
      /\ [[call[t] EXCEPT !.pc = "await"] EXCEPT !.taken = box].app = call[t].app
  BY <1>1 DEF CallTypeOK, CallRecord
<1>4. call' = [call EXCEPT ![t] = [[call[t] EXCEPT !.pc = "await"] EXCEPT !.taken = box]]
  BY <1>1, <1>2
<1>5. call[t].app \in Apps
  BY <1>1, <1>2 DEF CallsInv
<1>6. call' \in [Tasks -> CallRecord] /\ CallsInv'
  BY <1>1, <1>3, <1>4, <1>5, CallReplaced
<1>7. CallTypeOK'
  BY <1>1, <1>2, <1>6, NoRunOK DEF CallTypeOK
<1>8. Create \in Multitask!Blocks /\ Create.do = "create"
  BY BlocksTyped DEF Multitask!Block
<1>9. BlockInv(Create)
  BY <1>8 DEF BlockInv
<1> HIDE DEF Create
<1>10. QueueMoves(<<Create>>)
  BY <1>1, <1>2, <1>8, <1>9, FewBlocks DEF QueueMoves, Dispatched, QueueTypes
<1> QED BY <1>6, <1>7, <1>10 DEF CallsKept

LEMMA BringStep ==
  ASSUME RunInv, NEW t \in Tasks, BringExisting(t), call[t].pc # "idle"
  PROVE  QueueMoves(<<>>) /\ CallsKept
<1>1. CallTypeOK /\ CallsInv /\ call \in [Tasks -> CallRecord] /\ QueueTypes
  BY TypeParts, WindowTypeParts DEF RunInv, CallTypeOK
<1>2. <<>> \in Seq(Multitask!Blocks) /\ \A b : ~In(<<>>, b)
  BY DEF In
<1>3. call' \in [Tasks -> CallRecord] /\ CallsInv'
  BY <1>1, CallReturned, CallGoes DEF BringExisting, Goto
<1>4. /\ main # <<>> /\ Multitask!DispatchFromHead(<<>>) /\ relaunch' \subseteq relaunch
      /\ UNCHANGED <<win, dock, registered, onExit, isAppRunning, reset, box, raced, mixed, events>>
  BY DEF BringExisting, Multitask!IsHead, KeyDone
<1>5. QueueMoves(<<>>)
  BY <1>1, <1>2, <1>4 DEF QueueMoves, Dispatched, QueueTypes
<1> QED BY <1>1, <1>3, <1>4, <1>5 DEF CallTypeOK, CallsKept

LEMMA PidStep ==
  ASSUME RunInv, NEW w \in Multitask!Windows, PidAvailable(w), win[w].opener \in Tasks
  PROVE  QueueMoves(<<>>) /\ CallsKept
<1>1. CallTypeOK /\ CallsInv /\ call \in [Tasks -> CallRecord]
  BY TypeParts DEF RunInv, CallTypeOK
<1>2. Multitask!Initialized(w)
  BY DEF PidAvailable
<1>3. QueueMoves(<<>>)
  BY <1>2, DockSteps
<1>4. UNCHANGED <<isAppRunning, reset, box, raced, mixed, events>>
  BY DEF PidAvailable
<1>5. call' \in [Tasks -> CallRecord] /\ CallsInv'
  <2>1. CASE UNCHANGED call
    BY <1>1, <2>1 DEF CallsInv
  <2>2. CASE ~UNCHANGED call
    <3>1. call[win[w].opener].pc = "await" /\ call' = [call EXCEPT ![win[w].opener].pc = "finish"]
      BY <2>2 DEF PidAvailable, At, Goto
    <3> QED BY <1>1, <3>1, CallGoes
  <2> QED BY <2>1, <2>2
<1> QED BY <1>1, <1>3, <1>4, <1>5 DEF CallTypeOK, CallsKept

(***************************************************************************)
(* Who looks for its window does so until its block is served.              *)
(***************************************************************************)
BringStays == \A t \in Tasks : call[t].pc = "bring" => call'[t].pc = "bring"

LEMMA OneCallMoves ==
  ASSUME call \in [Tasks -> CallRecord], NEW t \in Tasks, call[t].pc # "bring",
         \/ UNCHANGED call \/ Return(t)
         \/ \E pc : Goto(t, pc)
         \/ \E r : call' = [call EXCEPT ![t] = r]
  PROVE  BringStays
  BY DEF BringStays, Return, Goto

LEMMA QuietBrings ==
  ASSUME RunInv, NEW t \in Tasks,
         \/ CheckLock(t) \/ Declines(t) \/ Accepts(t) \/ Enter(t)
         \/ SetSelected(t) \/ SetContainer(t) \/ Finish(t) \/ SigningThrows(t)
         \/ ExtensionMissing(t) \/ LateReset(t) \/ ResignEnds(t) \/ InstallEnds(t)
         \/ \E a \in Apps : ForceResign(t, a) \/ InstallApp(t, a)
  PROVE  BringStays
<1>1. call \in [Tasks -> CallRecord]
  BY TypeParts DEF RunInv, CallTypeOK
<1>2. CASE CheckLock(t) \/ Declines(t) \/ Accepts(t)
  BY <1>1, <1>2, OneCallMoves DEF CheckLock, Declines, Accepts, At
<1>3. CASE Enter(t) \/ SetSelected(t) \/ SetContainer(t)
  BY <1>1, <1>3, OneCallMoves DEF Enter, SetSelected, SetContainer, At
<1>4. CASE Finish(t) \/ SigningThrows(t) \/ ExtensionMissing(t) \/ ResignEnds(t) \/ InstallEnds(t)
  BY <1>1, <1>4, OneCallMoves DEF Finish, SigningThrows, ExtensionMissing, ResignEnds, InstallEnds, End, At
<1>5. CASE LateReset(t)
  BY <1>5 DEF LateReset, BringStays
<1>6. CASE \E a \in Apps : ForceResign(t, a) \/ InstallApp(t, a)
  BY <1>1, <1>6, OneCallMoves DEF ForceResign, InstallApp, Free, At
<1> QED BY <1>2, <1>3, <1>4, <1>5, <1>6

LEMMA BringsKeep ==
  ASSUME RunInv, NEW blocks \in Seq(Multitask!Blocks), Dispatched(blocks), NoBring(blocks), BringStays
  PROVE  BringsInv'
<1>1. main \in Seq(Multitask!Blocks)
  BY TypeParts, WindowTypeParts DEF RunInv, QueueTypes
<1>2. OnlyAdds(main, main', blocks)
  BY <1>1, DispatchedFacts
<1> SUFFICES ASSUME NEW t \in Tasks, InMain(Multitask!Block("bring", t))'
             PROVE  call'[t].pc = "bring" /\ Once(main', Multitask!Block("bring", t))
  BY DEF BringsInv
<1>3. PICK b \in Multitask!Blocks : b = Multitask!Block("bring", t)
  BY BlocksTyped
<1>4. InMain(b) /\ ~In(blocks, b)
  BY <1>2, <1>3 DEF InMain, OnlyAdds, NoBring
<1>5. call[t].pc = "bring" /\ Once(main, b)
  BY <1>3, <1>4 DEF RunInv, BringsInv
<1> QED BY <1>2, <1>3, <1>4, <1>5 DEF OnlyAdds, BringStays

LEMMA StartBrings ==
  ASSUME RunInv, NEW t \in Tasks, NEW a, NEW multitask \in BOOLEAN, NEW key,
         StartRun(t, a, multitask, key)
  PROVE  BringsInv'
<1>1. call \in [Tasks -> CallRecord] /\ main \in Seq(Multitask!Blocks)
  BY TypeParts, WindowTypeParts DEF RunInv, QueueTypes, CallTypeOK
<1>2. PICK b \in Multitask!Blocks : b = Multitask!Block("bring", t)
  BY BlocksTyped
<1>3. call[t].pc = "idle" /\ ~In(main, b)
  BY <1>2 DEF StartRun, Free, At, RunInv, BringsInv, InMain
<1>4. \A u \in Tasks \ {t} : call'[u] = call[u]
  BY DEF StartRun
<1>5. BringStays
  BY <1>1, <1>3, <1>4 DEF BringStays
<1>6. CASE multitask \/ Multitask!IsMultitasking
  <2>1. Multitask!Dispatch(<<b>>)
    BY <1>1, <1>2, <1>6, QueueTyped DEF StartRun, Multitask!Dispatch
  <2>2. OnlyAdds(main, main', <<b>>)
    BY <1>1, <1>2, <2>1, FewBlocks, DispatchedFacts DEF Dispatched
  <2>3. call'[t].pc = "bring"
    <3>1. /\ call' = [call EXCEPT ![t] = RunRecord(IF multitask \/ Multitask!IsMultitasking THEN "bring" ELSE "lock",
                                                 a, multitask, key)]
      BY Zenon DEF StartRun, RunRecord
    <3>2. call' = [call EXCEPT ![t] = RunRecord("bring", a, multitask, key)]
      BY <1>6, <3>1
    <3>3. RunRecord("bring", a, multitask, key).pc = "bring"
      BY DEF RunRecord, NoRun
    <3> QED BY <1>1, <3>2, <3>3
  <2>4. main' = Append(main, b)
    BY <1>2, <1>6 DEF StartRun
  <2>5. Once(main', b)
    BY <1>1, <1>3, <2>4, OnceAppend
  <2> SUFFICES ASSUME NEW u \in Tasks, u # t, InMain(Multitask!Block("bring", u))'
               PROVE  call'[u].pc = "bring" /\ Once(main', Multitask!Block("bring", u))
    BY <1>2, <2>3, <2>5 DEF BringsInv
  <2>6. PICK c \in Multitask!Blocks : c = Multitask!Block("bring", u) /\ c # b
    BY <1>2, BlocksTyped DEF Multitask!Block
  <2>7. InMain(c) /\ ~In(<<b>>, c)
    BY <2>2, <2>6, FewBlocks DEF InMain, OnlyAdds
  <2> QED BY <1>5, <2>2, <2>6, <2>7 DEF RunInv, BringsInv, OnlyAdds, BringStays
<1>7. CASE ~(multitask \/ Multitask!IsMultitasking)
  <2>1. main' = main
    BY <1>7 DEF StartRun
  <2> QED BY <1>5, <2>1, FewBlocks, OtherBlocks, BringsKeep DEF Dispatched
<1> QED BY <1>6, <1>7

LEMMA BringBrings ==
  ASSUME RunInv, NEW t \in Tasks, BringExisting(t)
  PROVE  call[t].pc = "bring" /\ BringsInv'
<1>1. call \in [Tasks -> CallRecord] /\ main \in Seq(Multitask!Blocks)
  BY TypeParts, WindowTypeParts DEF RunInv, QueueTypes, CallTypeOK
<1>2. PICK b \in Multitask!Blocks : b = Multitask!Block("bring", t)
  BY BlocksTyped
<1>3. main # <<>> /\ Head(main) = b /\ Multitask!DispatchFromHead(<<>>)
  BY <1>2 DEF BringExisting, Multitask!IsHead
<1>4. In(main, b)
  <2>1. 1 \in DOMAIN main /\ main[1] = b
    BY <1>1, <1>3
  <2> QED BY <2>1 DEF In
<1>5. call[t].pc = "bring" /\ Once(main, b)
  BY <1>2, <1>4 DEF RunInv, BringsInv, InMain
<1>6. main' = Tail(main)
  <2>1. PICK q \in Seq(Multitask!Blocks) : q = Tail(main)
    BY <1>1, <1>3, QueueTyped
  <2>2. main' = q \o <<>> /\ q \o <<>> = q
    BY <1>2, <1>3, <2>1, QueueTyped DEF Multitask!DispatchFromHead
  <2> QED BY <2>1, <2>2
<1>7. ~In(main', b)
  <2>1. Once(main, Head(main))
    BY <1>3, <1>5
  <2>2. ~In(Tail(main), Head(main))
    BY <1>1, <1>3, <2>1, HeadGone
  <2> QED BY <1>3, <1>6, <2>2
<1>8. OnlyAdds(main, main', <<>>)
  <2>1. <<>> \in Seq(Multitask!Blocks) /\ Dispatched(<<>>)
    BY <1>3 DEF Dispatched
  <2> QED BY <1>1, <2>1, DispatchedFacts
<1>9. \A u \in Tasks \ {t} : call'[u] = call[u]
  <2>1. Return(t) \/ Goto(t, "lock")
    BY DEF BringExisting
  <2> QED BY <1>1, <2>1 DEF Return, Goto
<1> SUFFICES ASSUME NEW u \in Tasks, InMain(Multitask!Block("bring", u))'
             PROVE  call'[u].pc = "bring" /\ Once(main', Multitask!Block("bring", u))
  BY <1>5 DEF BringsInv
<1>10. PICK c \in Multitask!Blocks : c = Multitask!Block("bring", u)
  BY BlocksTyped
<1>11. u # t
  BY <1>2, <1>7 DEF InMain
<1>12. InMain(c) /\ ~In(<<>>, c)
  BY <1>8, <1>10 DEF InMain, OnlyAdds, In
<1> QED BY <1>8, <1>9, <1>10, <1>11, <1>12 DEF RunInv, BringsInv, OnlyAdds

(***************************************************************************)
(* The invariant is inductive.                                              *)
(***************************************************************************)
LEMMA Assembled ==
  ASSUME Signing!SigningTypeOK', Multitask!WindowsTypeOK' /\ BlocksInv' /\ WindowsInv',
         CallsKept, BringsInv'
  PROVE  RunInv'
  BY DEF RunInv, RunTypeOK, CallsKept, CallTypeOK, CallRecord

LEMMA RunInvInit == Init => RunInv
<1> SUFFICES ASSUME Init
             PROVE  RunInv
  OBVIOUS
<1>1. Signing!SigningTypeOK
  BY SigningTypeInit DEF Init
<1>2. \A w \in Multitask!Windows : win[w] = Multitask!NoWindow
  BY DEF Init, Multitask!WindowsInit
<1>3. WindowTypes
  BY <1>2, NoWindowOK DEF WindowTypes, Init, Multitask!WindowsInit, Multitask!NoWindow
<1>4. main = <<>> /\ <<>> \in Seq(Multitask!Blocks) /\ \A b : ~In(<<>>, b)
  BY DEF Init, Multitask!WindowsInit, In
<1>5. QueueTypes
  BY <1>4 DEF QueueTypes, Init, Multitask!WindowsInit
<1>6. CallTypeOK /\ CallsInv
  BY NoRunOK, ConstantsAssumption DEF CallTypeOK, CallsInv, Init
<1>7. WindowsInv
  BY <1>2 DEF WindowsInv, WindowInv, Multitask!Alive, Multitask!NoWindow
<1>8. BlocksInv /\ BringsInv
  BY <1>4 DEF BlocksInv, BringsInv, InMain
<1> QED BY <1>1, <1>3, <1>5, <1>6, <1>7, <1>8, TypeParts, WindowTypeParts DEF RunInv

LEMMA LossStep ==
  ASSUME RunInv, NEW otherError \in BOOLEAN, ProcessEnds(otherError), Signing!SigningTypeOK'
  PROVE  RunInv'
<1>1. QueueTypes /\ CallTypeOK
  BY TypeParts, WindowTypeParts DEF RunInv
<1>2. win' = [w \in Multitask!Windows |-> Multitask!NoWindow]
  BY DEF ProcessEnds, Multitask!WindowsLost
<1>3. WindowTypes'
  BY <1>2, NoWindowOK DEF WindowTypes, Multitask!NoWindow
<1>4. main' = <<>> /\ <<>> \in Seq(Multitask!Blocks) /\ \A b : ~In(<<>>, b)
  BY DEF ProcessEnds, Multitask!WindowsLost, In
<1>5. QueueTypes'
  BY <1>1, <1>4 DEF QueueTypes, ProcessEnds, Multitask!WindowsLost
<1>6. Multitask!WindowsTypeOK'
  BY <1>3, <1>5 DEF QueueTypes, Multitask!WindowsTypeOK, WindowTypes, WindowRecord
<1>7. CallTypeOK' /\ CallsInv'
  BY <1>1, NoRunOK, ConstantsAssumption DEF CallTypeOK, CallsInv, ProcessEnds
<1>8. WindowsInv'
  BY <1>2 DEF WindowsInv, WindowInv, Multitask!Alive, Multitask!NoWindow
<1>9. BlocksInv' /\ BringsInv'
  BY <1>4 DEF BlocksInv, BringsInv, InMain
<1> QED BY <1>6, <1>7, <1>8, <1>9, Assembled DEF CallsKept

\* A step of windows only.
LEMMA WindowStepKeeps ==
  ASSUME RunInv, NEW w \in Multitask!Windows, UNCHANGED <<signingVars, runVars>>,
         \/ Multitask!GuestStarts(w) \/ Multitask!GuestFails(w) \/ Multitask!GuestRuns(w)
         \/ Multitask!GuestDies(w) \/ Multitask!Interrupted(w) \/ Multitask!Failed(w)
         \/ Multitask!CleanUp(w) \/ Multitask!CloseWindow(w) \/ Multitask!WindowReleased(w)
  PROVE  RunInv'
<1>1. Signing!SigningTypeOK' /\ CallsKept /\ BringStays
  BY TypeParts DEF RunInv, signingVars, runVars, Signing!SigningTypeOK, CallTypeOK, CallsInv,
                   CallsKept, BringStays
<1>2. CASE ~Multitask!WindowReleased(w)
  <2>1. PICK blocks : WindowMoves(w, blocks)
    BY <1>2, GuestSteps, ClosingSteps
  <2>2. Multitask!WindowsTypeOK' /\ BlocksInv' /\ WindowsInv'
    BY <2>1, WindowMovesKeep
  <2>3. BringsInv'
    BY <1>1, <2>1, BringsKeep DEF WindowMoves
  <2> QED BY <1>1, <2>2, <2>3, Assembled
<1>3. CASE Multitask!WindowReleased(w)
  <2>1. Multitask!WindowsTypeOK' /\ BlocksInv' /\ WindowsInv'
    BY <1>3, ReleaseStep
  <2>2. main' = main
    BY <1>3 DEF Multitask!WindowReleased
  <2>3. BringsInv'
    BY <1>1, <2>2, FewBlocks, OtherBlocks, BringsKeep, BlocksTyped DEF Dispatched, BringsInv, InMain, In, Once, BringStays, RunInv
  <2> QED BY <1>1, <2>1, <2>3, Assembled
<1> QED BY <1>2, <1>3

\* A step of a call.
LEMMA QueueStepKeeps ==
  ASSUME RunInv, Signing!SigningTypeOK', QueueMoves(<<>>), CallsKept, BringStays
  PROVE  RunInv'
<1>1. Multitask!WindowsTypeOK' /\ BlocksInv' /\ WindowsInv'
  BY QueueMovesKeep
<1>2. BringsInv'
  BY BringsKeep, OtherBlocks DEF QueueMoves
<1> QED BY <1>1, <1>2, Assembled

LEMMA TaskStepKeeps ==
  ASSUME RunInv, Signing!SigningTypeOK', NEW t \in Tasks, TaskProceeds(t)
  PROVE  RunInv'
<1>1. CASE \/ CheckLock(t) \/ Declines(t) \/ Accepts(t) \/ Enter(t)
           \/ SetSelected(t) \/ SetContainer(t) \/ Finish(t) \/ SigningThrows(t)
           \/ ExtensionMissing(t) \/ LateReset(t) \/ ResignEnds(t) \/ InstallEnds(t)
  BY <1>1, QuietSteps, QuietBrings, QueueStepKeeps
<1>2. CASE SigningProceeds(t)
  <2>1. UNCHANGED <<windowVars, runVars>>
    BY <1>2 DEF SigningProceeds
  <2>2. CallsKept /\ BringStays
    BY <2>1, TypeParts DEF RunInv, runVars, CallTypeOK, CallsInv, CallsKept, BringStays
  <2>3. QueueMoves(<<>>)
    BY <2>1, QuietQueue DEF windowVars
  <2> QED BY <2>2, <2>3, QueueStepKeeps
<1>3. CASE LaunchWindow(t)
  <2>1. /\ call[t].pc = "launch" /\ call \in [Tasks -> CallRecord]
        /\ Multitask!Dispatch(<<Multitask!Block("create", t)>>)
        /\ Multitask!Block("create", t) \in Multitask!Blocks
    BY <1>3, TypeParts, BlocksTyped DEF LaunchWindow, At, RunInv, CallTypeOK
  <2>2. BringStays
    BY <1>3, <2>1 DEF LaunchWindow, BringStays
  <2>3. Multitask!Block("create", t).do # "bring"
    BY DEF Multitask!Block
  <2>4. BringsInv'
    BY <2>1, <2>2, <2>3, FewBlocks, OtherBlocks, BringsKeep DEF Dispatched
  <2>5. (\E blocks : QueueMoves(blocks)) /\ CallsKept
    BY <1>3, LaunchStep
  <2>6. Multitask!WindowsTypeOK' /\ BlocksInv' /\ WindowsInv'
    BY <2>5, QueueMovesKeep
  <2> QED BY <2>4, <2>5, <2>6, Assembled
<1>4. CASE \E otherError \in BOOLEAN : LaunchGuest(t, otherError)
  BY <1>4, LossStep DEF LaunchGuest
<1> QED BY <1>1, <1>2, <1>3, <1>4 DEF TaskProceeds

LEMMA StartStepKeeps ==
  ASSUME RunInv, Signing!SigningTypeOK', NEW t \in Tasks, NEW a \in Apps, NEW multitask \in BOOLEAN,
         NEW key \in (Apps \X Apps) \cup {None}, StartRun(t, a, multitask, key)
  PROVE  RunInv'
<1>1. (\E blocks : QueueMoves(blocks)) /\ CallsKept
  BY StartStep
<1>2. Multitask!WindowsTypeOK' /\ BlocksInv' /\ WindowsInv'
  BY <1>1, QueueMovesKeep
<1> QED BY <1>1, <1>2, StartBrings, Assembled

LEMMA MainStepKeeps ==
  ASSUME RunInv, Signing!SigningTypeOK', MainProceeds
  PROVE  RunInv'
<1>1. CASE \E t \in Tasks : BringExisting(t)
  <2> PICK t \in Tasks : BringExisting(t)
    BY <1>1
  <2>1. call[t].pc = "bring" /\ BringsInv'
    BY BringBrings
  <2>2. QueueMoves(<<>>) /\ CallsKept
    BY <2>1, BringStep
  <2>3. Multitask!WindowsTypeOK' /\ BlocksInv' /\ WindowsInv'
    BY <2>2, QueueMovesKeep
  <2> QED BY <2>1, <2>2, <2>3, Assembled
<1>2. CASE \E t \in Tasks, w \in Multitask!Windows : OpenWindow(t, w)
  <2> PICK t \in Tasks, w \in Multitask!Windows : OpenWindow(t, w)
    BY <1>2
  <2>1. UNCHANGED <<signingVars, runVars>>
    BY DEF OpenWindow
  <2>2. CallsKept /\ BringStays /\ CallTypeOK
    BY <2>1, TypeParts DEF RunInv, runVars, CallTypeOK, CallsInv, CallsKept, BringStays
  <2>3. PICK a \in Apps, c \in Apps : Multitask!CreateWindow(t, w, a, c)
    BY <2>2 DEF OpenWindow, CallTypeOK, CallRecord
  <2>4. Multitask!WindowsTypeOK' /\ BlocksInv' /\ WindowsInv'
    BY <2>3, CreateStep
  <2>5. PICK b \in Multitask!Blocks : b = Multitask!Block("dockAdd", w) /\ b.do # "bring"
    BY BlocksTyped DEF Multitask!Block
  <2>6. \E blocks \in Seq(Multitask!Blocks) : Dispatched(blocks) /\ NoBring(blocks)
    <3>1. Dispatched(<<>>) \/ Dispatched(<<b>>)
      BY <2>3, <2>5 DEF Multitask!CreateWindow, Multitask!IsHead, Dispatched
    <3> QED BY <2>5, <3>1, FewBlocks, OtherBlocks
  <2>7. BringsInv'
    BY <2>2, <2>6, BringsKeep
  <2> QED BY <2>2, <2>4, <2>7, Assembled
<1>3. CASE \E t \in Tasks, otherError \in BOOLEAN : OpenNothing(t, otherError)
  BY <1>3, LossStep DEF OpenNothing
<1>4. CASE \E w \in Multitask!Windows : PidAvailable(w)
  <2> PICK w \in Multitask!Windows : PidAvailable(w)
    BY <1>4
  <2>1. PICK b \in Multitask!Blocks : b = Multitask!Block("initialized", w)
    BY BlocksTyped
  <2>2. main # <<>> /\ Head(main) = b /\ b.do = "initialized" /\ b.on = w
    BY <2>1 DEF PidAvailable, Multitask!Initialized, Multitask!IsHead, Multitask!Block
  <2>3. win[w].opener \in Tasks
    BY <2>2, HeadInv DEF BlockInv, RunInv, WindowsInv, WindowInv
  <2>4. QueueMoves(<<>>) /\ CallsKept
    BY <2>3, PidStep
  <2>5. BringStays
    <3>1. call \in [Tasks -> CallRecord]
      BY TypeParts DEF RunInv, CallTypeOK
    <3>2. CASE UNCHANGED call
      BY <3>2 DEF BringStays
    <3>3. CASE ~UNCHANGED call
      BY <2>3, <3>1, <3>3, OneCallMoves DEF PidAvailable, At
    <3> QED BY <3>2, <3>3
  <2> QED BY <2>4, <2>5, QueueStepKeeps
<1>5. CASE \E w \in Multitask!Windows :
             /\ Multitask!DockAdd(w) \/ Multitask!Failed(w) \/ Multitask!CleanUp(w)
             /\ UNCHANGED <<signingVars, runVars>>
  <2> PICK w \in Multitask!Windows :
             /\ Multitask!DockAdd(w) \/ Multitask!Failed(w) \/ Multitask!CleanUp(w)
             /\ UNCHANGED <<signingVars, runVars>>
    BY <1>5
  <2>1. CallsKept /\ BringStays
    BY TypeParts DEF RunInv, runVars, CallTypeOK, CallsInv, CallsKept, BringStays
  <2>2. CASE Multitask!DockAdd(w)
    BY <2>1, <2>2, DockSteps, QueueStepKeeps
  <2>3. CASE ~Multitask!DockAdd(w)
    BY <2>3, WindowStepKeeps
  <2> QED BY <2>2, <2>3
<1>6. CASE \E a \in Apps : Multitask!DockRemove(a) /\ UNCHANGED <<signingVars, runVars>>
  <2>1. CallsKept /\ BringStays
    BY <1>6, TypeParts DEF RunInv, runVars, CallTypeOK, CallsInv, CallsKept, BringStays
  <2> QED BY <1>6, <2>1, DockSteps, QueueStepKeeps
<1> QED BY <1>1, <1>2, <1>3, <1>4, <1>5, <1>6 DEF MainProceeds, Multitask!Windows

LEMMA RunInvStep == RunInv /\ Next => RunInv'
<1> SUFFICES ASSUME RunInv, Next
             PROVE  RunInv'
  OBVIOUS
<1>1. Signing!SigningTypeOK'
  <2>1. CallsOK /\ Signing!SigningTypeOK
    BY TypeParts DEF CallsOK, RunInv, CallsInv
  <2>2. Signing!SigningNext \/ UNCHANGED signingVars
    BY <2>1, SigningSteps
  <2>3. CASE UNCHANGED signingVars
    BY <2>1, <2>3 DEF signingVars, Signing!SigningTypeOK
  <2> QED BY <2>1, <2>2, <2>3, SigningTypeStep
<1>2. CASE \E t \in Tasks : TaskProceeds(t)
  BY <1>1, <1>2, TaskStepKeeps
<1>3. CASE \E t \in Callers, a \in Concerned :
              ForceResign(t, a) \/ InstallApp(t, a) \/ \E multitask \in BOOLEAN : RunApp(t, a, multitask)
  <2> PICK t \in Tasks, a \in Apps :
         ForceResign(t, a) \/ InstallApp(t, a) \/ \E multitask \in BOOLEAN : RunApp(t, a, multitask)
    BY <1>3, ChosenOnes
  <2>1. CASE ForceResign(t, a) \/ InstallApp(t, a)
    BY <1>1, <2>1, EntrySteps, QuietBrings, QueueStepKeeps
  <2>2. CASE \E multitask \in BOOLEAN : RunApp(t, a, multitask)
    <3> PICK multitask \in BOOLEAN : StartRun(t, a, multitask, None)
      BY <2>2 DEF RunApp
    <3> QED BY <1>1, StartStepKeeps
  <2> QED BY <2>1, <2>2
<1>4. CASE \E t \in Callers, key \in relaunch : RelaunchApp(t, key)
  <2> PICK t \in Tasks, key \in relaunch : RelaunchApp(t, key)
    BY <1>4, ChosenOnes
  <2>1. key \in Apps \X Apps /\ key[1] \in Apps
    BY TypeParts, WindowTypeParts DEF RunInv, QueueTypes
  <2>2. StartRun(t, key[1], TRUE, key)
    BY DEF RelaunchApp
  <2> QED BY <1>1, <2>1, <2>2, StartStepKeeps
<1>5. CASE \E key \in relaunch : RelaunchTooSoon(key)
  <2>1. UNCHANGED <<signingVars, runVars, win, main, dock, registered, onExit>>
        /\ relaunch' \subseteq relaunch
    BY <1>5 DEF RelaunchTooSoon, Multitask!RelaunchEnds
  <2>2. CallsKept /\ BringStays
    BY <2>1, TypeParts DEF RunInv, runVars, CallTypeOK, CallsInv, CallsKept, BringStays
  <2> QED BY <1>1, <2>1, <2>2, QuietQueue, QueueStepKeeps
<1>6. CASE MainProceeds
  BY <1>1, <1>6, MainStepKeeps
<1>7. CASE \E w \in 1..MaxWindows : GuestProceeds(w) \/ GuestDies(w) \/ UserCloses(w)
  <2> PICK w \in Multitask!Windows : GuestProceeds(w) \/ GuestDies(w) \/ UserCloses(w)
    BY <1>7 DEF Multitask!Windows
  <2> QED BY WindowStepKeeps DEF GuestProceeds, GuestDies, UserCloses
<1>8. CASE \E a \in Concerned : SettingChanges(a)
  <2>1. UNCHANGED <<windowVars, runVars>>
    BY <1>8 DEF SettingChanges
  <2>2. CallsKept /\ BringStays
    BY <2>1, TypeParts DEF RunInv, runVars, CallTypeOK, CallsInv, CallsKept, BringStays
  <2> QED BY <1>1, <2>1, <2>2, QuietQueue, QueueStepKeeps DEF windowVars
<1>9. CASE \E otherError \in BOOLEAN : Crash(otherError)
  BY <1>1, <1>9, LossStep DEF Crash
<1> QED BY <1>2, <1>3, <1>4, <1>5, <1>6, <1>7, <1>8, <1>9 DEF Next

LEMMA RunInvStutter == RunInv /\ UNCHANGED vars => RunInv'
<1> SUFFICES ASSUME RunInv, UNCHANGED vars
             PROVE  RunInv'
  OBVIOUS
<1>1. UNCHANGED <<signingVars, windowVars, runVars>>
  BY DEF vars
<1>2. Signing!SigningTypeOK' /\ CallsKept /\ BringStays
  BY <1>1, TypeParts DEF RunInv, signingVars, runVars, Signing!SigningTypeOK, CallTypeOK, CallsInv,
                         CallsKept, BringStays
<1>3. QueueMoves(<<>>)
  BY <1>1, QuietQueue DEF windowVars
<1> QED BY <1>2, <1>3, QueueStepKeeps

LEMMA RunInvHolds == Spec => []RunInv
<1>1. RunInv /\ [Next]_vars => RunInv'
  BY RunInvStep, RunInvStutter
<1> QED BY <1>1, RunInvInit, PTL DEF Spec

\* A step of a call, a window or the outside world is one of AppSigning or leaves it alone.
LEMMA SigningView == RunInv /\ [Next]_vars => [Signing!SigningNext]_signingVars
<1>1. RunInv => CallsOK
  BY DEF RunInv, CallsInv, CallsOK
<1>2. UNCHANGED vars => UNCHANGED signingVars
  BY DEF vars
<1> QED BY <1>1, <1>2, SigningSteps

LEMMA SigningInvHolds == Spec => []SigningInv
<1>1. Init => SigningInv
  BY SigningTypeInit, FilesInit, MarkInit DEF Init, SigningInv
<1>2. RunInv /\ SigningInv /\ [Next]_vars => SigningInv'
  BY SigningView, SigningInvStep, SigningInvStutter
<1> QED BY <1>1, <1>2, RunInvHolds, PTL DEF Spec

(***************************************************************************)
(* Conclusions.                                                             *)
(***************************************************************************)
\* Every variable of calls, signing and windows has its type, in every state.
THEOREM RunTyped == Spec => []RunTypeOK
<1>1. RunInv => RunTypeOK
  BY DEF RunInv
<1> QED BY <1>1, RunInvHolds, PTL

\* runApp, forceResign and installations with everything around them, the process's end
\* included, use patchExecAndSignIfNeed as AppSigning says: AppRun implements it.
THEOREM AppRunSigns == Spec => Signing!SigningSpec
<1>1. Init => Signing!SigningInit
  BY DEF Init
<1>2. UNCHANGED signingVars => UNCHANGED Signing!signingVars
  BY DEF signingVars, Signing!signingVars, Signing!signingFiles, Signing!signingChosen
<1>3. RunInv /\ [Next]_vars => [Signing!SigningNext]_(Signing!signingVars)
  BY <1>2, SigningView
<1> QED BY <1>1, <1>3, RunInvHolds, PTL DEF Spec, Signing!SigningSpec

\* However often copying, removing and moving are killed and repeated, an executable is
\* not lost, of an app that no two calls were about at the same time.
THEOREM ExecutableIsKept == Spec => []ExecutableKept
<1>1. SigningInv => ExecutableKept
  BY DEF SigningInv, FilesInv, AppInv, ExecutableKept, Signing!ExecutableKept
<1> QED BY <1>1, SigningInvHolds, PTL

\* A call that succeeded leaves an executable dyld can load and, with certificates and an
\* app the user wants signed, iOS accepts, with the exceptions SignedIsRunnable names.
THEOREM SignedRuns == Spec => []SignedIsRunnable
<1>1. SigningInv => SignedIsRunnable
  <2> SUFFICES ASSUME SigningInv, NEW t \in Tasks, sign[t].pc = "ok",
                      sign[t].app \notin overlapped \cup stranded
               PROVE  /\ exec[sign[t].app] # None
                      /\ kind[sign[t].app] = "arm64" /\ patched[sign[t].app]
                            => exec[sign[t].app].patched
                      /\ certificate # "none" /\ ~dontSign[sign[t].app]
                            => exec[sign[t].app].signed
    BY DEF SignedIsRunnable, Signing!SignedIsRunnable, Signing!Runs
  <2>1. sign[t].app \in Apps /\ AppInv(sign[t].app)
    BY DEF SigningInv, Signing!SigningTypeOK, FilesInv
  <2> QED BY <2>1 DEF AppInv, CallInv, PatchedFiles
<1> QED BY <1>1, SigningInvHolds, PTL

\* The mark the next start reports as a crash during signing means one, or a call that
\* was killed, or a 32-bit app that was refused.
THEOREM MarkTells == Spec => []MarkIsTrue
<1>1. SigningInv => MarkIsTrue
  BY DEF SigningInv, MarkInv, MarkIsTrue
<1> QED BY <1>1, SigningInvHolds, PTL

\* A call that has the process to itself is marked as long as it works.
THEOREM SigningMarked == Spec => []SigningIsMarked
<1>1. SigningInv => SigningIsMarked
  BY DEF SigningInv, MarkInv, SigningIsMarked
<1> QED BY <1>1, SigningInvHolds, PTL

\* No guest runs without a window the user can close, but for those whose window was
\* closed before their process existed.
THEOREM GuestsHaveWindows == Spec => []GuestHasWindow
<1>1. RunInv => GuestHasWindow
  BY DEF RunInv, WindowsInv, WindowInv, GuestHasWindow, Multitask!Windows
<1> QED BY <1>1, RunInvHolds, PTL

(***************************************************************************)
(* The windows.  More of the main queue: what stays in it, and in which     *)
(* order.                                                                   *)
(***************************************************************************)
Precedes(q, b, c) == \A i, j \in DOMAIN q : q[i] = b /\ q[j] = c => i < j

LEMMA ConcatFacts ==
  ASSUME NEW q \in Seq(Multitask!Blocks), NEW blocks \in Seq(Multitask!Blocks)
  PROVE  /\ \A b : In(q \o blocks, b) <=> In(q, b) \/ In(blocks, b)
         /\ \A b, c : Precedes(q, b, c) /\ ~In(blocks, b) => Precedes(q \o blocks, b, c)
<1> DEFINE r == q \o blocks
<1>1. /\ DOMAIN r = 1..(Len(q) + Len(blocks)) /\ DOMAIN q = 1..Len(q) /\ DOMAIN blocks = 1..Len(blocks)
      /\ Len(q) \in Nat /\ Len(blocks) \in Nat
      /\ \A i \in DOMAIN q : r[i] = q[i]
      /\ \A i \in DOMAIN blocks : r[Len(q) + i] = blocks[i]
  OBVIOUS
<1>2. ASSUME NEW i \in DOMAIN r
      PROVE  \/ i \in DOMAIN q /\ r[i] = q[i]
             \/ i - Len(q) \in DOMAIN blocks /\ r[i] = blocks[i - Len(q)] /\ i > Len(q)
  <2>1. CASE i <= Len(q)
    BY <1>1, <2>1
  <2>2. CASE i > Len(q)
    <3>1. i - Len(q) \in DOMAIN blocks /\ Len(q) + (i - Len(q)) = i
      BY <1>1, <2>2
    <3> HIDE DEF r
    <3> QED BY <1>1, <2>2, <3>1
  <2> QED BY <1>1, <2>1, <2>2
<1>3. \A i \in DOMAIN blocks : Len(q) + i \in DOMAIN r
  BY <1>1
<1>4. \A i \in DOMAIN q : i \in DOMAIN r
  BY <1>1
<1> HIDE DEF r
<1>5. ASSUME NEW b PROVE In(r, b) <=> In(q, b) \/ In(blocks, b)
  BY <1>1, <1>2, <1>3, <1>4 DEF In
<1>6. ASSUME NEW b, NEW c, Precedes(q, b, c), ~In(blocks, b)
      PROVE  Precedes(r, b, c)
  <2> SUFFICES ASSUME NEW i \in DOMAIN r, NEW j \in DOMAIN r, r[i] = b, r[j] = c
               PROVE  i < j
    BY DEF Precedes
  <2>1. i \in DOMAIN q /\ q[i] = b
    BY <1>2, <1>6 DEF In
  <2>2. CASE j \in DOMAIN q /\ q[j] = c
    BY <1>6, <2>1, <2>2 DEF Precedes
  <2>3. CASE j > Len(q)
    BY <1>1, <2>1, <2>3
  <2> QED BY <1>2, <2>2, <2>3
<1> QED BY <1>5, <1>6 DEF r

LEMMA TailFacts ==
  ASSUME NEW q \in Seq(Multitask!Blocks), q # <<>>
  PROVE  /\ Tail(q) \in Seq(Multitask!Blocks) /\ Head(q) \in Multitask!Blocks
         /\ \A b : In(q, b) <=> b = Head(q) \/ In(Tail(q), b)
         /\ \A b, c : Precedes(q, b, c) => Precedes(Tail(q), b, c)
         /\ \A b : Precedes(q, b, Head(q)) => ~In(q, b)
<1>1. /\ Tail(q) \in Seq(Multitask!Blocks) /\ Head(q) \in Multitask!Blocks
      /\ Len(q) \in Nat \ {0} /\ DOMAIN q = 1..Len(q) /\ DOMAIN Tail(q) = 1..(Len(q) - 1)
      /\ \A i \in 1..(Len(q) - 1) : Tail(q)[i] = q[i + 1]
      /\ Head(q) = q[1]
  OBVIOUS
<1>2. ASSUME NEW i \in DOMAIN q, i # 1
      PROVE  i - 1 \in DOMAIN Tail(q) /\ Tail(q)[i - 1] = q[i]
  <2>1. i \in Int /\ i - 1 \in 1..(Len(q) - 1) /\ (i - 1) + 1 = i
    BY <1>1, <1>2
  <2> QED BY <1>1, <2>1
<1>3. \A i \in DOMAIN Tail(q) : i \in Int /\ i + 1 \in DOMAIN q /\ Tail(q)[i] = q[i + 1]
  BY <1>1
<1>4. 1 \in DOMAIN q
  BY <1>1
<1>5. ASSUME NEW b PROVE In(q, b) <=> b = Head(q) \/ In(Tail(q), b)
  BY <1>1, <1>2, <1>3, <1>4 DEF In
<1>6. ASSUME NEW b, NEW c, Precedes(q, b, c) PROVE Precedes(Tail(q), b, c)
  <2> SUFFICES ASSUME NEW i \in DOMAIN Tail(q), NEW j \in DOMAIN Tail(q), Tail(q)[i] = b, Tail(q)[j] = c
               PROVE  i < j
    BY DEF Precedes
  <2>1. i + 1 < j + 1
    BY <1>3, <1>6 DEF Precedes
  <2> QED BY <1>3, <2>1
<1>7. ASSUME NEW b, Precedes(q, b, Head(q)), NEW i \in DOMAIN q, q[i] = b PROVE FALSE
  <2>1. i < 1
    BY <1>1, <1>4, <1>7 DEF Precedes
  <2> QED BY <1>1, <2>1
<1> QED BY <1>1, <1>5, <1>6, <1>7 DEF In

\* All a step does to the queue.
Popped(blocks) == main # <<>> /\ Multitask!DispatchFromHead(blocks)

LEMMA QueueFacts ==
  ASSUME main \in Seq(Multitask!Blocks), NEW blocks \in Seq(Multitask!Blocks),
         Multitask!Dispatch(blocks) \/ Popped(blocks)
  PROVE  /\ \A b : InMain(b)' => InMain(b) \/ In(blocks, b)
         /\ \A b : In(blocks, b) => InMain(b)'
         /\ \A b : InMain(b) /\ (Multitask!Dispatch(blocks) \/ b # Head(main)) => InMain(b)'
         /\ \A b, c : Precedes(main, b, c) /\ ~In(blocks, b) => Precedes(main, b, c)'
         /\ \A b \in Multitask!Blocks : Once(main, b) /\ ~In(blocks, b) => Once(main, b)'
<1>0. \A b \in Multitask!Blocks : Once(main, b) /\ ~In(blocks, b) => Once(main, b)'
  BY DispatchedFacts DEF OnlyAdds, Dispatched, Popped
<1>1. CASE Multitask!Dispatch(blocks)
  BY <1>0, <1>1, ConcatFacts DEF Multitask!Dispatch, InMain
<1>2. CASE Popped(blocks) /\ ~Multitask!Dispatch(blocks)
  <2>1. main' = Tail(main) \o blocks /\ main # <<>>
    BY <1>2 DEF Popped, Multitask!DispatchFromHead
  <2>2. PICK q \in Seq(Multitask!Blocks) : q = Tail(main)
    BY <2>1, TailFacts
  <2>3. /\ \A b : In(main', b) <=> In(q, b) \/ In(blocks, b)
        /\ \A b, c : Precedes(q, b, c) /\ ~In(blocks, b) => Precedes(main', b, c)
    BY <2>1, <2>2, ConcatFacts
  <2>4. /\ \A b : In(main, b) <=> b = Head(main) \/ In(q, b)
        /\ \A b, c : Precedes(main, b, c) => Precedes(q, b, c)
    BY <2>1, <2>2, TailFacts
  <2> QED BY <1>0, <1>2, <2>3, <2>4 DEF InMain
<1> QED BY <1>0, <1>1, <1>2

\* What is once in the queue is gone when it is served.
LEMMA ServedFacts ==
  ASSUME main \in Seq(Multitask!Blocks), NEW blocks \in Seq(Multitask!Blocks), Popped(blocks)
  PROVE  /\ Once(main, Head(main)) /\ ~In(blocks, Head(main)) => ~In(main', Head(main))
         /\ InMain(Head(main))
         /\ \A b : Precedes(main, b, Head(main)) => ~InMain(b)
<1>1. main' = Tail(main) \o blocks /\ main # <<>>
  BY DEF Popped, Multitask!DispatchFromHead
<1>2. PICK q \in Seq(Multitask!Blocks) : q = Tail(main)
  BY <1>1, TailFacts
<1>3. \A b : In(main', b) <=> In(q, b) \/ In(blocks, b)
  BY <1>1, <1>2, ConcatFacts
<1>4. Once(main, Head(main)) => ~In(q, Head(main))
  BY <1>1, <1>2, HeadGone
<1>5. (\A b : Precedes(main, b, Head(main)) => ~In(main, b)) /\ In(main, Head(main))
  BY <1>1, TailFacts
<1> QED BY <1>3, <1>4, <1>5 DEF InMain

LEMMA OnceDispatched ==
  ASSUME main \in Seq(Multitask!Blocks), NEW b \in Multitask!Blocks, ~InMain(b),
         Multitask!Dispatch(<<b>>)
  PROVE  Once(main', b)
<1>1. main' = Append(main, b)
  BY QueueTyped DEF Multitask!Dispatch
<1> QED BY <1>1, OnceAppend DEF InMain

(***************************************************************************)
(* What keeps a guest in reach: a window is alone with its container unless *)
(* it says so, and what is removed from the dock is about a window that is. *)
(***************************************************************************)
Starting(w) == win[w].guest = "starting"
Visible(w) == (Starting(w) \/ Multitask!Alive(w)) /\ win[w].view = "shown"

LonelyInv ==
    \A v, w \in Multitask!Windows :
        v # w /\ win[v].container = win[w].container /\ win[w].container \in Apps
            => win[v].company # "none"
RemovedInv ==
    \A w \in Multitask!Windows : win[w].view = "removed" => win[w].closing \/ onExit # "page"
RemoveInv ==
    \A a \in Apps : InMain(Multitask!Block("dockRemove", a)) =>
        \E w \in Multitask!Windows : win[w].container = a /\ win[w].view = "removed"
Found(w) ==
    /\ Multitask!Alive(w) => win[w].container \in registered
    /\ InMain(Multitask!Block("dockAdd", w)) \/ w \in dock
FoundInv == \A w \in Multitask!Windows : Visible(w) /\ win[w].company = "none" => Found(w)

ReachInv == LonelyInv /\ RemovedInv /\ RemoveInv /\ FoundInv

(***************************************************************************)
(* The steps of a window and its guest.                                     *)
(***************************************************************************)
WindowAct(w) ==
    \/ Multitask!GuestStarts(w) \/ Multitask!GuestFails(w) \/ Multitask!GuestRuns(w)
    \/ Multitask!GuestDies(w) \/ Multitask!Interrupted(w) \/ Multitask!Failed(w)
    \/ Multitask!CleanUp(w) \/ Multitask!CloseWindow(w)

\* What goes into the queue and what comes out of it.
Sends(w, blocks) ==
    /\ blocks \in Seq(Multitask!Blocks)
    /\ \/ main' = main /\ blocks = <<>>
       \/ Multitask!Dispatch(blocks)
       \/ Popped(blocks) /\ Head(main).do \in {"failed", "cleanUp"}
    /\ \A b \in Multitask!Blocks : In(blocks, b) =>
         b.do \in {"initialized", "failed", "cleanUp", "dockRemove"}

LEMMA SendsFacts ==
  ASSUME main \in Seq(Multitask!Blocks), NEW w, NEW blocks, Sends(w, blocks)
  PROVE  /\ \A b \in Multitask!Blocks : InMain(b)' => InMain(b) \/ In(blocks, b)
         /\ \A b \in Multitask!Blocks : b.do \in {"dockAdd", "create"} => (InMain(b)' <=> InMain(b))
         /\ \A b \in Multitask!Blocks : b.do = "initialized" /\ InMain(b) => InMain(b)'
         /\ \A b \in Multitask!Blocks : In(blocks, b) => InMain(b)'
         /\ \A b, c : Precedes(main, b, c) /\ ~In(blocks, b) => Precedes(main, b, c)'
         /\ \A b \in Multitask!Blocks : Once(main, b) /\ ~In(blocks, b) => Once(main, b)'
<1>1. CASE main' = main /\ blocks = <<>>
  BY <1>1 DEF InMain, In
<1>2. CASE Multitask!Dispatch(blocks) \/ (Popped(blocks) /\ Head(main).do \in {"failed", "cleanUp"})
  BY <1>2, QueueFacts DEF Sends
<1> QED BY <1>1, <1>2 DEF Sends

\* The window stays what it is and gets no more visible; its container is forgotten only
\* when no guest is left in it.
Goes(w) ==
    /\ WindowTypes' /\ Changes(w)
    /\ Visible(w)' => Visible(w)
    /\ win[w].view = "removed" => win'[w].view = "removed"
    /\ win'[w].view = "removed" => win'[w].closing \/ onExit # "page"
    /\ UNCHANGED <<dock, onExit>>
    /\ \A a \in registered : a \in registered' \/ a = win[w].container
    /\ Multitask!Alive(w)' /\ (Starting(w) \/ win[w].container \in registered)
         => win[w].container \in registered'
    /\ \E blocks :
         /\ Sends(w, blocks)
         /\ \A a \in Apps : In(blocks, Multitask!Block("dockRemove", a)) =>
              a = win[w].container /\ win'[w].view = "removed"
         /\ \A v \in Multitask!Windows : In(blocks, Multitask!Block("initialized", v)) =>
              v = w /\ Multitask!GuestStarts(w)
    /\ \/ win'[w].guest = win[w].guest
       \/ Starting(w) /\ win'[w].guest = "failed"
       \/ Starting(w) /\ Multitask!GuestStarts(w) /\ win'[w].guest = "started"
       \/ Multitask!Alive(w) /\ win'[w].guest \in {"running", "dead"}

LEMMA NoBlocks ==
  ASSUME NEW w, main' = main \/ (Popped(<<>>) /\ Head(main).do \in {"failed", "cleanUp"})
  PROVE  Sends(w, <<>>) /\ \A b : ~In(<<>>, b)
  BY DEF Sends, In

LEMMA OneBlock ==
  ASSUME NEW w, NEW b \in Multitask!Blocks,
         b.do \in {"initialized", "failed", "cleanUp", "dockRemove"},
         Multitask!Dispatch(<<b>>) \/ (Popped(<<b>>) /\ Head(main).do \in {"failed", "cleanUp"})
  PROVE  Sends(w, <<b>>) /\ \A c : In(<<b>>, c) => c = b
  BY FewBlocks DEF Sends

LEMMA GuestGoes ==
  ASSUME RunInv, RemovedInv, NEW w \in Multitask!Windows,
         \/ Multitask!GuestStarts(w) \/ Multitask!GuestFails(w) \/ Multitask!GuestRuns(w)
         \/ Multitask!GuestDies(w) \/ Multitask!Interrupted(w)
  PROVE  Goes(w)
<1>1. WindowTypes /\ QueueTypes
  BY TypeParts, WindowTypeParts DEF RunInv
<1>2. PICK g \in {"none", "starting", "failed", "started", "running", "dead"} :
        /\ WindowTypes' /\ Touches(w, g, win[w].view, win[w].closing, win[w].orphaned)
        /\ g \in {"starting", "started", "running"} => Starting(w) \/ Multitask!Alive(w)
  <2>1. CASE Multitask!GuestStarts(w)
    BY <1>1, <2>1, GuestChanges DEF Multitask!GuestStarts, Starting
  <2>2. CASE Multitask!GuestFails(w)
    BY <1>1, <2>2, GuestChanges DEF Multitask!GuestFails
  <2>3. CASE Multitask!GuestRuns(w)
    BY <1>1, <2>3, GuestChanges DEF Multitask!GuestRuns, Multitask!Alive
  <2>4. CASE Multitask!GuestDies(w)
    BY <1>1, <2>4, GuestChanges DEF Multitask!GuestDies
  <2>5. CASE Multitask!Interrupted(w)
    <3>1. win' = [win EXCEPT ![w].cleaned = TRUE] /\ win[w].guest = "dead"
      BY <2>5 DEF Multitask!Interrupted
    <3>2. WindowTypes' /\ Touches(w, "dead", win[w].view, win[w].closing, win[w].orphaned)
      BY <1>1, <3>1, CleanedChanges
    <3> QED BY <3>2
  <2> QED BY <2>1, <2>2, <2>3, <2>4, <2>5
<1>3. /\ Changes(w) /\ (Visible(w)' => Visible(w))
      /\ win'[w].view = win[w].view /\ win'[w].closing = win[w].closing
  BY <1>2 DEF Touches, Visible, Starting, Multitask!Alive
<1>4. /\ UNCHANGED <<dock, onExit>>
      /\ registered' = IF Multitask!GuestStarts(w) THEN registered \cup {win[w].container} ELSE registered
  BY DEF Multitask!GuestStarts, Multitask!GuestFails, Multitask!GuestRuns, Multitask!GuestDies,
         Multitask!Interrupted, Multitask!Alive
<1>5. Starting(w) /\ Multitask!Alive(w)' => Multitask!GuestStarts(w)
  BY <1>1, <1>2 DEF Starting, Touches, Multitask!Alive, Multitask!GuestFails, Multitask!GuestRuns,
              Multitask!GuestDies, Multitask!Interrupted, WindowTypes, WindowRecord
<1>6. PICK blocks : /\ Sends(w, blocks)
                    /\ \A a \in Apps : ~In(blocks, Multitask!Block("dockRemove", a))
                    /\ \A v \in Multitask!Windows : In(blocks, Multitask!Block("initialized", v)) =>
                         v = w /\ Multitask!GuestStarts(w)
  <2>1. CASE Multitask!GuestRuns(w) \/ Multitask!GuestDies(w)
    BY <2>1, NoBlocks DEF Multitask!GuestRuns, Multitask!GuestDies
  <2>2. CASE Multitask!GuestStarts(w) \/ Multitask!GuestFails(w) \/ Multitask!Interrupted(w)
    <3>1. PICK do \in {"initialized", "failed", "cleanUp"} :
            Multitask!Dispatch(<<Multitask!Block(do, w)>>) /\ (do = "initialized" => Multitask!GuestStarts(w))
      BY <2>2 DEF Multitask!GuestStarts, Multitask!GuestFails, Multitask!Interrupted
    <3>2. PICK b \in Multitask!Blocks : b = Multitask!Block(do, w)
      BY BlocksTyped
    <3>3. b.do = do
      BY <3>2 DEF Multitask!Block
    <3>4. Sends(w, <<b>>) /\ \A c : In(<<b>>, c) => c = b
      BY <3>1, <3>2, <3>3, OneBlock
    <3>5. \A a \in Apps : Multitask!Block("dockRemove", a) # b
      BY <3>3 DEF Multitask!Block
    <3>6. \A v \in Multitask!Windows : Multitask!Block("initialized", v) = b => v = w /\ do = "initialized"
      BY <3>2 DEF Multitask!Block
    <3> QED BY <3>1, <3>4, <3>5, <3>6
  <2> QED BY <2>1, <2>2
<1>7. \/ win'[w].guest = win[w].guest
      \/ Starting(w) /\ win'[w].guest = "failed"
      \/ Starting(w) /\ Multitask!GuestStarts(w) /\ win'[w].guest = "started"
      \/ Multitask!Alive(w) /\ win'[w].guest \in {"running", "dead"}
  BY <1>1 DEF Starting, Multitask!Alive, Multitask!GuestStarts, Multitask!GuestFails, Multitask!GuestRuns,
              Multitask!GuestDies, Multitask!Interrupted, WindowTypes, WindowRecord
<1> QED BY <1>2, <1>3, <1>4, <1>5, <1>6, <1>7 DEF Goes, RemovedInv

LEMMA ClosingGoes ==
  ASSUME RunInv, RemovedInv, NEW w \in Multitask!Windows,
         Multitask!Failed(w) \/ Multitask!CleanUp(w) \/ Multitask!CloseWindow(w)
  PROVE  Goes(w)
<1>1. WindowTypes /\ QueueTypes
  BY TypeParts, WindowTypeParts DEF RunInv
<1>2. CASE Multitask!Failed(w)
  <2>1. /\ win' = [win EXCEPT ![w].cleaned = TRUE]
        /\ Popped(IF win[w].cleaned THEN <<>> ELSE <<Multitask!Block("cleanUp", w)>>)
        /\ Head(main).do = "failed" /\ UNCHANGED <<dock, registered, onExit>>
    BY <1>2 DEF Multitask!Failed, Multitask!IsHead, Popped, Multitask!Block
  <2>2. WindowTypes' /\ Touches(w, win[w].guest, win[w].view, win[w].closing, win[w].orphaned)
    BY <1>1, <2>1, CleanedChanges
  <2>3. PICK b \in Multitask!Blocks : b = Multitask!Block("cleanUp", w) /\ b.do = "cleanUp"
    BY BlocksTyped DEF Multitask!Block
  <2>4. PICK blocks : /\ Sends(w, blocks)
                      /\ \A a \in Apps : ~In(blocks, Multitask!Block("dockRemove", a))
                      /\ \A v \in Multitask!Windows : ~In(blocks, Multitask!Block("initialized", v))
    <3>1. CASE win[w].cleaned
      BY <2>1, <3>1, NoBlocks
    <3>2. CASE ~win[w].cleaned
      <4>1. Sends(w, <<b>>) /\ \A c : In(<<b>>, c) => c = b
        BY <2>1, <2>3, <3>2, OneBlock
      <4>2. /\ \A a \in Apps : Multitask!Block("dockRemove", a) # b
            /\ \A v \in Multitask!Windows : Multitask!Block("initialized", v) # b
        BY <2>3 DEF Multitask!Block
      <4> QED BY <4>1, <4>2
    <3> QED BY <3>1, <3>2
  <2> QED BY <2>1, <2>2, <2>4 DEF Goes, RemovedInv, Touches, Changes, Visible, Starting, Multitask!Alive
<1>3. PICK r : r = Multitask!Block("dockRemove", win[w].container)
  OBVIOUS
<1>4. /\ r.do = "dockRemove" /\ (win[w].view # "none" => r \in Multitask!Blocks)
      /\ \A a \in Apps : Multitask!Block("dockRemove", a) = r => a = win[w].container
      /\ \A v \in Multitask!Windows : Multitask!Block("initialized", v) # r
  BY <1>1, <1>3, BlocksTyped DEF Multitask!Block, WindowTypes
<1>5. CASE Multitask!CleanUp(w)
  <2>1. PICK view \in {"removed", "page"} :
          /\ win' = [win EXCEPT ![w].view = view] /\ (view = "removed" <=> Multitask!Removes(w))
    BY <1>5 DEF Multitask!CleanUp
  <2>2. /\ Popped(IF Multitask!Removes(w) THEN <<r>> ELSE <<>>) /\ Head(main) = Multitask!Block("cleanUp", w)
        /\ registered' = registered \ {win[w].container} /\ UNCHANGED <<dock, onExit>>
    BY <1>3, <1>5 DEF Multitask!CleanUp, Multitask!IsHead, Multitask!ExitBlocks, Popped
  <2>3. PICK c \in Multitask!Blocks : c = Multitask!Block("cleanUp", w) /\ c.do = "cleanUp" /\ c.on = w
    BY BlocksTyped DEF Multitask!Block
  <2>4. win[w].guest \in {"failed", "dead"} /\ win[w].view # "none"
    BY <2>2, <2>3, HeadInv DEF BlockInv, Popped
  <2>5. WindowTypes' /\ Touches(w, win[w].guest, view, win[w].closing, win[w].orphaned)
    BY <1>1, <2>1, <2>4, ViewChanges
  <2>6. PICK blocks : /\ Sends(w, blocks)
                      /\ \A a \in Apps : In(blocks, Multitask!Block("dockRemove", a)) =>
                           a = win[w].container /\ view = "removed"
                      /\ \A v \in Multitask!Windows : ~In(blocks, Multitask!Block("initialized", v))
    <3>1. CASE Multitask!Removes(w)
      <4>1. Sends(w, <<r>>) /\ \A b : In(<<r>>, b) => b = r
        BY <1>4, <2>2, <2>3, <2>4, <3>1, OneBlock
      <4> QED BY <1>4, <2>1, <3>1, <4>1
    <3>2. CASE ~Multitask!Removes(w)
      BY <2>2, <2>3, <3>2, NoBlocks
    <3> QED BY <3>1, <3>2
  <2>7. ~Multitask!Alive(w)' /\ ~Visible(w)'
    BY <2>4, <2>5 DEF Touches, Visible, Starting, Multitask!Alive
  <2>8. win[w].view = "removed" => view = "removed"
    BY <2>1 DEF RemovedInv, Multitask!Removes
  <2>9. /\ Changes(w) /\ win'[w].view = view /\ win'[w].closing = win[w].closing
        /\ win'[w].guest = win[w].guest
    BY <2>5 DEF Touches
  <2> QED BY <2>1, <2>2, <2>5, <2>6, <2>7, <2>8, <2>9 DEF Goes, Multitask!Removes
<1>6. CASE Multitask!CloseWindow(w)
  <2>1. win[w].view \in {"shown", "page"} /\ UNCHANGED <<dock, registered, onExit>>
    BY <1>6 DEF Multitask!CloseWindow
  <2>2. CASE Multitask!Alive(w)
    <3>1. win' = [win EXCEPT ![w].closing = TRUE] /\ main' = main
      BY <1>6, <2>2 DEF Multitask!CloseWindow
    <3>2. WindowTypes' /\ Touches(w, win[w].guest, win[w].view, TRUE, win[w].orphaned)
      BY <1>1, <3>1, ClosingChanges
    <3>3. Sends(w, <<>>) /\ \A b : ~In(<<>>, b)
      BY <3>1, NoBlocks
    <3> QED BY <2>1, <3>2, <3>3 DEF Goes, Touches, Changes, Visible, Starting, Multitask!Alive
  <2>3. CASE ~Multitask!Alive(w)
    <3>1. /\ win' = [win EXCEPT ![w].closing = TRUE, ![w].view = "removed",
                                ![w].orphaned = (win[w].guest = "starting")]
          /\ Multitask!Dispatch(<<r>>)
      BY <1>3, <1>6, <2>3 DEF Multitask!CloseWindow, Multitask!ExitBlocks
    <3>2. PICK o \in BOOLEAN : o = (win[w].guest = "starting")
      OBVIOUS
    <3>3. win' = [win EXCEPT ![w].closing = TRUE, ![w].view = "removed", ![w].orphaned = o]
      BY <3>1, <3>2
    <3>4. WindowTypes' /\ Touches(w, win[w].guest, "removed", TRUE, o)
      BY <1>1, <2>1, <3>3, RemovalChanges
    <3>5. Sends(w, <<r>>) /\ \A b : In(<<r>>, b) => b = r
      BY <1>4, <2>1, <3>1, OneBlock
    <3>6. Changes(w) /\ win'[w].view = "removed" /\ win'[w].closing = TRUE /\ win'[w].guest = win[w].guest
      BY <3>4 DEF Touches
    <3> QED BY <1>4, <2>1, <3>4, <3>5, <3>6 DEF Goes, Visible, Starting, Multitask!Alive
  <2> QED BY <2>2, <2>3
<1> QED BY <1>2, <1>5, <1>6

LEMMA WindowGoes ==
  ASSUME RunInv, RemovedInv, NEW w \in Multitask!Windows, WindowAct(w)
  PROVE  Goes(w)
  BY GuestGoes, ClosingGoes DEF WindowAct

(***************************************************************************)
(* All steps, by what they do to windows and queue.                         *)
(***************************************************************************)
CallAct(t) ==
    \/ CheckLock(t) \/ Declines(t) \/ Accepts(t) \/ Enter(t)
    \/ SetSelected(t) \/ SetContainer(t) \/ Finish(t) \/ SigningThrows(t)
    \/ ExtensionMissing(t) \/ ResignEnds(t) \/ InstallEnds(t)
    \/ \E a \in Apps : ForceResign(t, a) \/ InstallApp(t, a)

QuietStep ==
    /\ UNCHANGED <<win, main, dock, registered, onExit>>
    /\ UNCHANGED <<call, box, raced, mixed>> \/ \E t \in Tasks : CallAct(t)
StartStepOf(t) ==
    \E a \in Apps, multitask \in BOOLEAN, key \in (Apps \X Apps) \cup {None} :
        StartRun(t, a, multitask, key)
DockStep(do, on) ==
    /\ Multitask!IsHead(do, on) /\ Multitask!DispatchFromHead(<<>>)
    /\ UNCHANGED <<win, registered, onExit, call, box, raced, mixed>>
WindowStepOf(w) == UNCHANGED runVars /\ WindowAct(w)
ReleaseOf(w) ==
    /\ UNCHANGED runVars /\ Multitask!WindowReleased(w)
    /\ win[w].guest = "failed" => call[win[w].opener].pc # "await"

LEMMA QuietTasks ==
  ASSUME NEW t \in Tasks, TaskProceeds(t)
  PROVE  QuietStep \/ LaunchWindow(t) \/ \E otherError \in BOOLEAN : ProcessEnds(otherError)
<1>1. CASE CheckLock(t)
  BY <1>1 DEF QuietStep, CallAct, CheckLock
<1>2. CASE Declines(t) \/ Accepts(t) \/ Enter(t) \/ SetSelected(t) \/ SetContainer(t)
  <2>1. UNCHANGED windowVars
    BY <1>2 DEF Declines, Accepts, Enter, SetSelected, SetContainer
  <2> QED BY <1>2, <2>1 DEF QuietStep, CallAct, windowVars
<1>3. CASE Finish(t) \/ SigningThrows(t) \/ ExtensionMissing(t)
  BY <1>3 DEF QuietStep, CallAct, Finish, SigningThrows, ExtensionMissing
<1>4. CASE ResignEnds(t) \/ InstallEnds(t)
  <2>1. UNCHANGED windowVars
    BY <1>4 DEF ResignEnds, InstallEnds
  <2> QED BY <1>4, <2>1 DEF QuietStep, CallAct, windowVars
<1>5. CASE SigningProceeds(t)
  BY <1>5 DEF QuietStep, SigningProceeds, windowVars, runVars
<1>6. CASE LateReset(t)
  BY <1>6 DEF QuietStep, LateReset, windowVars
<1>7. CASE \E otherError \in BOOLEAN : LaunchGuest(t, otherError)
  BY <1>7 DEF LaunchGuest
<1> QED BY <1>1, <1>2, <1>3, <1>4, <1>5, <1>6, <1>7 DEF TaskProceeds

LEMMA MainCases ==
  ASSUME MainProceeds
  PROVE  \/ \E t \in Tasks : BringExisting(t)
         \/ \E t \in Tasks, w \in Multitask!Windows : OpenWindow(t, w)
         \/ \E w \in Multitask!Windows : PidAvailable(w)
         \/ \E w \in Multitask!Windows : DockStep("dockAdd", w) /\ dock' = dock \cup {w}
         \/ \E a \in Apps : /\ DockStep("dockRemove", a)
                            /\ dock' = {w \in dock : win[w].container # a}
         \/ \E w \in Multitask!Windows : WindowStepOf(w)
         \/ \E otherError \in BOOLEAN : ProcessEnds(otherError)
<1>1. CASE \E t \in Tasks : BringExisting(t)
  BY <1>1
<1>2. CASE \E t \in Tasks, w \in Multitask!Windows : OpenWindow(t, w)
  BY <1>2
<1>3. CASE \E t \in Tasks, otherError \in BOOLEAN : OpenNothing(t, otherError)
  BY <1>3 DEF OpenNothing
<1>4. CASE \E w \in Multitask!Windows : PidAvailable(w)
  BY <1>4
<1>5. CASE \E w \in Multitask!Windows : Multitask!DockAdd(w) /\ UNCHANGED <<signingVars, runVars>>
  BY <1>5 DEF Multitask!DockAdd, DockStep, runVars
<1>6. CASE \E w \in Multitask!Windows :
             (Multitask!Failed(w) \/ Multitask!CleanUp(w)) /\ UNCHANGED <<signingVars, runVars>>
  BY <1>6 DEF WindowStepOf, WindowAct
<1>7. CASE \E a \in Apps : Multitask!DockRemove(a) /\ UNCHANGED <<signingVars, runVars>>
  BY <1>7 DEF Multitask!DockRemove, DockStep, runVars
<1> QED BY <1>1, <1>2, <1>3, <1>4, <1>5, <1>6, <1>7 DEF MainProceeds, Multitask!Windows

LEMMA StepCases ==
  ASSUME RunInv, [Next]_vars
  PROVE  \/ QuietStep
         \/ \E t \in Tasks : StartStepOf(t) \/ LaunchWindow(t) \/ BringExisting(t)
         \/ \E t \in Tasks, w \in Multitask!Windows : OpenWindow(t, w)
         \/ \E w \in Multitask!Windows : PidAvailable(w)
         \/ \E w \in Multitask!Windows : DockStep("dockAdd", w) /\ dock' = dock \cup {w}
         \/ \E a \in Apps : /\ DockStep("dockRemove", a)
                            /\ dock' = {w \in dock : win[w].container # a}
         \/ \E w \in Multitask!Windows : WindowStepOf(w) \/ ReleaseOf(w)
         \/ \E otherError \in BOOLEAN : ProcessEnds(otherError)
<1>1. CASE \E t \in Tasks : TaskProceeds(t)
  BY <1>1, QuietTasks
<1>2. CASE \E t \in Callers, a \in Concerned :
              ForceResign(t, a) \/ InstallApp(t, a) \/ \E multitask \in BOOLEAN : RunApp(t, a, multitask)
  <2> PICK t \in Tasks, a \in Apps :
         ForceResign(t, a) \/ InstallApp(t, a) \/ \E multitask \in BOOLEAN : RunApp(t, a, multitask)
    BY <1>2, ChosenOnes
  <2>1. CASE ForceResign(t, a) \/ InstallApp(t, a)
    BY <2>1 DEF QuietStep, CallAct, ForceResign, InstallApp, windowVars
  <2>2. CASE \E multitask \in BOOLEAN : RunApp(t, a, multitask)
    BY <2>2 DEF RunApp, StartStepOf
  <2> QED BY <2>1, <2>2
<1>3. CASE \E t \in Callers, key \in relaunch : RelaunchApp(t, key)
  <2> PICK t \in Tasks, key \in relaunch : RelaunchApp(t, key)
    BY <1>3, ChosenOnes
  <2>1. key \in Apps \X Apps /\ key[1] \in Apps
    BY TypeParts, WindowTypeParts DEF RunInv, QueueTypes
  <2>2. StartRun(t, key[1], TRUE, key)
    BY DEF RelaunchApp
  <2> QED BY <2>1, <2>2 DEF StartStepOf
<1>4. CASE \E key \in relaunch : RelaunchTooSoon(key)
  BY <1>4 DEF RelaunchTooSoon, Multitask!RelaunchEnds, QuietStep, runVars
<1>5. CASE MainProceeds
  BY <1>5, MainCases
<1>6. CASE \E w \in 1..MaxWindows : GuestProceeds(w) \/ GuestDies(w) \/ UserCloses(w)
  <2> PICK w \in Multitask!Windows : GuestProceeds(w) \/ GuestDies(w) \/ UserCloses(w)
    BY <1>6 DEF Multitask!Windows
  <2>1. WindowStepOf(w) \/ ReleaseOf(w)
    BY DEF GuestProceeds, GuestDies, UserCloses, WindowStepOf, ReleaseOf, WindowAct, At
  <2> QED BY <2>1
<1>7. CASE \E a \in Concerned : SettingChanges(a)
  BY <1>7 DEF SettingChanges, QuietStep, windowVars, runVars
<1>8. CASE \E otherError \in BOOLEAN : Crash(otherError)
  BY <1>8 DEF Crash
<1>9. CASE UNCHANGED vars
  BY <1>9 DEF vars, windowVars, runVars, QuietStep
<1> QED BY <1>1, <1>2, <1>3, <1>4, <1>5, <1>6, <1>7, <1>8, <1>9 DEF Next

(***************************************************************************)
(* Guests stay in reach.                                                    *)
(***************************************************************************)
\* The dock, and what is on its way to it, stay as they are.
DockQuiet ==
    /\ UNCHANGED <<win, dock, registered, onExit>>
    /\ \A w \in Multitask!Windows :
         InMain(Multitask!Block("dockAdd", w)) => InMain(Multitask!Block("dockAdd", w))'
    /\ \A a \in Apps :
         InMain(Multitask!Block("dockRemove", a))' => InMain(Multitask!Block("dockRemove", a))

LEMMA ReachQuiet == ReachInv /\ DockQuiet => ReachInv'
<1> SUFFICES ASSUME ReachInv, DockQuiet PROVE ReachInv'
  OBVIOUS
<1>1. LonelyInv' /\ RemovedInv' /\ RemoveInv'
  BY DEF ReachInv, DockQuiet, LonelyInv, RemovedInv, RemoveInv
<1>2. FoundInv'
  BY DEF ReachInv, DockQuiet, FoundInv, Found, Visible, Starting, Multitask!Alive
<1> QED BY <1>1, <1>2 DEF ReachInv

LEMMA QueueQuiet ==
  ASSUME RunInv, UNCHANGED <<win, dock, registered, onExit>>,
         \/ main' = main
         \/ \E b \in Multitask!Blocks : b.do # "dockRemove" /\ Multitask!Dispatch(<<b>>)
         \/ Popped(<<>>) /\ Head(main).do # "dockAdd"
  PROVE  DockQuiet
<1>1. main \in Seq(Multitask!Blocks)
  BY TypeParts, WindowTypeParts DEF RunInv, QueueTypes
<1>2. CASE main' = main
  BY <1>2 DEF DockQuiet, InMain
<1>3. CASE \E b \in Multitask!Blocks : b.do # "dockRemove" /\ Multitask!Dispatch(<<b>>)
  <2> PICK b \in Multitask!Blocks : b.do # "dockRemove" /\ Multitask!Dispatch(<<b>>)
    BY <1>3
  <2>1. /\ \A c : InMain(c)' => InMain(c) \/ c = b
        /\ \A c : InMain(c) => InMain(c)'
    BY <1>1, FewBlocks, QueueFacts
  <2>2. \A a \in Apps : Multitask!Block("dockRemove", a) # b
    BY DEF Multitask!Block
  <2> QED BY <2>1, <2>2 DEF DockQuiet
<1>4. CASE Popped(<<>>) /\ Head(main).do # "dockAdd"
  <2>1. <<>> \in Seq(Multitask!Blocks) /\ \A c : ~In(<<>>, c)
    BY DEF In
  <2>2. /\ \A c : InMain(c)' => InMain(c)
        /\ \A c : InMain(c) /\ c # Head(main) => InMain(c)'
    BY <1>1, <1>4, <2>1, QueueFacts
  <2>3. \A w \in Multitask!Windows : Multitask!Block("dockAdd", w) # Head(main)
    BY <1>4 DEF Multitask!Block
  <2> QED BY <2>2, <2>3 DEF DockQuiet
<1> QED BY <1>2, <1>3, <1>4

LEMMA ReachGoes ==
  ASSUME RunInv, ReachInv, NEW w \in Multitask!Windows, Goes(w)
  PROVE  ReachInv'
<1>1. WindowTypes /\ QueueTypes
  BY TypeParts, WindowTypeParts DEF RunInv
<1>2. \A v \in Multitask!Windows :
        /\ win'[v].container = win[v].container /\ win'[v].company = win[v].company
        /\ v # w => win'[v] = win[v]
  BY DEF Goes, Changes
<1>3. LonelyInv'
  BY <1>2 DEF ReachInv, LonelyInv
<1>4. RemovedInv'
  BY <1>2 DEF ReachInv, RemovedInv, Goes
<1>5. PICK blocks :
        /\ Sends(w, blocks)
        /\ \A a \in Apps : In(blocks, Multitask!Block("dockRemove", a)) =>
             a = win[w].container /\ win'[w].view = "removed"
  BY DEF Goes
<1>6. RemoveInv'
  <2> SUFFICES ASSUME NEW a \in Apps, InMain(Multitask!Block("dockRemove", a))'
               PROVE  \E v \in Multitask!Windows : win'[v].container = a /\ win'[v].view = "removed"
    BY DEF RemoveInv
  <2>1. InMain(Multitask!Block("dockRemove", a)) \/ In(blocks, Multitask!Block("dockRemove", a))
    BY <1>1, <1>5, BlocksTyped, SendsFacts DEF QueueTypes
  <2>2. CASE InMain(Multitask!Block("dockRemove", a))
    <3>1. PICK v \in Multitask!Windows : win[v].container = a /\ win[v].view = "removed"
      BY <2>2 DEF ReachInv, RemoveInv
    <3> QED BY <1>2, <3>1 DEF Goes
  <2>3. CASE In(blocks, Multitask!Block("dockRemove", a))
    BY <1>2, <1>5, <2>3
  <2> QED BY <2>1, <2>2, <2>3
<1>7. FoundInv'
  <2> SUFFICES ASSUME NEW v \in Multitask!Windows, Visible(v)', win'[v].company = "none"
               PROVE  Found(v)'
    BY DEF FoundInv
  <2>1. Visible(v) /\ win[v].company = "none"
    BY <1>2 DEF Goes, Visible, Starting, Multitask!Alive
  <2>2. Found(v)
    BY <2>1 DEF ReachInv, FoundInv
  <2>3. InMain(Multitask!Block("dockAdd", v)) => InMain(Multitask!Block("dockAdd", v))'
    <3>1. PICK b \in Multitask!Blocks : b = Multitask!Block("dockAdd", v) /\ b.do = "dockAdd"
      BY BlocksTyped DEF Multitask!Block
    <3> QED BY <1>1, <1>5, <3>1, SendsFacts DEF QueueTypes
  <2>4. dock' = dock
    BY DEF Goes
  <2>5. Multitask!Alive(v)' => win[v].container \in registered'
    <3>1. CASE v = w
      BY <2>1, <2>2, <3>1 DEF Goes, Found, Visible
    <3>2. CASE v # w
      <4>1. win[v].container # win[w].container
        BY <1>1, <2>1, <3>2 DEF ReachInv, LonelyInv, Visible, WindowTypes
      <4>2. Multitask!Alive(v)' => Multitask!Alive(v)
        BY <1>2, <3>2 DEF Multitask!Alive
      <4> QED BY <2>2, <4>1, <4>2 DEF Goes, Found
    <3> QED BY <3>1, <3>2
  <2> QED BY <1>2, <2>2, <2>3, <2>4, <2>5 DEF Found
<1> QED BY <1>3, <1>4, <1>6, <1>7 DEF ReachInv

LEMMA ReachDock ==
  ASSUME RunInv, ReachInv,
         \/ \E w \in Multitask!Windows : DockStep("dockAdd", w) /\ dock' = dock \cup {w}
         \/ \E a \in Apps : DockStep("dockRemove", a) /\ dock' = {w \in dock : win[w].container # a}
  PROVE  ReachInv'
<1>1. WindowTypes /\ QueueTypes
  BY TypeParts, WindowTypeParts DEF RunInv
<1>2. UNCHANGED <<win, registered, onExit>> /\ Popped(<<>>)
  BY DEF DockStep, Popped, Multitask!IsHead
<1>3. /\ \A c : InMain(c)' => InMain(c)
      /\ \A c : InMain(c) /\ c # Head(main) => InMain(c)'
  <2>1. <<>> \in Seq(Multitask!Blocks) /\ \A c : ~In(<<>>, c)
    BY DEF In
  <2> QED BY <1>1, <1>2, <2>1, QueueFacts DEF QueueTypes
<1>4. LonelyInv' /\ RemovedInv' /\ RemoveInv'
  BY <1>2, <1>3 DEF ReachInv, LonelyInv, RemovedInv, RemoveInv
<1>5. FoundInv'
  <2> SUFFICES ASSUME NEW v \in Multitask!Windows, Visible(v), win[v].company = "none"
               PROVE  Found(v)'
    BY <1>2 DEF FoundInv, Visible, Starting, Multitask!Alive
  <2>1. Found(v)
    BY DEF ReachInv, FoundInv
  <2> SUFFICES InMain(Multitask!Block("dockAdd", v))' \/ v \in dock'
    BY <1>2, <2>1 DEF Found, Multitask!Alive
  <2>2. ASSUME NEW w \in Multitask!Windows, DockStep("dockAdd", w), dock' = dock \cup {w}
        PROVE  InMain(Multitask!Block("dockAdd", v))' \/ v \in dock'
    <3>1. Head(main) = Multitask!Block("dockAdd", w)
      BY <2>2 DEF DockStep, Multitask!IsHead
    <3>2. CASE v = w
      BY <2>2, <3>2
    <3>3. CASE v # w
      <4>1. Multitask!Block("dockAdd", v) # Head(main)
        BY <3>1, <3>3 DEF Multitask!Block
      <4> QED BY <1>3, <2>1, <2>2, <4>1 DEF Found
    <3> QED BY <3>2, <3>3
  <2>3. ASSUME NEW a \in Apps, DockStep("dockRemove", a), dock' = {w \in dock : win[w].container # a}
        PROVE  InMain(Multitask!Block("dockAdd", v))' \/ v \in dock'
    <3>1. Head(main) = Multitask!Block("dockRemove", a)
      BY <2>3 DEF DockStep, Multitask!IsHead
    <3>2. Multitask!Block("dockAdd", v) # Head(main)
      BY <3>1 DEF Multitask!Block
    <3>3. InMain(Multitask!Block("dockRemove", a))
      <4>1. InMain(Head(main))
        <5>1. <<>> \in Seq(Multitask!Blocks)
          OBVIOUS
        <5> QED BY <1>1, <1>2, <5>1, ServedFacts DEF QueueTypes
      <4> QED BY <3>1, <4>1
    <3>4. PICK u \in Multitask!Windows : win[u].container = a /\ win[u].view = "removed"
      BY <3>3 DEF ReachInv, RemoveInv
    <3>5. win[v].container # a
      BY <3>4 DEF ReachInv, LonelyInv, Visible
    <3> QED BY <1>3, <2>1, <2>3, <3>2, <3>5 DEF Found
  <2> QED BY <2>2, <2>3
<1> QED BY <1>4, <1>5 DEF ReachInv

\* A window is made by the block its call has dispatched.
LEMMA OpenShape ==
  ASSUME RunInv, NEW t \in Tasks, NEW w \in Multitask!Windows, OpenWindow(t, w)
  PROVE  \E a \in Apps, c \in Apps, blocks \in Seq(Multitask!Blocks) :
            /\ a = call[t].taken.selected /\ c = call[t].taken.container
            /\ Creates(t, w, a, c) /\ win[w] = Multitask!NoWindow
            /\ Popped(blocks) /\ Head(main) = Multitask!Block("create", t)
            /\ \A b : In(blocks, b) => b = Multitask!Block("dockAdd", w)
            /\ Multitask!InDock(c) \/ In(blocks, Multitask!Block("dockAdd", w))
            /\ UNCHANGED <<dock, registered, onExit, call, box, raced, mixed>>
<1>1. WindowTypes /\ QueueTypes /\ call \in [Tasks -> CallRecord]
  BY TypeParts, WindowTypeParts DEF RunInv, CallTypeOK
<1>2. PICK a \in Apps, c \in Apps : /\ a = call[t].taken.selected /\ c = call[t].taken.container
                                    /\ Multitask!CreateWindow(t, w, a, c)
  BY <1>1 DEF OpenWindow, CallRecord
<1>3. Creates(t, w, a, c)
  BY <1>1, <1>2, CreateChanges
<1>4. PICK b \in Multitask!Blocks : b = Multitask!Block("dockAdd", w)
  BY BlocksTyped
<1>5. PICK blocks \in Seq(Multitask!Blocks) : blocks = IF Multitask!InDock(c) THEN <<>> ELSE <<b>>
  <2>1. (IF Multitask!InDock(c) THEN <<>> ELSE <<b>>) \in Seq(Multitask!Blocks)
    BY FewBlocks
  <2> QED BY <2>1, Zenon
<1>6. /\ \A d : In(blocks, d) => d = b
      /\ Multitask!InDock(c) \/ In(blocks, b)
  BY <1>5 DEF In
<1>7. /\ win[w] = Multitask!NoWindow /\ Popped(blocks) /\ Head(main) = Multitask!Block("create", t)
      /\ UNCHANGED <<dock, registered, onExit>>
  BY <1>2, <1>4, <1>5 DEF Multitask!CreateWindow, Multitask!IsHead, Popped
<1>8. UNCHANGED <<call, box, raced, mixed>>
  BY DEF OpenWindow, runVars
<1> QED BY <1>2, <1>3, <1>4, <1>6, <1>7, <1>8

LEMMA ReachOpen ==
  ASSUME RunInv, ReachInv, NEW t \in Tasks, NEW w \in Multitask!Windows, OpenWindow(t, w)
  PROVE  ReachInv'
<1>1. WindowTypes /\ QueueTypes
  BY TypeParts, WindowTypeParts DEF RunInv
<1>2. PICK a \in Apps, c \in Apps, blocks \in Seq(Multitask!Blocks) :
        /\ Creates(t, w, a, c) /\ win[w] = Multitask!NoWindow
        /\ Popped(blocks) /\ Head(main) = Multitask!Block("create", t)
        /\ \A b : In(blocks, b) => b = Multitask!Block("dockAdd", w)
        /\ Multitask!InDock(c) \/ In(blocks, Multitask!Block("dockAdd", w))
        /\ UNCHANGED <<dock, registered, onExit>>
  BY OpenShape
<1>3. /\ \A b : InMain(b)' => InMain(b) \/ In(blocks, b)
      /\ \A b : In(blocks, b) => InMain(b)'
      /\ \A b : InMain(b) /\ b # Head(main) => InMain(b)'
  BY <1>1, <1>2, QueueFacts DEF QueueTypes
<1>4. win[w].view = "none"
  BY <1>2 DEF Multitask!NoWindow
<1>5. LonelyInv'
  BY <1>2 DEF Creates, ReachInv, LonelyInv
<1>6. RemovedInv'
  BY <1>2 DEF Creates, ReachInv, RemovedInv
<1>7. RemoveInv'
  <2> SUFFICES ASSUME NEW d \in Apps, InMain(Multitask!Block("dockRemove", d))'
               PROVE  \E v \in Multitask!Windows : win'[v].container = d /\ win'[v].view = "removed"
    BY DEF RemoveInv
  <2>1. Multitask!Block("dockRemove", d) # Multitask!Block("dockAdd", w)
    BY DEF Multitask!Block
  <2>2. PICK v \in Multitask!Windows : win[v].container = d /\ win[v].view = "removed"
    BY <1>2, <1>3, <2>1 DEF ReachInv, RemoveInv
  <2> QED BY <1>2, <1>4, <2>2 DEF Creates
<1>8. FoundInv'
  <2> SUFFICES ASSUME NEW v \in Multitask!Windows, Visible(v)', win'[v].company = "none"
               PROVE  Found(v)'
    BY DEF FoundInv
  <2>1. CASE v = w
    <3>1. ~Multitask!InDock(c)
      BY <1>1, <1>2, <2>1 DEF Creates, Multitask!InDock, QueueTypes
    <3>2. ~Multitask!Alive(w)'
      BY <1>2 DEF Creates, Multitask!Alive
    <3> QED BY <1>2, <1>3, <2>1, <3>1, <3>2 DEF Found
  <2>2. CASE v # w
    <3>1. Visible(v) /\ win[v].company = "none" /\ win'[v].container = win[v].container
          /\ win'[v].guest = win[v].guest
      BY <1>2, <2>2 DEF Creates, Visible, Starting, Multitask!Alive
    <3>2. Found(v)
      BY <3>1 DEF ReachInv, FoundInv
    <3>3. Multitask!Block("dockAdd", v) # Head(main)
      BY <1>2 DEF Multitask!Block
    <3> QED BY <1>2, <1>3, <3>1, <3>2, <3>3 DEF Found, Multitask!Alive
  <2> QED BY <2>1, <2>2
<1> QED BY <1>5, <1>6, <1>7, <1>8 DEF ReachInv

LEMMA ReachRelease ==
  ASSUME RunInv, ReachInv, NEW w \in Multitask!Windows, Multitask!WindowReleased(w)
  PROVE  ReachInv'
<1>1. WindowTypes /\ QueueTypes
  BY TypeParts, WindowTypeParts DEF RunInv
<1>2. /\ win' = [win EXCEPT ![w] = Multitask!NoWindow] /\ UNCHANGED <<main, dock, registered, onExit>>
      /\ \A i \in DOMAIN main : main[i] # Multitask!Block("dockRemove", win[w].container)
  BY DEF Multitask!WindowReleased
<1>3. /\ win'[w] = Multitask!NoWindow
      /\ \A v \in Multitask!Windows \ {w} : win'[v] = win[v]
  BY <1>1, <1>2, ReleaseChanges
<1>4. /\ win'[w].view = "none" /\ win'[w].guest = "none" /\ win'[w].container \notin Apps
  BY <1>3, ConstantsAssumption DEF Multitask!NoWindow
<1>5. LonelyInv' /\ RemovedInv'
  BY <1>2, <1>3, <1>4 DEF ReachInv, LonelyInv, RemovedInv
<1>6. RemoveInv'
  <2> SUFFICES ASSUME NEW a \in Apps, InMain(Multitask!Block("dockRemove", a))
               PROVE  \E v \in Multitask!Windows : win'[v].container = a /\ win'[v].view = "removed"
    BY <1>2 DEF RemoveInv, InMain
  <2>1. PICK v \in Multitask!Windows : win[v].container = a /\ win[v].view = "removed"
    BY DEF ReachInv, RemoveInv
  <2>2. v # w
    BY <1>2, <2>1 DEF InMain, In
  <2> QED BY <1>3, <2>1, <2>2
<1>7. FoundInv'
  <2> SUFFICES ASSUME NEW v \in Multitask!Windows, Visible(v)', win'[v].company = "none"
               PROVE  Found(v)'
    BY DEF FoundInv
  <2>1. v # w
    BY <1>4 DEF Visible, Starting, Multitask!Alive
  <2>2. win'[v] = win[v]
    BY <1>3, <2>1
  <2> QED BY <1>2, <2>2 DEF ReachInv, FoundInv, Found, Visible, Starting, Multitask!Alive, InMain
<1> QED BY <1>5, <1>6, <1>7 DEF ReachInv

LEMMA ReachLost ==
  ASSUME NEW otherError, ProcessEnds(otherError)
  PROVE  ReachInv'
<1>1. \A w \in Multitask!Windows : win'[w] = Multitask!NoWindow
  BY DEF ProcessEnds, Multitask!WindowsLost
<1>2. \A b : ~InMain(b)'
  BY DEF ProcessEnds, Multitask!WindowsLost, InMain, In
<1> QED BY <1>1, <1>2, ConstantsAssumption
        DEF ReachInv, LonelyInv, RemovedInv, RemoveInv, FoundInv, Visible, Starting, Multitask!Alive,
            Multitask!NoWindow

LEMMA ReachInit == Init => ReachInv
<1> SUFFICES ASSUME Init PROVE ReachInv
  OBVIOUS
<1>1. \A w \in Multitask!Windows : win[w] = Multitask!NoWindow
  BY DEF Init, Multitask!WindowsInit
<1>2. \A b : ~InMain(b)
  BY DEF Init, Multitask!WindowsInit, InMain, In
<1> QED BY <1>1, <1>2, ConstantsAssumption
        DEF ReachInv, LonelyInv, RemovedInv, RemoveInv, FoundInv, Visible, Starting, Multitask!Alive,
            Multitask!NoWindow

LEMMA ReachStep == RunInv /\ ReachInv /\ [Next]_vars => ReachInv'
<1> SUFFICES ASSUME RunInv, ReachInv, [Next]_vars PROVE ReachInv'
  OBVIOUS
<1>1. CASE QuietStep
  BY <1>1, QueueQuiet, ReachQuiet DEF QuietStep
<1>2. CASE \E t \in Tasks : StartStepOf(t) \/ LaunchWindow(t)
  <2> PICK t \in Tasks : StartStepOf(t) \/ LaunchWindow(t)
    BY <1>2
  <2>1. main \in Seq(Multitask!Blocks)
    BY TypeParts, WindowTypeParts DEF RunInv, QueueTypes
  <2>2. \A do \in {"bring", "create"} :
          /\ Multitask!Block(do, t) \in Multitask!Blocks
          /\ Multitask!Block(do, t).do # "dockRemove"
    BY BlocksTyped DEF Multitask!Block
  <2>3. UNCHANGED <<win, dock, registered, onExit>>
    BY DEF StartStepOf, StartRun, LaunchWindow
  <2>4. main' = main \/ \E do \in {"bring", "create"} : Multitask!Dispatch(<<Multitask!Block(do, t)>>)
    <3>1. CASE StartStepOf(t)
      <4>1. main' = main \/ main' = Append(main, Multitask!Block("bring", t))
        BY <3>1 DEF StartStepOf, StartRun
      <4>2. Append(main, Multitask!Block("bring", t)) = main \o <<Multitask!Block("bring", t)>>
        BY <2>1, <2>2, QueueTyped
      <4> QED BY <4>1, <4>2 DEF Multitask!Dispatch
    <3>2. CASE LaunchWindow(t)
      BY <3>2 DEF LaunchWindow
    <3> QED BY <3>1, <3>2
  <2>5. DockQuiet
    BY <2>2, <2>3, <2>4, QueueQuiet
  <2> QED BY <2>5, ReachQuiet
<1>3. CASE (\E t \in Tasks : BringExisting(t)) \/ (\E w \in Multitask!Windows : PidAvailable(w))
  <2>1. UNCHANGED <<win, dock, registered, onExit>> /\ Popped(<<>>) /\ Head(main).do # "dockAdd"
    BY <1>3 DEF BringExisting, PidAvailable, Multitask!Initialized, Multitask!IsHead, Popped, Multitask!Block
  <2>2. DockQuiet
    BY <2>1, QueueQuiet
  <2> QED BY <2>2, ReachQuiet
<1>4. CASE \E t \in Tasks, w \in Multitask!Windows : OpenWindow(t, w)
  BY <1>4, ReachOpen
<1>5. CASE \/ \E w \in Multitask!Windows : DockStep("dockAdd", w) /\ dock' = dock \cup {w}
           \/ \E a \in Apps : /\ DockStep("dockRemove", a)
                              /\ dock' = {w \in dock : win[w].container # a}
  BY <1>5, ReachDock
<1>6. CASE \E w \in Multitask!Windows : WindowStepOf(w) \/ ReleaseOf(w)
  BY <1>6, WindowGoes, ReachGoes, ReachRelease DEF WindowStepOf, ReleaseOf, ReachInv
<1>7. CASE \E otherError \in BOOLEAN : ProcessEnds(otherError)
  BY <1>7, ReachLost
<1> QED BY <1>1, <1>2, <1>3, <1>4, <1>5, <1>6, <1>7, StepCases

LEMMA ReachHolds == Spec => []ReachInv
BY ReachInit, ReachStep, RunInvHolds, PTL DEF Spec

\* A guest that runs alone in its container and on the screen can be found: its container
\* counts as used, and the dock has its window or the block that will put it there waits.
THEOREM GuestsAreReachable == Spec => []GuestIsReachable
<1>1. ReachInv => GuestIsReachable
  BY DEF ReachInv, FoundInv, Found, Visible, GuestIsReachable, InMain, In, Multitask!Windows
<1> QED BY <1>1, ReachHolds, PTL

(***************************************************************************)
(* Who waits for whom.  A window whose guest's process identifier has not   *)
(* been handed over yet is awaited by the call that opened it, and by no    *)
(* other.                                                                   *)
(***************************************************************************)
Unresolved(w) ==
    win[w].guest \in {"starting", "failed"} \/ InMain(Multitask!Block("initialized", w))

\* The dock hears of a window before its call does.
OrderInv ==
    \A w \in Multitask!Windows :
        /\ Once(main, Multitask!Block("initialized", w))
        /\ Precedes(main, Multitask!Block("dockAdd", w), Multitask!Block("initialized", w))
        /\ InMain(Multitask!Block("initialized", w)) => win[w].guest \in {"started", "running", "dead"}
        /\ InMain(Multitask!Block("dockAdd", w)) => Unresolved(w)
AwaitInv ==
    /\ \A w \in Multitask!Windows : Unresolved(w) => call[win[w].opener].pc = "await"
    /\ \A v, w \in Multitask!Windows :
         Unresolved(v) /\ Unresolved(w) /\ win[v].opener = win[w].opener => v = w
    /\ \A t \in Tasks : InMain(Multitask!Block("create", t)) =>
         /\ call[t].pc = "await" /\ Once(main, Multitask!Block("create", t))
         /\ \A w \in Multitask!Windows : Unresolved(w) => win[w].opener # t
    /\ \A t \in Tasks : call[t].pc = "await" => call[t].multitask

WaitInv == OrderInv /\ AwaitInv

LEMMA UnresolvedOpened ==
  ASSUME RunInv, NEW w \in Multitask!Windows, Unresolved(w)
  PROVE  win[w].opener \in Tasks /\ win[w].view # "none"
<1>1. PICK b \in Multitask!Blocks : b = Multitask!Block("initialized", w) /\ b.do = "initialized" /\ b.on = w
  BY BlocksTyped DEF Multitask!Block
<1>2. InMain(b) => win[w].view # "none"
  BY <1>1 DEF RunInv, BlocksInv, BlockInv
<1> QED BY <1>1, <1>2 DEF Unresolved, RunInv, WindowsInv, WindowInv

\* A step of a call by itself: it goes on to the launch, begins or ends.
CallShape(t) ==
    /\ \A u \in Tasks \ {t} : call'[u] = call[u]
    /\ call[t].pc \notin {"bring", "await"}
    /\ \/ /\ call'[t].app = call[t].app /\ call'[t].multitask = call[t].multitask
          /\ call[t].pc \in {"lock", "alert", "enter", "signing", "container"}
          /\ call'[t].pc \in {"alert", "enter", "signing", "container", "launch"}
       \/ call'[t].pc \in {"idle", "resign", "install"}
    /\ \/ UNCHANGED <<box, mixed>> /\ call'[t].pc \notin {"container", "launch"}
       \/ SetSelected(t) \/ SetContainer(t)
    /\ raced' = raced

LEMMA CallActShape ==
  ASSUME RunInv, NEW t \in Tasks, CallAct(t)
  PROVE  CallShape(t)
<1>1. call \in [Tasks -> CallRecord]
  BY TypeParts DEF RunInv, CallTypeOK
<1>2. ASSUME NEW pc \in {"alert", "enter", "signing", "container", "launch"}, Goto(t, pc)
      PROVE  /\ \A u \in Tasks \ {t} : call'[u] = call[u]
             /\ call'[t].pc = pc /\ call'[t].app = call[t].app /\ call'[t].multitask = call[t].multitask
  BY <1>1, <1>2 DEF Goto, CallRecord
<1>3. ASSUME Return(t)
      PROVE  (\A u \in Tasks \ {t} : call'[u] = call[u]) /\ call'[t].pc = "idle"
  BY <1>1, <1>3, NoRunOK DEF Return
<1>4. CASE CheckLock(t)
  <2>1. Return(t) \/ Goto(t, "alert") \/ Goto(t, "enter")
    BY <1>4 DEF CheckLock
  <2> QED BY <1>2, <1>3, <1>4, <2>1 DEF CheckLock, At, CallShape
<1>5. CASE Declines(t) \/ Accepts(t) \/ Enter(t)
  <2>1. Return(t) \/ Goto(t, "enter") \/ Goto(t, "signing")
    BY <1>5 DEF Declines, Accepts, Enter
  <2> QED BY <1>2, <1>3, <1>5, <2>1 DEF Declines, Accepts, Enter, At, CallShape
<1>6. CASE SetSelected(t)
  BY <1>2, <1>6 DEF SetSelected, At, CallShape
<1>7. CASE SetContainer(t)
  BY <1>2, <1>7 DEF SetContainer, At, CallShape
<1>8. CASE Finish(t) \/ SigningThrows(t) \/ ExtensionMissing(t) \/ ResignEnds(t) \/ InstallEnds(t)
  BY <1>3, <1>8 DEF Finish, SigningThrows, ExtensionMissing, ResignEnds, InstallEnds, End, At, CallShape
<1>9. ASSUME NEW a \in Apps, ForceResign(t, a) \/ InstallApp(t, a)
      PROVE  CallShape(t)
  <2>1. PICK pc \in {"resign", "install"} : call' = [call EXCEPT ![t] = EntryRecord(pc, a)]
    <3>1. CASE ForceResign(t, a)
      <4>1. call' = [call EXCEPT ![t] = EntryRecord("resign", a)]
        BY <3>1 DEF ForceResign, EntryRecord
      <4> QED BY <4>1
    <3>2. CASE InstallApp(t, a)
      <4>1. call' = [call EXCEPT ![t] = EntryRecord("install", a)]
        BY <3>2 DEF InstallApp, EntryRecord
      <4> QED BY <4>1
    <3> QED BY <1>9, <3>1, <3>2
  <2>2. /\ \A u \in Tasks \ {t} : call'[u] = call[u]
        /\ call'[t].pc = pc
    BY <1>1, <2>1, NewCall
  <2>3. UNCHANGED <<box, mixed, raced>> /\ call[t].pc = "idle"
    BY <1>9 DEF ForceResign, InstallApp, Free, At
  <2> QED BY <2>1, <2>2, <2>3 DEF CallShape
<1> QED BY <1>4, <1>5, <1>6, <1>7, <1>8, <1>9 DEF CallAct

\* What waits stays in the queue, and nothing is added that anybody waits for.
QueueCalm ==
    /\ \A b \in Multitask!Blocks :
         b.do \in {"create", "dockAdd", "initialized"} /\ InMain(b)' => InMain(b)
    /\ \A b \in Multitask!Blocks : b.do = "initialized" /\ InMain(b) => InMain(b)'
    /\ \A b \in Multitask!Blocks :
         b.do \in {"create", "initialized"} /\ Once(main, b) => Once(main, b)'
    /\ \A b, c \in Multitask!Blocks :
         b.do = "dockAdd" /\ Precedes(main, b, c) => Precedes(main, b, c)'

LEMMA CalmQueue ==
  ASSUME RunInv,
         \/ main' = main
         \/ \E b \in Multitask!Blocks : b.do = "bring" /\ Multitask!Dispatch(<<b>>)
         \/ Popped(<<>>) /\ Head(main).do # "initialized"
  PROVE  QueueCalm
<1>1. main \in Seq(Multitask!Blocks)
  BY TypeParts, WindowTypeParts DEF RunInv, QueueTypes
<1>2. CASE main' = main
  BY <1>2 DEF QueueCalm, InMain
<1>3. CASE \E b \in Multitask!Blocks : b.do = "bring" /\ Multitask!Dispatch(<<b>>)
  <2> PICK b \in Multitask!Blocks : b.do = "bring" /\ Multitask!Dispatch(<<b>>)
    BY <1>3
  <2>1. <<b>> \in Seq(Multitask!Blocks) /\ \A c : In(<<b>>, c) => c = b
    BY FewBlocks
  <2> QED BY <1>1, <2>1, QueueFacts DEF QueueCalm
<1>4. CASE Popped(<<>>) /\ Head(main).do # "initialized"
  <2>1. <<>> \in Seq(Multitask!Blocks) /\ \A c : ~In(<<>>, c)
    BY DEF In
  <2> QED BY <1>1, <1>4, <2>1, QueueFacts DEF QueueCalm
<1> QED BY <1>2, <1>3, <1>4

\* Who waits goes on waiting, and nobody begins to.
AwaitStays ==
    \A t \in Tasks : /\ call'[t].pc = "await" <=> call[t].pc = "await"
                     /\ call[t].pc = "await" => call'[t].multitask = call[t].multitask

LEMMA NamedBlocks ==
  /\ \A w \in Multitask!Windows, do \in {"dockAdd", "initialized", "failed", "cleanUp"} :
       /\ Multitask!Block(do, w) \in Multitask!Blocks
       /\ Multitask!Block(do, w).do = do
  /\ \A t \in Tasks, do \in {"create", "bring"} :
       /\ Multitask!Block(do, t) \in Multitask!Blocks
       /\ Multitask!Block(do, t).do = do
  BY BlocksTyped DEF Multitask!Block

LEMMA WaitCalm ==
  ASSUME RunInv, WaitInv, QueueCalm, AwaitStays, UNCHANGED win
  PROVE  WaitInv' /\ \A w \in Multitask!Windows : Unresolved(w)' <=> Unresolved(w)
<1>1. \A w \in Multitask!Windows :
        /\ Unresolved(w)' <=> Unresolved(w)
        /\ Unresolved(w) => win[w].opener \in Tasks
  BY NamedBlocks, UnresolvedOpened DEF QueueCalm, Unresolved
<1>2. OrderInv'
  BY <1>1, NamedBlocks DEF WaitInv, OrderInv, QueueCalm
<1>3. AwaitInv'
  <2>1. \A t \in Tasks : InMain(Multitask!Block("create", t))' =>
          /\ InMain(Multitask!Block("create", t))
          /\ Once(main, Multitask!Block("create", t)) => Once(main, Multitask!Block("create", t))'
    BY NamedBlocks DEF QueueCalm
  <2> QED BY <1>1, <2>1 DEF WaitInv, AwaitInv, AwaitStays
<1> QED BY <1>1, <1>2, <1>3 DEF WaitInv

\* A window and its guest go on; a guest that starts has its identifier handed over later.
LEMMA WaitGoes ==
  ASSUME RunInv, WaitInv, NEW w \in Multitask!Windows, Goes(w), UNCHANGED call
  PROVE  /\ WaitInv' /\ \A v \in Multitask!Windows : Unresolved(v)' <=> Unresolved(v)
         /\ \A t \in Tasks : InMain(Multitask!Block("create", t))' <=> InMain(Multitask!Block("create", t))
<1>1. main \in Seq(Multitask!Blocks)
  BY TypeParts, WindowTypeParts DEF RunInv, QueueTypes
<1>2. \A v \in Multitask!Windows :
        win'[v].opener = win[v].opener /\ (v # w => win'[v] = win[v])
  BY DEF Goes, Changes
<1>3. PICK blocks :
        /\ Sends(w, blocks)
        /\ \A v \in Multitask!Windows : In(blocks, Multitask!Block("initialized", v)) =>
             v = w /\ Multitask!GuestStarts(w)
  BY DEF Goes
<1>4. /\ \A b \in Multitask!Blocks : InMain(b)' => InMain(b) \/ In(blocks, b)
      /\ \A b \in Multitask!Blocks : b.do \in {"dockAdd", "create"} =>
           ~In(blocks, b) /\ (InMain(b)' <=> InMain(b))
      /\ \A b \in Multitask!Blocks : b.do = "initialized" /\ InMain(b) => InMain(b)'
      /\ \A b, c : Precedes(main, b, c) /\ ~In(blocks, b) => Precedes(main, b, c)'
      /\ \A b \in Multitask!Blocks : Once(main, b) /\ ~In(blocks, b) => Once(main, b)'
  BY <1>1, <1>3, SendsFacts DEF Sends
<1>5. PICK i \in Multitask!Blocks : i = Multitask!Block("initialized", w) /\ i.do = "initialized"
  BY NamedBlocks
<1>6. Multitask!GuestStarts(w) =>
        Starting(w) /\ win'[w].guest = "started" /\ InMain(i)' /\ Once(main', i)
  <2> SUFFICES ASSUME Multitask!GuestStarts(w)
               PROVE  Starting(w) /\ win'[w].guest = "started" /\ InMain(i)' /\ Once(main', i)
    OBVIOUS
  <2>1. Starting(w) /\ Multitask!Dispatch(<<i>>)
    BY <1>5 DEF Multitask!GuestStarts, Starting
  <2>2. win'[w].guest = "started"
    BY TypeParts, WindowTypeParts DEF Multitask!GuestStarts, RunInv, WindowTypes, WindowRecord
  <2>3. ~InMain(i)
    BY <1>5, <2>1 DEF WaitInv, OrderInv, Starting
  <2>4. Once(main', i)
    BY <1>1, <2>1, <2>3, OnceDispatched
  <2>5. InMain(i)'
    <3>1. <<i>> \in Seq(Multitask!Blocks) /\ In(<<i>>, i)
      BY DEF In
    <3> QED BY <1>1, <2>1, <3>1, QueueFacts
  <2> QED BY <2>1, <2>2, <2>4, <2>5
<1>7. ASSUME NEW v \in Multitask!Windows
      PROVE  /\ Unresolved(v)' <=> Unresolved(v)
             /\ InMain(Multitask!Block("initialized", v))' =>
                  win'[v].guest \in {"started", "running", "dead"}
             /\ Once(main, Multitask!Block("initialized", v))'
  <2>1. PICK b \in Multitask!Blocks : b = Multitask!Block("initialized", v) /\ b.do = "initialized"
    BY NamedBlocks
  <2>2. InMain(b) => win[v].guest \in {"started", "running", "dead"}
    BY <2>1 DEF WaitInv, OrderInv
  <2>3. Once(main, b)
    BY <2>1 DEF WaitInv, OrderInv
  <2>4. CASE v # w
    BY <1>2, <1>3, <1>4, <2>1, <2>2, <2>3, <2>4 DEF Unresolved
  <2>5. CASE v = w /\ Multitask!GuestStarts(w)
    BY <1>5, <1>6, <2>1, <2>5 DEF Unresolved, Starting
  <2>6. CASE v = w /\ ~Multitask!GuestStarts(w)
    <3>1. InMain(b)' <=> InMain(b)
      BY <1>3, <1>4, <2>1, <2>6
    <3>2. \/ win'[w].guest = win[w].guest
          \/ Starting(w) /\ win'[w].guest = "failed"
          \/ Multitask!Alive(w) /\ win'[w].guest \in {"running", "dead"}
      BY <2>6 DEF Goes
    <3> QED BY <1>3, <1>4, <2>1, <2>2, <2>3, <2>6, <3>1, <3>2 DEF Unresolved, Starting, Multitask!Alive
  <2> QED BY <2>4, <2>5, <2>6
<1>8. OrderInv'
  <2>1. \A v \in Multitask!Windows :
          /\ Precedes(main, Multitask!Block("dockAdd", v), Multitask!Block("initialized", v))'
          /\ InMain(Multitask!Block("dockAdd", v))' => InMain(Multitask!Block("dockAdd", v))
    BY <1>4, NamedBlocks DEF WaitInv, OrderInv
  <2> QED BY <1>7, <2>1 DEF WaitInv, OrderInv
<1>9. \A t \in Tasks :
        /\ InMain(Multitask!Block("create", t))' <=> InMain(Multitask!Block("create", t))
        /\ Once(main, Multitask!Block("create", t)) => Once(main, Multitask!Block("create", t))'
  BY <1>4, NamedBlocks
<1>10. AwaitInv'
  BY <1>2, <1>7, <1>9 DEF WaitInv, AwaitInv
<1> QED BY <1>7, <1>8, <1>9, <1>10 DEF WaitInv

\* A call that has dispatched the making of its window waits, and has no window yet.
LEMMA WaitLaunch ==
  ASSUME RunInv, WaitInv, NEW t \in Tasks, LaunchWindow(t)
  PROVE  /\ WaitInv'
         /\ \A w \in Multitask!Windows : /\ Unresolved(w)' <=> Unresolved(w)
                                         /\ Unresolved(w) => win[w].opener # t
         /\ \A u \in Tasks \ {t} :
              InMain(Multitask!Block("create", u))' <=> InMain(Multitask!Block("create", u))
<1>1. main \in Seq(Multitask!Blocks) /\ call \in [Tasks -> CallRecord]
  BY TypeParts, WindowTypeParts DEF RunInv, QueueTypes, CallTypeOK
<1>2. PICK c \in Multitask!Blocks : c = Multitask!Block("create", t) /\ c.do = "create"
  BY NamedBlocks
<1>3. Multitask!Dispatch(<<c>>) /\ win' = win /\ call[t].pc = "launch" /\ call[t].multitask
  BY <1>2 DEF LaunchWindow, At
<1>4. /\ \A b : InMain(b)' <=> InMain(b) \/ b = c
      /\ \A b, d : Precedes(main, b, d) /\ b # c => Precedes(main, b, d)'
      /\ \A b \in Multitask!Blocks : Once(main, b) /\ b # c => Once(main, b)'
  <2>1. <<c>> \in Seq(Multitask!Blocks) /\ \A b : In(<<c>>, b) <=> b = c
    BY DEF In
  <2> QED BY <1>1, <1>3, <2>1, QueueFacts
<1>5. /\ \A u \in Tasks \ {t} : call'[u] = call[u]
      /\ call'[t].pc = "await" /\ call'[t].multitask = call[t].multitask
  BY <1>1 DEF LaunchWindow, CallRecord
<1>6. \A w \in Multitask!Windows, do \in {"dockAdd", "initialized"} : Multitask!Block(do, w) # c
  BY <1>2, NamedBlocks
<1>7. \A w \in Multitask!Windows : /\ Unresolved(w)' <=> Unresolved(w)
                                   /\ Unresolved(w) => win[w].opener \in Tasks \ {t}
  BY <1>3, <1>4, <1>6, UnresolvedOpened DEF Unresolved, WaitInv, AwaitInv
<1>8. OrderInv'
  <2>1. \A w \in Multitask!Windows :
          /\ Once(main, Multitask!Block("initialized", w))'
          /\ Precedes(main, Multitask!Block("dockAdd", w), Multitask!Block("initialized", w))'
    BY <1>4, <1>6, NamedBlocks DEF WaitInv, OrderInv
  <2> QED BY <1>3, <1>4, <1>6, <1>7, <2>1 DEF WaitInv, OrderInv
<1>9. AwaitInv'
  <2>1. ~InMain(c)
    BY <1>2, <1>3 DEF WaitInv, AwaitInv
  <2>2. Once(main', c)
    BY <1>1, <1>3, <2>1, OnceDispatched
  <2>3. ASSUME NEW u \in Tasks, InMain(Multitask!Block("create", u))'
        PROVE  /\ call'[u].pc = "await" /\ Once(main, Multitask!Block("create", u))'
               /\ \A w \in Multitask!Windows : Unresolved(w)' => win'[w].opener # u
    <3>1. CASE u = t
      BY <1>2, <1>3, <1>5, <1>7, <2>2, <3>1
    <3>2. CASE u # t
      <4>1. PICK b \in Multitask!Blocks : b = Multitask!Block("create", u) /\ b # c
        BY <1>2, <3>2, NamedBlocks DEF Multitask!Block
      <4>2. InMain(b)
        BY <1>4, <2>3, <4>1
      <4> QED BY <1>3, <1>4, <1>5, <1>7, <3>2, <4>1, <4>2 DEF WaitInv, AwaitInv
    <3> QED BY <3>1, <3>2
  <2>4. ASSUME NEW w \in Multitask!Windows, Unresolved(w)'
        PROVE  /\ call'[win'[w].opener].pc = "await"
               /\ \A v \in Multitask!Windows :
                    Unresolved(v)' /\ win'[v].opener = win'[w].opener => v = w
    BY <1>3, <1>5, <1>7, <2>4 DEF WaitInv, AwaitInv
  <2>5. \A u \in Tasks : call'[u].pc = "await" => call'[u].multitask
    BY <1>3, <1>5 DEF WaitInv, AwaitInv
  <2> QED BY <2>3, <2>4, <2>5 DEF AwaitInv
<1>10. \A u \in Tasks \ {t} : Multitask!Block("create", u) # c
  BY <1>2 DEF Multitask!Block
<1> QED BY <1>4, <1>7, <1>8, <1>9, <1>10 DEF WaitInv

LEMMA PoppedFacts ==
  ASSUME main \in Seq(Multitask!Blocks), Popped(<<>>)
  PROVE  /\ \A b : InMain(b)' => InMain(b)
         /\ \A b : InMain(b) /\ b # Head(main) => InMain(b)'
         /\ \A b, c : Precedes(main, b, c) => Precedes(main, b, c)'
         /\ \A b \in Multitask!Blocks : Once(main, b) => Once(main, b)'
         /\ Once(main, Head(main)) => ~In(main', Head(main))
         /\ InMain(Head(main))
         /\ \A b : Precedes(main, b, Head(main)) => ~InMain(b)
<1>1. <<>> \in Seq(Multitask!Blocks) /\ \A b : ~In(<<>>, b)
  BY DEF In
<1> QED BY <1>1, QueueFacts, ServedFacts

\* The window comes to be of the call whose block is served: it is awaited from now on.
LEMMA WaitOpen ==
  ASSUME RunInv, WaitInv, NEW t \in Tasks, NEW w \in Multitask!Windows, OpenWindow(t, w)
  PROVE  /\ WaitInv' /\ call[t].pc = "await"
         /\ InMain(Multitask!Block("create", t)) /\ ~InMain(Multitask!Block("create", t))'
         /\ \A u \in Tasks :
              InMain(Multitask!Block("create", u))' => InMain(Multitask!Block("create", u))
         /\ \A v \in Multitask!Windows \ {w} : Unresolved(v)' <=> Unresolved(v)
<1>1. main \in Seq(Multitask!Blocks)
  BY TypeParts, WindowTypeParts DEF RunInv, QueueTypes
<1>2. PICK a \in Apps, c \in Apps, blocks \in Seq(Multitask!Blocks) :
        /\ Creates(t, w, a, c) /\ win[w] = Multitask!NoWindow
        /\ Popped(blocks) /\ Head(main) = Multitask!Block("create", t)
        /\ \A b : In(blocks, b) => b = Multitask!Block("dockAdd", w)
        /\ UNCHANGED call
  BY OpenShape
<1>3. PICK h \in Multitask!Blocks : h = Multitask!Block("create", t) /\ h.do = "create"
  BY NamedBlocks
<1>4. PICK d \in Multitask!Blocks : d = Multitask!Block("dockAdd", w) /\ d.do = "dockAdd"
  BY NamedBlocks
<1>5. /\ \A b : InMain(b)' => InMain(b) \/ b = d
      /\ \A b : InMain(b) /\ b # h => InMain(b)'
      /\ \A b, e : Precedes(main, b, e) /\ b # d => Precedes(main, b, e)'
      /\ \A b \in Multitask!Blocks : Once(main, b) /\ b # d => Once(main, b)'
      /\ InMain(h)
      /\ Once(main, h) => ~In(main', h)
  <2>1. ~In(blocks, h)
    BY <1>2, <1>3, <1>4
  <2> QED BY <1>1, <1>2, <1>3, <1>4, <2>1, QueueFacts, ServedFacts
<1>6. /\ call[t].pc = "await" /\ ~In(main', h)
      /\ \A v \in Multitask!Windows : Unresolved(v) => win[v].opener # t
  BY <1>3, <1>5 DEF WaitInv, AwaitInv
<1>7. ~Unresolved(w)
  <2>1. win[w].view = "none" /\ win[w].guest = "none"
    BY <1>2 DEF Multitask!NoWindow
  <2> QED BY <2>1, UnresolvedOpened
<1>8. /\ win'[w].opener = t /\ win'[w].guest = "starting"
      /\ \A v \in Multitask!Windows \ {w} :
           win'[v].opener = win[v].opener /\ win'[v].guest = win[v].guest
  BY <1>2 DEF Creates
<1>9. \A v \in Multitask!Windows : LET i == Multitask!Block("initialized", v)
                                   IN  i \in Multitask!Blocks /\ i # h /\ i # d
  BY <1>3, <1>4, NamedBlocks
<1>10. \A v \in Multitask!Windows \ {w} : Unresolved(v)' <=> Unresolved(v)
  BY <1>5, <1>8, <1>9 DEF Unresolved
<1>11. Unresolved(w)'
  BY <1>8 DEF Unresolved
<1>12. OrderInv'
  <2> SUFFICES ASSUME NEW v \in Multitask!Windows
               PROVE  /\ Once(main, Multitask!Block("initialized", v))'
                      /\ Precedes(main, Multitask!Block("dockAdd", v), Multitask!Block("initialized", v))'
                      /\ InMain(Multitask!Block("initialized", v))' =>
                           win'[v].guest \in {"started", "running", "dead"}
                      /\ InMain(Multitask!Block("dockAdd", v))' => Unresolved(v)'
    BY DEF OrderInv
  <2>1. PICK i \in Multitask!Blocks : i = Multitask!Block("initialized", v) /\ i # d
    BY <1>9
  <2>2. Once(main', i) /\ (InMain(i)' => InMain(i))
    BY <1>5, <2>1 DEF WaitInv, OrderInv
  <2>3. CASE v = w
    <3>1. ~InMain(i)
      BY <1>7, <2>1, <2>3 DEF Unresolved
    <3>2. Precedes(main', d, i)
      BY <2>2, <3>1 DEF Precedes, InMain, In
    <3> QED BY <1>4, <1>11, <2>1, <2>2, <2>3, <3>1, <3>2
  <2>4. CASE v # w
    <3>1. PICK e \in Multitask!Blocks : e = Multitask!Block("dockAdd", v) /\ e # d
      BY <1>4, <2>4, NamedBlocks DEF Multitask!Block
    <3>2. Precedes(main', e, i)
      BY <1>5, <2>1, <3>1 DEF WaitInv, OrderInv
    <3> QED BY <1>5, <1>8, <1>10, <2>1, <2>2, <2>4, <3>1, <3>2 DEF WaitInv, OrderInv
  <2> QED BY <2>3, <2>4
<1>13. AwaitInv'
  <2>1. ASSUME NEW u \in Tasks, InMain(Multitask!Block("create", u))'
        PROVE  /\ call'[u].pc = "await" /\ Once(main, Multitask!Block("create", u))'
               /\ \A v \in Multitask!Windows : Unresolved(v)' => win'[v].opener # u
    <3>1. PICK b \in Multitask!Blocks : b = Multitask!Block("create", u) /\ b.do = "create"
      BY NamedBlocks
    <3>2. u # t
      BY <1>3, <1>6, <2>1 DEF InMain
    <3>3. InMain(b) /\ b # d
      BY <1>4, <1>5, <2>1, <3>1
    <3> QED BY <1>2, <1>5, <1>8, <1>10, <3>1, <3>2, <3>3 DEF WaitInv, AwaitInv
  <2>2. ASSUME NEW v \in Multitask!Windows, Unresolved(v)'
        PROVE  /\ call'[win'[v].opener].pc = "await"
               /\ \A u \in Multitask!Windows :
                    Unresolved(u)' /\ win'[u].opener = win'[v].opener => u = v
    BY <1>2, <1>6, <1>8, <1>10, <2>2 DEF WaitInv, AwaitInv
  <2>3. \A u \in Tasks : call'[u].pc = "await" => call'[u].multitask
    BY <1>2 DEF WaitInv, AwaitInv
  <2> QED BY <2>1, <2>2, <2>3 DEF AwaitInv
<1>14. \A u \in Tasks : InMain(Multitask!Block("create", u))' => InMain(Multitask!Block("create", u))
  <2>1. \A u \in Tasks : Multitask!Block("create", u) # d
    BY <1>4, NamedBlocks
  <2> QED BY <1>5, <2>1
<1> QED BY <1>3, <1>5, <1>6, <1>10, <1>12, <1>13, <1>14 DEF WaitInv, InMain

\* The identifier is handed to the call that waits for it, which waits no more.
LEMMA WaitPid ==
  ASSUME RunInv, WaitInv, NEW w \in Multitask!Windows, PidAvailable(w)
  PROVE  /\ WaitInv' /\ UNCHANGED win
         /\ \E o \in Tasks :
              /\ o = win[w].opener /\ call[o].pc = "await" /\ call' = [call EXCEPT ![o].pc = "finish"]
              /\ ~InMain(Multitask!Block("create", o))
              /\ \A v \in Multitask!Windows : Unresolved(v)' => Unresolved(v) /\ win[v].opener # o
         /\ \A u \in Tasks :
              InMain(Multitask!Block("create", u))' => InMain(Multitask!Block("create", u))
<1>1. main \in Seq(Multitask!Blocks) /\ call \in [Tasks -> CallRecord]
  BY TypeParts, WindowTypeParts DEF RunInv, QueueTypes, CallTypeOK
<1>2. PICK h \in Multitask!Blocks : h = Multitask!Block("initialized", w) /\ h.do = "initialized"
  BY NamedBlocks
<1>3. /\ Popped(<<>>) /\ Head(main) = h /\ UNCHANGED win
  BY <1>2 DEF PidAvailable, Multitask!Initialized, Multitask!IsHead, Popped
<1>4. /\ InMain(h) /\ Once(main, h) /\ win[w].guest \in {"started", "running", "dead"}
      /\ Precedes(main, Multitask!Block("dockAdd", w), h)
  BY <1>1, <1>2, <1>3, PoppedFacts DEF WaitInv, OrderInv
<1>5. /\ ~In(main', h)
      /\ ~InMain(Multitask!Block("dockAdd", w))
  BY <1>1, <1>3, <1>4, PoppedFacts
<1>6. Unresolved(w) /\ win[w].opener \in Tasks /\ call[win[w].opener].pc = "await"
  BY <1>2, <1>4, UnresolvedOpened DEF Unresolved, WaitInv, AwaitInv
<1>7. PICK o \in Tasks : o = win[w].opener
  BY <1>6
<1>8. call' = [call EXCEPT ![o].pc = "finish"]
  BY <1>6, <1>7 DEF PidAvailable, At, Goto
<1>9. /\ \A u \in Tasks \ {o} : call'[u] = call[u]
      /\ call'[o].pc = "finish"
  BY <1>1, <1>8 DEF CallRecord
<1>10. ~Unresolved(w)'
  BY <1>2, <1>3, <1>4, <1>5 DEF Unresolved, InMain
<1>11. \A v \in Multitask!Windows \ {w} :
         /\ Unresolved(v)' <=> Unresolved(v)
         /\ Unresolved(v) => win[v].opener \in Tasks \ {o}
  <2> SUFFICES ASSUME NEW v \in Multitask!Windows, v # w
               PROVE  /\ Unresolved(v)' <=> Unresolved(v)
                      /\ Unresolved(v) => win[v].opener \in Tasks \ {o}
    OBVIOUS
  <2>1. Multitask!Block("initialized", v) # h
    BY <1>2 DEF Multitask!Block
  <2>2. Unresolved(v)' <=> Unresolved(v)
    BY <1>1, <1>3, <2>1, PoppedFacts DEF Unresolved
  <2> QED BY <1>6, <1>7, <2>2, UnresolvedOpened DEF WaitInv, AwaitInv
<1>12. OrderInv'
  <2>1. \A v \in Multitask!Windows :
          /\ Once(main, Multitask!Block("initialized", v))'
          /\ Precedes(main, Multitask!Block("dockAdd", v), Multitask!Block("initialized", v))'
          /\ InMain(Multitask!Block("initialized", v))' => InMain(Multitask!Block("initialized", v))
          /\ InMain(Multitask!Block("dockAdd", v))' => InMain(Multitask!Block("dockAdd", v))
    BY <1>1, <1>3, PoppedFacts, NamedBlocks DEF WaitInv, OrderInv
  <2> QED BY <1>3, <1>5, <1>11, <2>1 DEF WaitInv, OrderInv
<1>13. AwaitInv'
  <2>1. ASSUME NEW u \in Tasks, InMain(Multitask!Block("create", u))'
        PROVE  /\ call'[u].pc = "await" /\ Once(main, Multitask!Block("create", u))'
               /\ \A v \in Multitask!Windows : Unresolved(v)' => win'[v].opener # u
    <3>1. /\ InMain(Multitask!Block("create", u))
          /\ Once(main, Multitask!Block("create", u)) => Once(main, Multitask!Block("create", u))'
      BY <1>1, <1>3, <2>1, PoppedFacts, NamedBlocks
    <3>2. u # o
      BY <1>6, <1>7, <3>1 DEF WaitInv, AwaitInv
    <3> QED BY <1>3, <1>9, <1>10, <1>11, <3>1, <3>2 DEF WaitInv, AwaitInv
  <2>2. ASSUME NEW v \in Multitask!Windows, Unresolved(v)'
        PROVE  /\ call'[win'[v].opener].pc = "await"
               /\ \A u \in Multitask!Windows :
                    Unresolved(u)' /\ win'[u].opener = win'[v].opener => u = v
    BY <1>3, <1>9, <1>10, <1>11, <2>2 DEF WaitInv, AwaitInv
  <2>3. \A u \in Tasks : call'[u].pc = "await" => call'[u].multitask
    BY <1>9 DEF WaitInv, AwaitInv
  <2> QED BY <2>1, <2>2, <2>3 DEF AwaitInv
<1>14. ~InMain(Multitask!Block("create", o))
  BY <1>6, <1>7 DEF WaitInv, AwaitInv
<1>15. \A u \in Tasks : InMain(Multitask!Block("create", u))' => InMain(Multitask!Block("create", u))
  BY <1>1, <1>3, PoppedFacts
<1>16. \A v \in Multitask!Windows : Unresolved(v)' => Unresolved(v) /\ win[v].opener # o
  BY <1>10, <1>11
<1> QED BY <1>3, <1>6, <1>7, <1>8, <1>12, <1>13, <1>14, <1>15, <1>16 DEF WaitInv

LEMMA WaitRelease ==
  ASSUME RunInv, WaitInv, NEW w \in Multitask!Windows, ReleaseOf(w)
  PROVE  /\ WaitInv' /\ ~Unresolved(w)' /\ ~Unresolved(w)
         /\ \A v \in Multitask!Windows \ {w} : (Unresolved(v)' <=> Unresolved(v)) /\ win'[v] = win[v]
<1>1. WindowTypes
  BY TypeParts, WindowTypeParts DEF RunInv
<1>2. /\ win' = [win EXCEPT ![w] = Multitask!NoWindow] /\ UNCHANGED <<main, call>>
      /\ win[w].guest \in {"failed", "dead"}
      /\ win[w].guest = "failed" => call[win[w].opener].pc # "await"
      /\ \A i \in DOMAIN main :
           main[i] \notin {Multitask!Block(do, w) : do \in {"dockAdd", "initialized", "failed", "cleanUp"}}
  BY DEF ReleaseOf, Multitask!WindowReleased, runVars
<1>3. ~InMain(Multitask!Block("initialized", w)) /\ ~InMain(Multitask!Block("dockAdd", w))
  BY <1>2 DEF InMain, In
<1>4. ~Unresolved(w)
  BY <1>2, <1>3 DEF Unresolved, WaitInv, AwaitInv
<1>5. /\ win'[w] = Multitask!NoWindow /\ win'[w].guest = "none"
      /\ \A v \in Multitask!Windows \ {w} : win'[v] = win[v]
  <2>1. Multitask!NoWindow.guest = "none"
    BY DEF Multitask!NoWindow
  <2> QED BY <1>1, <1>2, <2>1, ReleaseChanges
<1>6. ~Unresolved(w)' /\ \A v \in Multitask!Windows \ {w} : Unresolved(v)' <=> Unresolved(v)
  BY <1>2, <1>3, <1>5 DEF Unresolved, InMain
<1>7. OrderInv'
  <2>1. \A v \in Multitask!Windows, do \in {"dockAdd", "initialized"} :
          InMain(Multitask!Block(do, v))' <=> InMain(Multitask!Block(do, v))
    BY <1>2 DEF InMain
  <2> QED BY <1>2, <1>3, <1>5, <1>6, <2>1 DEF WaitInv, OrderInv
<1>8. AwaitInv'
  <2>1. \A t \in Tasks : InMain(Multitask!Block("create", t))' <=> InMain(Multitask!Block("create", t))
    BY <1>2 DEF InMain
  <2> QED BY <1>2, <1>5, <1>6, <2>1 DEF WaitInv, AwaitInv
<1> QED BY <1>4, <1>5, <1>6, <1>7, <1>8 DEF WaitInv

\* Nobody waits: at the start, and when the process is gone.
LEMMA NothingAwaited ==
  /\ (\A b : ~InMain(b)) /\ (\A w \in Multitask!Windows : win[w] = Multitask!NoWindow)
     /\ (\A t \in Tasks : call[t] = NoRun)
       => WaitInv
  /\ main = <<>> => \A b : ~InMain(b)
<1>1. Multitask!NoWindow.guest = "none" /\ NoRun.pc = "idle"
  BY DEF Multitask!NoWindow, NoRun
<1>2. main = <<>> => \A b : ~InMain(b)
  BY DEF InMain, In
<1>3. ASSUME \A b : ~InMain(b), \A w \in Multitask!Windows : win[w] = Multitask!NoWindow,
             \A t \in Tasks : call[t] = NoRun
      PROVE  WaitInv
  BY <1>1, <1>3 DEF WaitInv, OrderInv, AwaitInv, Unresolved, InMain, In, Once, Precedes
<1> QED BY <1>2, <1>3

LEMMA WaitInit == Init => WaitInv
  BY NothingAwaited DEF Init, Multitask!WindowsInit

LEMMA WaitLost ==
  ASSUME NEW otherError, ProcessEnds(otherError)
  PROVE  WaitInv'
<1>1. /\ main' = <<>> /\ \A w \in Multitask!Windows : win'[w] = Multitask!NoWindow
      /\ \A t \in Tasks : call'[t] = NoRun
  BY DEF ProcessEnds, Multitask!WindowsLost
<1>2. (/\ (\A b : ~InMain(b)) /\ (\A w \in Multitask!Windows : win[w] = Multitask!NoWindow)
          /\ (\A t \in Tasks : call[t] = NoRun)
            => WaitInv
       /\ main = <<>> => \A b : ~InMain(b))'
  BY NothingAwaited, PTL
<1> QED BY <1>1, <1>2

\* A call of runApp begins.
LEMMA StartShape ==
  ASSUME RunInv, NEW t \in Tasks, NEW a \in Apps, NEW multitask \in BOOLEAN,
         NEW key \in (Apps \X Apps) \cup {None}, StartRun(t, a, multitask, key)
  PROVE  /\ call[t].pc = "idle" /\ call'[t].pc \in {"bring", "lock"}
         /\ call'[t].app = a /\ call'[t].multitask = multitask
         /\ multitask => call'[t].pc = "bring"
         /\ \A u \in Tasks \ {t} : call'[u] = call[u]
<1>1. call \in [Tasks -> CallRecord]
  BY TypeParts DEF RunInv, CallTypeOK
<1>2. PICK pc \in {"bring", "lock"} : pc = IF multitask \/ Multitask!IsMultitasking THEN "bring" ELSE "lock"
  OBVIOUS
<1>3. call' = [call EXCEPT ![t] = RunRecord(pc, a, multitask, key)]
  <2>1. call' = [call EXCEPT ![t] = RunRecord(IF multitask \/ Multitask!IsMultitasking THEN "bring" ELSE "lock",
                                              a, multitask, key)]
    BY Zenon DEF StartRun, RunRecord
  <2> QED BY <1>2, <2>1
<1>4. RunRecord(pc, a, multitask, key).multitask = multitask
  BY DEF RunRecord, NoRun
<1>5. call[t].pc = "idle"
  BY DEF StartRun, Free, At
<1> QED BY <1>1, <1>2, <1>3, <1>4, <1>5, NewCall

\* It is told whether there is a window of its app.
LEMMA BringShape ==
  ASSUME RunInv, NEW t \in Tasks, BringExisting(t)
  PROVE  /\ call[t].pc = "bring"
         /\ \A u \in Tasks \ {t} : call'[u] = call[u]
         /\ \/ call'[t].pc = "idle"
            \/ /\ call'[t].pc = "lock" /\ ~Multitask!InDock(call[t].app)
               /\ call'[t].app = call[t].app /\ call'[t].multitask = call[t].multitask
<1>1. call \in [Tasks -> CallRecord]
  BY TypeParts DEF RunInv, CallTypeOK
<1>2. Return(t) \/ (Goto(t, "lock") /\ ~Multitask!InDock(call[t].app))
  BY DEF BringExisting, App
<1> QED BY <1>1, <1>2, BringBrings, NoRunOK DEF Return, Goto, CallRecord

\* The steps that leave windows, what waits in the queue and who waits as they are.
CalmStep ==
    \/ QuietStep
    \/ \E t \in Tasks : StartStepOf(t) \/ BringExisting(t)
    \/ \E w \in Multitask!Windows : DockStep("dockAdd", w)
    \/ \E a \in Apps : DockStep("dockRemove", a)

LEMMA CalmSteps ==
  ASSUME RunInv, CalmStep
  PROVE  QueueCalm /\ AwaitStays /\ UNCHANGED win
<1>1. CASE QuietStep
  <2>1. UNCHANGED win /\ QueueCalm
    BY <1>1, CalmQueue DEF QuietStep
  <2> QED BY <1>1, <2>1, CallActShape DEF QuietStep, CallShape, AwaitStays
<1>2. CASE \E t \in Tasks : StartStepOf(t)
  <2> PICK t \in Tasks, a \in Apps, multitask \in BOOLEAN, key \in (Apps \X Apps) \cup {None} :
         StartRun(t, a, multitask, key)
    BY <1>2 DEF StartStepOf
  <2>1. AwaitStays
    BY StartShape DEF AwaitStays
  <2>2. PICK b \in Multitask!Blocks : b = Multitask!Block("bring", t) /\ b.do = "bring"
    BY NamedBlocks
  <2>3. main' = main \/ Multitask!Dispatch(<<b>>)
    <3>1. main \in Seq(Multitask!Blocks)
      BY TypeParts, WindowTypeParts DEF RunInv, QueueTypes
    <3>2. main' = main \/ main' = Append(main, b)
      BY <2>2 DEF StartRun
    <3> QED BY <3>1, <3>2, QueueTyped DEF Multitask!Dispatch
  <2> QED BY <2>1, <2>2, <2>3, CalmQueue DEF StartRun
<1>3. CASE \E t \in Tasks : BringExisting(t)
  <2> PICK t \in Tasks : BringExisting(t)
    BY <1>3
  <2>1. AwaitStays
    BY BringShape DEF AwaitStays
  <2>2. Popped(<<>>) /\ Head(main).do # "initialized" /\ UNCHANGED win
    BY DEF BringExisting, Multitask!IsHead, Popped, Multitask!Block
  <2> QED BY <2>1, <2>2, CalmQueue
<1>4. CASE \/ \E w \in Multitask!Windows : DockStep("dockAdd", w)
           \/ \E a \in Apps : DockStep("dockRemove", a)
  <2>1. Popped(<<>>) /\ Head(main).do # "initialized" /\ UNCHANGED <<win, call>>
    BY <1>4 DEF DockStep, Multitask!IsHead, Popped, Multitask!Block
  <2> QED BY <2>1, CalmQueue DEF AwaitStays
<1> QED BY <1>1, <1>2, <1>3, <1>4 DEF CalmStep

LEMMA StepKinds ==
  ASSUME RunInv, [Next]_vars
  PROVE  \/ CalmStep
         \/ \E t \in Tasks : LaunchWindow(t)
         \/ \E t \in Tasks, w \in Multitask!Windows : OpenWindow(t, w)
         \/ \E w \in Multitask!Windows : PidAvailable(w)
         \/ \E w \in Multitask!Windows : WindowStepOf(w) \/ ReleaseOf(w)
         \/ \E otherError \in BOOLEAN : ProcessEnds(otherError)
  BY StepCases DEF CalmStep

LEMMA WaitStep == RunInv /\ ReachInv /\ WaitInv /\ [Next]_vars => WaitInv'
<1> SUFFICES ASSUME RunInv, ReachInv, WaitInv, [Next]_vars PROVE WaitInv'
  OBVIOUS
<1>1. CASE CalmStep
  BY <1>1, CalmSteps, WaitCalm
<1>2. CASE \E t \in Tasks : LaunchWindow(t)
  BY <1>2, WaitLaunch
<1>3. CASE \E t \in Tasks, w \in Multitask!Windows : OpenWindow(t, w)
  BY <1>3, WaitOpen
<1>4. CASE \E w \in Multitask!Windows : PidAvailable(w)
  BY <1>4, WaitPid
<1>5. CASE \E w \in Multitask!Windows : WindowStepOf(w)
  BY <1>5, WindowGoes, WaitGoes DEF WindowStepOf, ReachInv, runVars
<1>6. CASE \E w \in Multitask!Windows : ReleaseOf(w)
  BY <1>6, WaitRelease
<1>7. CASE \E otherError \in BOOLEAN : ProcessEnds(otherError)
  BY <1>7, WaitLost
<1> QED BY <1>1, <1>2, <1>3, <1>4, <1>5, <1>6, <1>7, StepKinds

LEMMA WaitHolds == Spec => []WaitInv
BY WaitInit, WaitStep, RunInvHolds, ReachHolds, PTL DEF Spec

(***************************************************************************)
(* What a call takes through the defaults is its own app, unless two were   *)
(* there at once.                                                           *)
(***************************************************************************)
HasBox(t) == call[t].pc \in {"container", "launch"}

BoxInv ==
    /\ \A t, u \in Tasks : HasBox(t) /\ HasBox(u) => t = u
    /\ \A t \in Tasks :
         /\ HasBox(t) => box.selected = call[t].app
         /\ call[t].pc = "launch" => box.container = call[t].app
         /\ call[t].pc = "await" => /\ call[t].taken.selected = call[t].app
                                    /\ call[t].taken.container = call[t].app
PairInv ==
    \A w \in Multitask!Windows :
        /\ win[w].app = win[w].container
        /\ Unresolved(w) => win[w].app = call[win[w].opener].app

PassingInv == ~mixed => BoxInv /\ PairInv

\* Calls with the box, and calls that wait, are let alone.
BoxCalm ==
    /\ \A t \in Tasks : HasBox(t)' \/ call'[t].pc = "await" => call'[t] = call[t]
    /\ \A t \in Tasks : call[t].pc = "await" => call'[t] = call[t]
    /\ UNCHANGED <<box, mixed>>

LEMMA BoxStays ==
  ASSUME PassingInv, BoxCalm, ~mixed
  PROVE  BoxInv'
  BY DEF PassingInv, BoxCalm, BoxInv, HasBox

LEMMA PairStays ==
  ASSUME RunInv, WaitInv, PassingInv, ~mixed, \A t \in Tasks : call[t].pc = "await" => call'[t].app = call[t].app,
         UNCHANGED win, \A w \in Multitask!Windows : Unresolved(w)' => Unresolved(w)
  PROVE  PairInv'
<1>1. \A w \in Multitask!Windows : Unresolved(w) => win[w].opener \in Tasks /\ call[win[w].opener].pc = "await"
  BY UnresolvedOpened DEF WaitInv, AwaitInv
<1> QED BY <1>1 DEF PassingInv, PairInv

LEMMA PassingCalm ==
  ASSUME RunInv, WaitInv, PassingInv, CalmStep
  PROVE  PassingInv'
<1>1. /\ UNCHANGED win /\ (\A w \in Multitask!Windows : Unresolved(w)' <=> Unresolved(w))
      /\ call \in [Tasks -> CallRecord]
      /\ box \in [selected : Apps \cup {None}, container : Apps \cup {None}]
  BY CalmSteps, WaitCalm, TypeParts DEF RunInv, CallTypeOK
<1> SUFFICES ASSUME ~mixed'
             PROVE  BoxInv' /\ PairInv'
  BY DEF PassingInv
<1>2. CASE BoxCalm
  <2>1. ~mixed
    BY <1>2 DEF BoxCalm
  <2> QED BY <1>1, <1>2, <2>1, BoxStays, PairStays DEF BoxCalm
<1>3. CASE \E t \in Tasks : (SetSelected(t) \/ SetContainer(t)) /\ CallShape(t)
  <2> PICK t \in Tasks : (SetSelected(t) \/ SetContainer(t)) /\ CallShape(t)
    BY <1>3
  <2>1. ~mixed /\ call[t].pc # "await"
    <3>1. mixed' = (mixed \/ \E u \in Tasks : HasBox(u)) \/ mixed' = mixed
      BY DEF SetSelected, SetContainer, HasBox
    <3>2. ~mixed
      BY <3>1, Zenon
    <3> QED BY <3>2 DEF SetSelected, SetContainer, At
  <2>2. \A u \in Tasks \ {t} : call'[u] = call[u]
    BY DEF CallShape
  <2>3. call'[t].app = call[t].app /\ call'[t].pc \in {"container", "launch"}
    <3>1. Goto(t, "container") \/ Goto(t, "launch")
      BY DEF SetSelected, SetContainer
    <3> QED BY <1>1, <3>1 DEF Goto, CallRecord
  <2>4. PairInv'
    BY <1>1, <2>1, <2>2, PairStays
  <2>5. CASE SetSelected(t)
    <3>1. /\ box'.selected = call[t].app /\ call'[t].pc = "container"
          /\ \A u \in Tasks : ~HasBox(u)
      BY <1>1, <2>5 DEF SetSelected, App, Goto, CallRecord, HasBox
    <3> QED BY <2>1, <2>2, <2>3, <2>4, <3>1 DEF BoxInv, HasBox, PassingInv
  <2>6. CASE SetContainer(t)
    <3>1. /\ box'.container = call[t].app /\ box'.selected = box.selected
          /\ call[t].pc = "container" /\ call'[t].pc = "launch"
      BY <1>1, <2>6 DEF SetContainer, At, App, Goto, CallRecord
    <3>2. \A u \in Tasks \ {t} : ~HasBox(u)
      BY <2>1, <3>1 DEF PassingInv, BoxInv, HasBox
    <3> QED BY <2>1, <2>2, <2>3, <2>4, <3>1, <3>2 DEF BoxInv, HasBox, PassingInv
  <2> QED BY <2>5, <2>6
<1>4. ASSUME NEW t \in Tasks, CallShape(t), ~(SetSelected(t) \/ SetContainer(t))
      PROVE  BoxCalm
  BY <1>4 DEF CallShape, BoxCalm, HasBox
<1>5. CASE QuietStep
  <2>1. CASE UNCHANGED <<call, box, raced, mixed>>
    BY <1>2, <2>1 DEF BoxCalm
  <2>2. CASE \E t \in Tasks : CallAct(t)
    BY <1>2, <1>3, <1>4, <2>2, CallActShape
  <2> QED BY <1>5, <2>1, <2>2 DEF QuietStep
<1>6. CASE \E t \in Tasks : StartStepOf(t) \/ BringExisting(t)
  <2> PICK t \in Tasks : StartStepOf(t) \/ BringExisting(t)
    BY <1>6
  <2>1. UNCHANGED <<box, mixed>>
    BY DEF StartStepOf, StartRun, BringExisting
  <2>2. /\ \A u \in Tasks \ {t} : call'[u] = call[u]
        /\ call[t].pc \in {"idle", "bring"} /\ call'[t].pc \in {"idle", "bring", "lock"}
    BY StartShape, BringShape DEF StartStepOf
  <2> QED BY <1>2, <2>1, <2>2 DEF BoxCalm, HasBox
<1>7. CASE \/ \E w \in Multitask!Windows : DockStep("dockAdd", w)
           \/ \E a \in Apps : DockStep("dockRemove", a)
  BY <1>2, <1>7 DEF DockStep, BoxCalm
<1> QED BY <1>5, <1>6, <1>7 DEF CalmStep

LEMMA PassingLaunch ==
  ASSUME RunInv, WaitInv, PassingInv, NEW t \in Tasks, LaunchWindow(t)
  PROVE  PassingInv'
<1>1. call \in [Tasks -> CallRecord]
  BY TypeParts DEF RunInv, CallTypeOK
<1>2. /\ call[t].pc = "launch" /\ UNCHANGED <<win, mixed>>
      /\ \A u \in Tasks \ {t} : call'[u] = call[u]
      /\ call'[t].pc = "await" /\ call'[t].app = call[t].app /\ call'[t].taken = box
  BY <1>1 DEF LaunchWindow, At, CallRecord
<1> SUFFICES ASSUME ~mixed
             PROVE  BoxInv' /\ PairInv'
  BY <1>2 DEF PassingInv
<1>3. \A u \in Tasks : ~HasBox(u)'
  BY <1>2 DEF PassingInv, BoxInv, HasBox
<1>4. BoxInv'
  BY <1>2, <1>3 DEF PassingInv, BoxInv, HasBox
<1>5. PairInv'
  BY <1>2, WaitLaunch, PairStays
<1> QED BY <1>4, <1>5

LEMMA PassingOpen ==
  ASSUME RunInv, WaitInv, PassingInv, NEW t \in Tasks, NEW w \in Multitask!Windows, OpenWindow(t, w)
  PROVE  PassingInv'
<1>1. PICK a \in Apps, c \in Apps :
        /\ a = call[t].taken.selected /\ c = call[t].taken.container
        /\ Creates(t, w, a, c)
        /\ UNCHANGED <<call, box, mixed>>
  BY OpenShape
<1>2. /\ call[t].pc = "await"
      /\ \A v \in Multitask!Windows \ {w} : Unresolved(v)' <=> Unresolved(v)
  BY WaitOpen
<1> SUFFICES ASSUME ~mixed
             PROVE  BoxInv' /\ PairInv'
  BY <1>1 DEF PassingInv
<1>3. BoxInv'
  BY <1>1, BoxStays DEF BoxCalm
<1>4. PairInv'
  BY <1>1, <1>2 DEF PassingInv, BoxInv, PairInv, Creates
<1> QED BY <1>3, <1>4

LEMMA PassingPid ==
  ASSUME RunInv, WaitInv, PassingInv, NEW w \in Multitask!Windows, PidAvailable(w)
  PROVE  PassingInv'
<1>1. call \in [Tasks -> CallRecord] /\ UNCHANGED <<win, box, mixed>>
  BY TypeParts, WaitPid DEF RunInv, CallTypeOK, PidAvailable
<1>2. PICK o \in Tasks : /\ call[o].pc = "await" /\ call' = [call EXCEPT ![o].pc = "finish"]
                         /\ \A v \in Multitask!Windows : Unresolved(v)' => Unresolved(v) /\ win[v].opener # o
  BY WaitPid
<1>3. /\ \A u \in Tasks \ {o} : call'[u] = call[u]
      /\ call'[o].pc = "finish" /\ call'[o].app = call[o].app
  BY <1>1, <1>2 DEF CallRecord
<1> SUFFICES ASSUME ~mixed
             PROVE  BoxInv' /\ PairInv'
  BY <1>1 DEF PassingInv
<1>4. BoxInv'
  BY <1>1, <1>3 DEF PassingInv, BoxInv, HasBox
<1>5. PairInv'
  BY <1>1, <1>2, <1>3, PairStays
<1> QED BY <1>4, <1>5

LEMMA PassingGoes ==
  ASSUME RunInv, WaitInv, PassingInv, NEW w \in Multitask!Windows, Goes(w), UNCHANGED runVars
  PROVE  PassingInv'
<1>1. UNCHANGED <<call, box, mixed>>
  BY DEF runVars
<1>2. \A v \in Multitask!Windows :
        /\ win'[v].app = win[v].app /\ win'[v].container = win[v].container
        /\ win'[v].opener = win[v].opener
        /\ Unresolved(v)' <=> Unresolved(v)
  BY <1>1, WaitGoes DEF Goes, Changes
<1>3. ~mixed => BoxInv'
  BY <1>1, BoxStays DEF BoxCalm
<1> QED BY <1>1, <1>2, <1>3 DEF PassingInv, PairInv

LEMMA PassingRelease ==
  ASSUME RunInv, WaitInv, PassingInv, NEW w \in Multitask!Windows, ReleaseOf(w)
  PROVE  PassingInv'
<1>1. UNCHANGED <<call, box, mixed>>
  BY DEF ReleaseOf, runVars
<1>2. win'[w].app = win'[w].container
  <2>1. Multitask!NoWindow.app = Multitask!NoWindow.container
    BY DEF Multitask!NoWindow
  <2>2. win'[w] = Multitask!NoWindow
    BY TypeParts, WindowTypeParts, ReleaseChanges DEF RunInv, ReleaseOf, Multitask!WindowReleased
  <2> QED BY <2>1, <2>2
<1>3. ~mixed => BoxInv'
  BY <1>1, BoxStays DEF BoxCalm
<1> QED BY <1>1, <1>2, <1>3, WaitRelease DEF PassingInv, PairInv

LEMMA NothingPassed ==
  ASSUME \A b : ~InMain(b), \A w \in Multitask!Windows : win[w] = Multitask!NoWindow,
         \A t \in Tasks : call[t] = NoRun
  PROVE  PassingInv
<1>1. /\ NoRun.pc = "idle" /\ Multitask!NoWindow.app = Multitask!NoWindow.container
      /\ Multitask!NoWindow.guest = "none"
  BY DEF NoRun, Multitask!NoWindow
<1>2. BoxInv
  BY <1>1 DEF BoxInv, HasBox
<1>3. PairInv
  BY <1>1 DEF PairInv, Unresolved
<1> QED BY <1>2, <1>3 DEF PassingInv

LEMMA PassingInit == Init => PassingInv
  BY NothingAwaited, NothingPassed DEF Init, Multitask!WindowsInit

\* What the end of the process leaves.
LEMMA Lost ==
  ASSUME NEW otherError, ProcessEnds(otherError)
  PROVE  /\ \A b : ~InMain(b)'
         /\ \A w \in Multitask!Windows : win'[w] = Multitask!NoWindow
         /\ \A t \in Tasks : call'[t] = NoRun
  BY DEF ProcessEnds, Multitask!WindowsLost, InMain, In

LEMMA PassingLost ==
  ASSUME NEW otherError, ProcessEnds(otherError)
  PROVE  PassingInv'
<1>1. ((\A b : ~InMain(b)) /\ (\A w \in Multitask!Windows : win[w] = Multitask!NoWindow)
         /\ (\A t \in Tasks : call[t] = NoRun) => PassingInv)'
  BY NothingPassed, PTL
<1> QED BY <1>1, Lost

LEMMA PassingStep == RunInv /\ ReachInv /\ WaitInv /\ PassingInv /\ [Next]_vars => PassingInv'
<1> SUFFICES ASSUME RunInv, ReachInv, WaitInv, PassingInv, [Next]_vars PROVE PassingInv'
  OBVIOUS
<1>1. CASE CalmStep
  BY <1>1, PassingCalm
<1>2. CASE \E t \in Tasks : LaunchWindow(t)
  BY <1>2, PassingLaunch
<1>3. CASE \E t \in Tasks, w \in Multitask!Windows : OpenWindow(t, w)
  BY <1>3, PassingOpen
<1>4. CASE \E w \in Multitask!Windows : PidAvailable(w)
  BY <1>4, PassingPid
<1>5. CASE \E w \in Multitask!Windows : WindowStepOf(w)
  BY <1>5, WindowGoes, PassingGoes DEF WindowStepOf, ReachInv
<1>6. CASE \E w \in Multitask!Windows : ReleaseOf(w)
  BY <1>6, PassingRelease
<1>7. CASE \E otherError \in BOOLEAN : ProcessEnds(otherError)
  BY <1>7, PassingLost
<1> QED BY <1>1, <1>2, <1>3, <1>4, <1>5, <1>6, <1>7, StepKinds

LEMMA PassingHolds == Spec => []PassingInv
BY PassingInit, PassingStep, RunInvHolds, ReachHolds, WaitHolds, PTL DEF Spec

\* Unless two calls were between selected and the launch at once, a window runs the app of
\* the call that opened it, in that app's container.
THEOREM WindowsArePaired == Spec => []WindowPairs
<1>1. PassingInv => WindowPairs
  BY DEF PassingInv, PairInv, Unresolved, WindowPairs, App, Multitask!Windows
<1> QED BY <1>1, PassingHolds, PTL

(***************************************************************************)
(* One window per container.  Of the calls for an app that did not race,    *)
(* one at most runs it, and it opens no window while there is one on the    *)
(* screen.                                                                  *)
(***************************************************************************)
RunningIt(t, a) == call[t].app = a /\ call[t].pc \notin {"idle", "resign", "install"}
Opening(t) ==
    /\ call[t].multitask
    /\ \/ call[t].pc \in {"lock", "alert", "enter", "signing", "container", "launch"}
       \/ InMain(Multitask!Block("create", t))

AloneInv(a) == \A t, u \in Tasks : RunningIt(t, a) /\ RunningIt(u, a) => t = u
FirstInv(a) ==
    \A w \in Multitask!Windows :
        win[w].container = a /\ Visible(w) =>
            /\ win[w].company # "later"
            /\ win[w].company = "none" => \A t \in Tasks : call[t].app = a => ~Opening(t)

SingleInv == ~mixed => \A a \in Apps \ raced : AloneInv(a) /\ FirstInv(a)

\* The windows of a get no more, and no call for it begins to open one.
SingleCalm(a) ==
    /\ \A t \in Tasks : RunningIt(t, a)' => RunningIt(t, a)
    /\ \A w \in Multitask!Windows :
         win'[w].container = a /\ Visible(w)' =>
           win[w].container = a /\ Visible(w) /\ win'[w].company = win[w].company
    /\ \A t \in Tasks : call'[t].app = a /\ Opening(t)' => call[t].app = a /\ Opening(t)

LEMMA SingleStays ==
  ASSUME NEW a, AloneInv(a), FirstInv(a), SingleCalm(a)
  PROVE  AloneInv(a)' /\ FirstInv(a)'
<1>1. AloneInv(a)'
  BY DEF AloneInv, SingleCalm
<1>2. FirstInv(a)'
  BY DEF FirstInv, SingleCalm
<1> QED BY <1>1, <1>2

LEMMA OpeningRuns ==
  ASSUME WaitInv, NEW t \in Tasks, Opening(t)
  PROVE  RunningIt(t, call[t].app) /\ call[t].pc \notin {"bring", "finish"}
  BY DEF WaitInv, AwaitInv, Opening, RunningIt

LEMMA SameCalls ==
  ASSUME NEW a, UNCHANGED call,
         \A t \in Tasks : InMain(Multitask!Block("create", t))' => InMain(Multitask!Block("create", t))
  PROVE  /\ \A t \in Tasks : RunningIt(t, a)' => RunningIt(t, a)
         /\ \A t \in Tasks : call'[t].app = a /\ Opening(t)' => call[t].app = a /\ Opening(t)
  BY DEF RunningIt, Opening

\* A call that acts by itself was about the app before, and opened a window before.
LEMMA SingleAct ==
  ASSUME RunInv, WaitInv, NEW t \in Tasks, CallAct(t), UNCHANGED <<win, main>>, NEW a
  PROVE  SingleCalm(a) /\ raced' = raced
<1>1. CallShape(t)
  BY CallActShape
<1>2. \A w \in Multitask!Windows : Visible(w)' <=> Visible(w)
  BY DEF Visible, Starting, Multitask!Alive
<1>3. ~InMain(Multitask!Block("create", t)) /\ ~InMain(Multitask!Block("create", t))'
  BY <1>1 DEF CallShape, WaitInv, AwaitInv, InMain
<1>4. \A u \in Tasks \ {t} :
        /\ RunningIt(u, a)' => RunningIt(u, a)
        /\ Opening(u)' => Opening(u)
        /\ call'[u] = call[u]
  BY <1>1 DEF CallShape, RunningIt, Opening, InMain
<1>5. /\ RunningIt(t, a)' => RunningIt(t, a)
      /\ Opening(t)' => Opening(t) /\ call'[t].app = call[t].app
  BY <1>1, <1>3 DEF CallShape, RunningIt, Opening
<1> QED BY <1>1, <1>2, <1>4, <1>5 DEF SingleCalm, CallShape

\* A call begins: it is the only one about its app, unless they race.
LEMMA SingleStart ==
  ASSUME RunInv, WaitInv, NEW t \in Tasks, NEW b \in Apps, NEW multitask \in BOOLEAN,
         NEW key \in (Apps \X Apps) \cup {None}, StartRun(t, b, multitask, key),
         NEW a \in Apps, a \notin raced', AloneInv(a), FirstInv(a)
  PROVE  AloneInv(a)' /\ FirstInv(a)'
<1>1. /\ call[t].pc = "idle" /\ call'[t].pc \in {"bring", "lock"}
      /\ call'[t].app = b /\ call'[t].multitask = multitask
      /\ multitask => call'[t].pc = "bring"
      /\ \A u \in Tasks \ {t} : call'[u] = call[u]
  BY StartShape
<1>2. UNCHANGED win /\ QueueCalm
  BY CalmSteps DEF CalmStep, StartStepOf
<1>3. \A u \in Tasks : InMain(Multitask!Block("create", u))' => InMain(Multitask!Block("create", u))
  BY <1>2, NamedBlocks DEF QueueCalm
<1>4. ~Opening(t)'
  BY <1>1, <1>3 DEF Opening, WaitInv, AwaitInv
<1>5. \A u \in Tasks \ {t} : Opening(u)' => Opening(u)
  BY <1>1, <1>3 DEF Opening
<1>6. a = b => \A u \in Tasks : call[u].app # a
  BY DEF StartRun
<1>7. AloneInv(a)'
  BY <1>1, <1>6 DEF AloneInv, RunningIt
<1>8. \A w \in Multitask!Windows : Visible(w)' <=> Visible(w)
  BY <1>2 DEF Visible, Starting, Multitask!Alive
<1>9. FirstInv(a)'
  BY <1>1, <1>2, <1>4, <1>5, <1>8 DEF FirstInv
<1> QED BY <1>7, <1>9

\* A call that is told there is no window of its app opens one: then there is none, or it
\* is kept from the dock only as long as its own call waits.
LEMMA SingleBring ==
  ASSUME RunInv, ReachInv, WaitInv, PassingInv, ~mixed, NEW t \in Tasks, BringExisting(t),
         NEW a \in Apps, AloneInv(a), FirstInv(a)
  PROVE  AloneInv(a)' /\ FirstInv(a)'
<1>1. /\ call[t].pc = "bring"
      /\ \A u \in Tasks \ {t} : call'[u] = call[u]
      /\ \/ call'[t].pc = "idle"
         \/ /\ call'[t].pc = "lock" /\ ~Multitask!InDock(call[t].app)
            /\ call'[t].app = call[t].app /\ call'[t].multitask = call[t].multitask
  BY BringShape
<1>2. UNCHANGED win /\ QueueCalm
  BY CalmSteps DEF CalmStep
<1>3. \A u \in Tasks : InMain(Multitask!Block("create", u))' => InMain(Multitask!Block("create", u))
  BY <1>2, NamedBlocks DEF QueueCalm
<1>4. ~InMain(Multitask!Block("create", t))'
  BY <1>1, <1>3 DEF WaitInv, AwaitInv
<1>5. \A u \in Tasks \ {t} : Opening(u)' => Opening(u)
  BY <1>1, <1>3 DEF Opening
<1>6. AloneInv(a)'
  BY <1>1 DEF AloneInv, RunningIt
<1>7. \A w \in Multitask!Windows : Visible(w)' <=> Visible(w)
  BY <1>2 DEF Visible, Starting, Multitask!Alive
<1>8. ASSUME NEW w \in Multitask!Windows, win[w].container = a, Visible(w), win[w].company = "none",
             call'[t].app = a, Opening(t)'
      PROVE  FALSE
  <2>1. call'[t].pc = "lock" /\ ~Multitask!InDock(a) /\ call[t].app = a
    BY <1>1, <1>4, <1>8 DEF Opening
  <2>2. InMain(Multitask!Block("dockAdd", w)) \/ w \in dock
    BY <1>8 DEF ReachInv, FoundInv, Found
  <2>3. w \notin dock
    BY <1>8, <2>1 DEF Multitask!InDock
  <2>4. Unresolved(w)
    BY <2>2, <2>3 DEF WaitInv, OrderInv
  <2>5. PICK o \in Tasks : o = win[w].opener /\ call[o].pc = "await" /\ call[o].app = a
    BY <1>8, <2>4, UnresolvedOpened DEF WaitInv, AwaitInv, PassingInv, PairInv
  <2>6. RunningIt(o, a) /\ RunningIt(t, a)
    BY <1>1, <2>1, <2>5 DEF RunningIt
  <2> QED BY <1>1, <2>5, <2>6 DEF AloneInv
<1>9. FirstInv(a)'
  BY <1>2, <1>1, <1>5, <1>7, <1>8 DEF FirstInv
<1> QED BY <1>6, <1>9

LEMMA SingleLaunch ==
  ASSUME RunInv, WaitInv, NEW t \in Tasks, LaunchWindow(t), NEW a
  PROVE  SingleCalm(a) /\ UNCHANGED <<mixed, raced>>
<1>1. call \in [Tasks -> CallRecord]
  BY TypeParts DEF RunInv, CallTypeOK
<1>2. /\ call[t].pc = "launch" /\ call[t].multitask /\ UNCHANGED <<win, mixed, raced>>
      /\ \A u \in Tasks \ {t} : call'[u] = call[u]
      /\ call'[t].pc = "await" /\ call'[t].app = call[t].app
  BY <1>1 DEF LaunchWindow, At, CallRecord
<1>3. \A u \in Tasks \ {t} : Opening(u)' => Opening(u)
  BY <1>2, WaitLaunch DEF Opening
<1>4. Opening(t)
  BY <1>2 DEF Opening
<1>5. \A w \in Multitask!Windows : Visible(w)' <=> Visible(w)
  BY <1>2 DEF Visible, Starting, Multitask!Alive
<1>6. \A u \in Tasks : RunningIt(u, a)' => RunningIt(u, a)
  BY <1>2 DEF RunningIt
<1> QED BY <1>2, <1>3, <1>4, <1>5, <1>6 DEF SingleCalm

\* The window a call opens is alone on the screen with its container.
LEMMA SingleOpen ==
  ASSUME RunInv, WaitInv, PassingInv, ~mixed, NEW t \in Tasks, NEW w \in Multitask!Windows,
         OpenWindow(t, w), NEW a \in Apps, AloneInv(a), FirstInv(a)
  PROVE  AloneInv(a)' /\ FirstInv(a)'
<1>1. PICK b \in Apps, c \in Apps :
        /\ c = call[t].taken.container
        /\ Creates(t, w, b, c)
        /\ UNCHANGED <<call, box, mixed>>
  BY OpenShape
<1>2. /\ call[t].pc = "await"
      /\ InMain(Multitask!Block("create", t)) /\ ~InMain(Multitask!Block("create", t))'
      /\ \A u \in Tasks :
           InMain(Multitask!Block("create", u))' => InMain(Multitask!Block("create", u))
  BY WaitOpen
<1>3. c = call[t].app
  BY <1>1, <1>2 DEF PassingInv, BoxInv
<1>4. Opening(t) /\ ~Opening(t)' /\ RunningIt(t, c)
  BY <1>1, <1>2, <1>3 DEF Opening, WaitInv, AwaitInv, RunningIt
<1>5. /\ \A u \in Tasks : RunningIt(u, a)' => RunningIt(u, a)
      /\ \A u \in Tasks : call'[u].app = a /\ Opening(u)' => call[u].app = a /\ Opening(u)
  BY <1>1, <1>2, SameCalls
<1>6. AloneInv(a)'
  BY <1>5 DEF AloneInv
<1>7. FirstInv(a)'
  <2> SUFFICES ASSUME NEW v \in Multitask!Windows, win'[v].container = a, Visible(v)'
               PROVE  /\ win'[v].company # "later"
                      /\ win'[v].company = "none" => \A u \in Tasks : call'[u].app = a => ~Opening(u)'
    BY DEF FirstInv
  <2>1. CASE v = w
    <3>1. a = c /\ win'[v].company # "later"
      BY <1>1, <2>1 DEF Creates
    <3>2. ASSUME NEW u \in Tasks, call'[u].app = a, Opening(u)'
          PROVE  FALSE
      <4>1. Opening(u) /\ call[u].app = a
        BY <1>5, <3>2
      <4>2. RunningIt(u, a)
        BY <4>1, OpeningRuns
      <4>3. u = t
        BY <1>4, <3>1, <4>2 DEF AloneInv
      <4> QED BY <1>4, <3>2, <4>3
    <3> QED BY <3>1, <3>2
  <2>2. CASE v # w
    <3>1. /\ win[v].container = a /\ Visible(v)
          /\ win'[v].company = IF win[v].container = c /\ win[v].company = "none"
                               THEN "later" ELSE win[v].company
      BY <1>1, <2>2 DEF Creates, Visible, Starting, Multitask!Alive
    <3>2. a = c => win[v].company # "none"
      BY <1>3, <1>4, <3>1 DEF FirstInv
    <3> QED BY <1>5, <3>1, <3>2 DEF FirstInv
  <2> QED BY <2>1, <2>2
<1> QED BY <1>6, <1>7

LEMMA SinglePid ==
  ASSUME RunInv, WaitInv, NEW w \in Multitask!Windows, PidAvailable(w), NEW a
  PROVE  SingleCalm(a) /\ UNCHANGED <<mixed, raced>>
<1>1. call \in [Tasks -> CallRecord] /\ UNCHANGED <<win, mixed, raced>>
  BY TypeParts, WaitPid DEF RunInv, CallTypeOK, PidAvailable
<1>2. PICK o \in Tasks : /\ call[o].pc = "await" /\ call' = [call EXCEPT ![o].pc = "finish"]
                         /\ ~InMain(Multitask!Block("create", o))
                         /\ \A u \in Tasks :
                              InMain(Multitask!Block("create", u))' => InMain(Multitask!Block("create", u))
  BY WaitPid
<1>3. /\ \A u \in Tasks \ {o} : call'[u] = call[u]
      /\ call'[o].pc = "finish" /\ call'[o].app = call[o].app
  BY <1>1, <1>2 DEF CallRecord
<1>4. \A u \in Tasks : RunningIt(u, a)' => RunningIt(u, a)
  BY <1>2, <1>3 DEF RunningIt
<1>5. \A u \in Tasks : Opening(u)' => Opening(u) /\ u # o
  BY <1>2, <1>3 DEF Opening
<1>6. \A v \in Multitask!Windows : Visible(v)' <=> Visible(v)
  BY <1>1 DEF Visible, Starting, Multitask!Alive
<1> QED BY <1>1, <1>3, <1>4, <1>5, <1>6 DEF SingleCalm

LEMMA SingleWindow ==
  ASSUME RunInv, ReachInv, WaitInv, NEW w \in Multitask!Windows,
         WindowStepOf(w) \/ ReleaseOf(w), NEW a \in Apps
  PROVE  SingleCalm(a) /\ UNCHANGED <<mixed, raced>>
<1>1. UNCHANGED <<call, mixed, raced>>
  BY DEF WindowStepOf, ReleaseOf, runVars
<1>2. CASE WindowStepOf(w)
  <2>1. Goes(w)
    BY <1>2, WindowGoes DEF WindowStepOf, ReachInv
  <2>2. \A v \in Multitask!Windows :
          /\ win'[v].container = win[v].container /\ win'[v].company = win[v].company
          /\ Visible(v)' => Visible(v)
    BY <2>1 DEF Goes, Changes, Visible, Starting, Multitask!Alive
  <2>3. \A t \in Tasks : InMain(Multitask!Block("create", t))' => InMain(Multitask!Block("create", t))
    BY <1>1, <2>1, WaitGoes
  <2> QED BY <1>1, <2>2, <2>3, SameCalls DEF SingleCalm
<1>3. CASE ReleaseOf(w)
  <2>1. Multitask!NoWindow.guest = "none"
    BY DEF Multitask!NoWindow
  <2>2. main' = main /\ win'[w] = Multitask!NoWindow
    BY <1>3, TypeParts, WindowTypeParts, ReleaseChanges DEF RunInv, ReleaseOf, Multitask!WindowReleased
  <2>3. ~Visible(w)'
    BY <2>1, <2>2 DEF Visible, Starting, Multitask!Alive
  <2>4. \A v \in Multitask!Windows \ {w} : win'[v] = win[v] /\ (Visible(v)' <=> Visible(v))
    BY <1>3, WaitRelease DEF Visible, Starting, Multitask!Alive
  <2> QED BY <1>1, <2>2, <2>3, <2>4, SameCalls DEF SingleCalm, InMain
<1> QED BY <1>1, <1>2, <1>3

LEMMA NothingSingle ==
  ASSUME \A w \in Multitask!Windows : win[w] = Multitask!NoWindow, \A t \in Tasks : call[t] = NoRun
  PROVE  SingleInv
<1>1. NoRun.app = None /\ Multitask!NoWindow.container = None
  BY DEF NoRun, Multitask!NoWindow
<1> QED BY <1>1, ConstantsAssumption DEF SingleInv, AloneInv, FirstInv, RunningIt

LEMMA SingleInit == Init => SingleInv
  BY NothingSingle DEF Init, Multitask!WindowsInit

LEMMA SingleStep == RunInv /\ ReachInv /\ WaitInv /\ PassingInv /\ SingleInv /\ [Next]_vars => SingleInv'
<1> SUFFICES ASSUME RunInv, ReachInv, WaitInv, PassingInv, SingleInv, [Next]_vars PROVE SingleInv'
  OBVIOUS
<1>1. ASSUME UNCHANGED <<mixed, raced>>, \A a \in Apps : SingleCalm(a)
      PROVE  SingleInv'
  BY <1>1, SingleStays DEF SingleInv
<1>2. CASE QuietStep
  <2>1. CASE UNCHANGED <<call, box, raced, mixed>>
    <3>1. \A w \in Multitask!Windows : Visible(w)' <=> Visible(w)
      BY <1>2 DEF QuietStep, Visible, Starting, Multitask!Alive
    <3>2. \A a \in Apps : SingleCalm(a)
      BY <1>2, <2>1, <3>1, SameCalls DEF SingleCalm, QuietStep, InMain
    <3> QED BY <1>1, <2>1, <3>2
  <2>2. CASE \E t \in Tasks : CallAct(t)
    <3>1. raced' = raced /\ \A a \in Apps : SingleCalm(a)
      BY <1>2, <2>2, SingleAct DEF QuietStep
    <3>2. mixed => mixed'
      <4> PICK t \in Tasks : CallAct(t)
        BY <2>2
      <4>1. mixed' = mixed \/ mixed' = (mixed \/ \E u \in Tasks : HasBox(u))
        BY CallActShape DEF CallShape, SetSelected, SetContainer, HasBox
      <4> QED BY <4>1, Zenon
    <3> QED BY <3>1, <3>2, SingleStays DEF SingleInv
  <2> QED BY <1>2, <2>1, <2>2 DEF QuietStep
<1>3. CASE \E t \in Tasks : StartStepOf(t)
  <2> PICK t \in Tasks, b \in Apps, multitask \in BOOLEAN, key \in (Apps \X Apps) \cup {None} :
         StartRun(t, b, multitask, key)
    BY <1>3 DEF StartStepOf
  <2>1. mixed' = mixed /\ \A a \in Apps : a \in raced => a \in raced'
    BY DEF StartRun
  <2> QED BY <2>1, SingleStart DEF SingleInv
<1>4. CASE \E t \in Tasks : BringExisting(t)
  <2>1. UNCHANGED <<mixed, raced>>
    BY <1>4 DEF BringExisting
  <2> QED BY <1>4, <2>1, SingleBring DEF SingleInv
<1>5. CASE \/ \E w \in Multitask!Windows : DockStep("dockAdd", w)
           \/ \E a \in Apps : DockStep("dockRemove", a)
  <2>1. UNCHANGED <<win, call, mixed, raced>> /\ QueueCalm
    BY <1>5, CalmSteps DEF CalmStep, DockStep
  <2>2. \A t \in Tasks : InMain(Multitask!Block("create", t))' => InMain(Multitask!Block("create", t))
    BY <2>1, NamedBlocks DEF QueueCalm
  <2>3. \A w \in Multitask!Windows : Visible(w)' <=> Visible(w)
    BY <2>1 DEF Visible, Starting, Multitask!Alive
  <2>4. \A a \in Apps : SingleCalm(a)
    BY <2>1, <2>2, <2>3, SameCalls DEF SingleCalm
  <2> QED BY <1>1, <2>1, <2>4
<1>6. CASE \E t \in Tasks : LaunchWindow(t)
  BY <1>1, <1>6, SingleLaunch
<1>7. CASE \E t \in Tasks, w \in Multitask!Windows : OpenWindow(t, w)
  <2>1. UNCHANGED <<mixed, raced>>
    BY <1>7, OpenShape
  <2> QED BY <1>7, <2>1, SingleOpen DEF SingleInv
<1>8. CASE \E w \in Multitask!Windows : PidAvailable(w)
  BY <1>1, <1>8, SinglePid
<1>9. CASE \E w \in Multitask!Windows : WindowStepOf(w) \/ ReleaseOf(w)
  <2> PICK w \in Multitask!Windows : WindowStepOf(w) \/ ReleaseOf(w)
    BY <1>9
  <2>1. \A a \in Apps : SingleCalm(a)
    BY SingleWindow
  <2>2. UNCHANGED <<mixed, raced>>
    BY DEF WindowStepOf, ReleaseOf, runVars
  <2> QED BY <1>1, <2>1, <2>2
<1>10. CASE \E otherError \in BOOLEAN : ProcessEnds(otherError)
  <2>1. ((\A w \in Multitask!Windows : win[w] = Multitask!NoWindow) /\ (\A t \in Tasks : call[t] = NoRun)
           => SingleInv)'
    BY NothingSingle, PTL
  <2> QED BY <1>10, <2>1, Lost
<1> QED BY <1>2, <1>3, <1>4, <1>5, <1>6, <1>7, <1>8, <1>9, <1>10, StepKinds DEF CalmStep

LEMMA SingleHolds == Spec => []SingleInv
BY SingleInit, SingleStep, RunInvHolds, ReachHolds, WaitHolds, PassingHolds, PTL DEF Spec

\* Two guests on the screen share a container only if calls raced or mixed up the defaults,
\* or if both came while an older window of the container had not been cleaned up.
THEOREM OneWindowEach == Spec => []OneWindowPerContainer
<1>1. RunInv /\ ReachInv /\ SingleInv => OneWindowPerContainer
  <2> SUFFICES ASSUME RunInv, ReachInv, SingleInv, ~mixed,
                      NEW v \in Multitask!Windows, NEW w \in Multitask!Windows, v # w,
                      win[v].container = win[w].container, win[v].container \notin raced,
                      Multitask!Alive(v), win[v].view = "shown",
                      Multitask!Alive(w), win[w].view = "shown"
               PROVE  win[v].company = "earlier" /\ win[w].company = "earlier"
    BY DEF OneWindowPerContainer, Multitask!Windows
  <2>1. WindowTypes
    BY TypeParts, WindowTypeParts DEF RunInv
  <2>2. win[v].container \in Apps
    BY <2>1 DEF WindowTypes
  <2>3. win[v].company # "later" /\ win[w].company # "later"
    BY <2>2 DEF SingleInv, FirstInv, Visible
  <2>4. win[v].company # "none" /\ win[w].company # "none"
    BY <2>2 DEF ReachInv, LonelyInv
  <2> QED BY <2>1, <2>3, <2>4 DEF WindowTypes, WindowRecord
<1> QED BY <1>1, RunInvHolds, ReachHolds, SingleHolds, PTL
===============================================================================
