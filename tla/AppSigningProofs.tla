--------------------------- MODULE AppSigningProofs ---------------------------
(***************************************************************************)
(* Every step of AppRun is a step of AppSigning or a stutter of it, and     *)
(* those keep the inductive invariant SigningInv, for every set of apps and *)
(* of tasks.  AppRunProofs draws the conclusions.                           *)
(***************************************************************************)
EXTENDS AppRun, TLAPS

SignTask == [pc : Signing!Steps \cup {"idle", "ok", "failed"}, app : Apps \cup {None},
             needPatch : BOOLEAN, force : BOOLEAN]

(***************************************************************************)
(* Every step of AppRun is one of AppSigning or leaves its variables alone. *)
(***************************************************************************)
\* What the calls are about.
CallsOK ==
    \A t \in Tasks : call[t].pc \notin {"idle"} => call[t].app \in Apps

LEMMA ChosenOnes == Concerned \subseteq Apps /\ Callers \subseteq Tasks
  BY ConstantsAssumption DEF Concerned, Callers

LEMMA SigningSteps ==
  ASSUME CallsOK, Next
  PROVE  Signing!SigningNext \/ UNCHANGED signingVars
<1>1. CASE \E t \in Tasks : TaskProceeds(t)
  <2> PICK t \in Tasks : TaskProceeds(t)
    BY <1>1
  <2>1. CASE CheckLock(t) \/ Declines(t) \/ Accepts(t) \/ SetSelected(t) \/ SetContainer(t)
             \/ LaunchWindow(t) \/ LateReset(t)
    BY <2>1 DEF CheckLock, Declines, Accepts, SetSelected, SetContainer, LaunchWindow, LateReset
  <2>2. CASE Enter(t)
    <3>1. App(t) \in Apps /\ Signing!Begin(t, App(t), FALSE)
      BY <2>2 DEF Enter, CallsOK, At, App
    <3> QED BY <3>1 DEF Signing!SigningNext
  <2>3. CASE SigningProceeds(t)
    BY <2>3 DEF SigningProceeds, Signing!SigningNext, Signing!SigningStep
  <2>4. CASE Finish(t) \/ SigningThrows(t) \/ ExtensionMissing(t) \/ ResignEnds(t) \/ InstallEnds(t)
    BY <2>4 DEF Finish, SigningThrows, ExtensionMissing, ResignEnds, InstallEnds, End, Signing!SigningNext
  <2>5. CASE \E otherError \in BOOLEAN : LaunchGuest(t, otherError)
    BY <2>5 DEF LaunchGuest, ProcessEnds, Signing!SigningNext
  <2> QED BY <2>1, <2>2, <2>3, <2>4, <2>5 DEF TaskProceeds
<1>2. CASE \E t \in Callers, a \in Concerned :
              ForceResign(t, a) \/ InstallApp(t, a) \/ \E multitask \in BOOLEAN : RunApp(t, a, multitask)
  <2> PICK t \in Tasks, a \in Apps :
         ForceResign(t, a) \/ InstallApp(t, a) \/ \E multitask \in BOOLEAN : RunApp(t, a, multitask)
    BY <1>2, ChosenOnes
  <2> QED BY DEF ForceResign, InstallApp, RunApp, StartRun, Signing!SigningNext
<1>3. CASE \E t \in Callers, key \in relaunch : RelaunchApp(t, key)
  BY <1>3 DEF RelaunchApp, StartRun
<1>4. CASE \E key \in relaunch : RelaunchTooSoon(key)
  BY <1>4 DEF RelaunchTooSoon
<1>5. CASE MainProceeds
  <2>1. CASE \E t \in Tasks : BringExisting(t)
    BY <2>1 DEF BringExisting
  <2>2. CASE \E t \in Tasks, w \in 1..MaxWindows : OpenWindow(t, w)
    BY <2>2 DEF OpenWindow
  <2>3. CASE \E t \in Tasks, otherError \in BOOLEAN : OpenNothing(t, otherError)
    BY <2>3 DEF OpenNothing, ProcessEnds, Signing!SigningNext
  <2>4. CASE \E w \in 1..MaxWindows : PidAvailable(w)
    BY <2>4 DEF PidAvailable
  <2> QED BY <1>5, <2>1, <2>2, <2>3, <2>4 DEF MainProceeds
<1>6. CASE \E w \in 1..MaxWindows : GuestProceeds(w) \/ GuestDies(w) \/ UserCloses(w)
  BY <1>6 DEF GuestProceeds, GuestDies, UserCloses
<1>7. CASE \E a \in Concerned : SettingChanges(a)
  BY <1>7, ChosenOnes DEF SettingChanges, Signing!SigningNext
<1>8. CASE \E otherError \in BOOLEAN : Crash(otherError)
  BY <1>8 DEF Crash, ProcessEnds, Signing!SigningNext
<1> QED BY <1>1, <1>2, <1>3, <1>4, <1>5, <1>6, <1>7, <1>8 DEF Next

(***************************************************************************)
(* The inductive invariant of AppSigning.  An app that two calls were about *)
(* at the same time is out of its reach.                                    *)
(***************************************************************************)
Busy(t, a) == sign[t].pc # "idle" /\ sign[t].app = a

OneCall(a) == \A t, u \in Tasks : Busy(t, a) /\ Busy(u, a) => t = u

\* The executable is not where it belongs only in the middle of a call, or after a call
\* that was killed there, which an app that is not patched yet survives.
MissingOnPurpose(a) ==
    exec[a] = None =>
        \/ ~patched[a] \/ a \in stranded
        \/ \E t \in Tasks : sign[t].pc = "move" /\ sign[t].app = a

PatchedFiles(a) ==
    kind[a] = "arm64" /\ patched[a] =>
        /\ exec[a] # None => exec[a].patched
        /\ backup[a] # None => backup[a].patched

\* What a call can rely on where it is.
CallInv(t, a) ==
    /\ sign[t].pc = "remove" => backup[a] # None
    /\ sign[t].pc = "move" => exec[a] = None /\ backup[a] # None
    /\ sign[t].pc = "patch" => exec[a] # None /\ backup[a] = None
    /\ sign[t].pc \in {"decide", "zsign", "signed", "unsigned", "ok"} =>
          exec[a] # None \/ a \in stranded
    /\ sign[t].pc = "ok" /\ certificate # "none" /\ ~dontSign[a] => exec[a] # None /\ exec[a].signed

AppInv(a) ==
    /\ OneCall(a)
    /\ exec[a] # None \/ backup[a] # None
    /\ MissingOnPurpose(a)
    /\ PatchedFiles(a)
    /\ \A t \in Tasks : sign[t].app = a => CallInv(t, a)

FilesInv == \A a \in Apps \ overlapped : AppInv(a)

MarkInv ==
    /\ Signing!MarkIsTrue /\ Signing!SigningIsMarked
    /\ ~contended => \A t, u \in Signing!Working : t = u

SigningInv == Signing!SigningTypeOK /\ FilesInv /\ MarkInv

LEMMA SigningTypeInit == Signing!SigningInit => Signing!SigningTypeOK
<1> SUFFICES ASSUME Signing!SigningInit
             PROVE  Signing!SigningTypeOK
  OBVIOUS
<1>1. Signing!NoCall \in SignTask /\ Signing!NoCall.pc = "idle"
  BY DEF Signing!NoCall, SignTask
<1>2. sign \in [Tasks -> SignTask] /\ \A t \in Tasks : sign[t].pc = "idle"
  BY <1>1 DEF Signing!SigningInit
<1>3. /\ kind \in [Apps -> {"arm64", "32bit"}]
      /\ certificate \in {"none", "missing", "valid", "rejected"}
      /\ dontSign \in [Apps -> BOOLEAN]
      /\ patched \in [Apps -> BOOLEAN] /\ exec \in [Apps -> Signing!Binaries]
      /\ backup = [a \in Apps |-> None]
      /\ mark = FALSE /\ overlapped = {} /\ contended = FALSE /\ owed = FALSE /\ stranded = {}
  BY DEF Signing!SigningInit
<1> QED BY <1>2, <1>3 DEF Signing!SigningTypeOK, SignTask

LEMMA SigningTypeStep ==
  ASSUME Signing!SigningTypeOK, Signing!SigningNext
  PROVE  Signing!SigningTypeOK'
<1> USE ConstantsAssumption DEF Signing!SigningTypeOK, Signing!signingFiles, Signing!signingChosen,
        Signing!SigningHistory
<1>1. CASE \E t \in Tasks : Signing!CallerReturns(t)
  BY <1>1 DEF Signing!CallerReturns, Signing!NoCall
<1>2. CASE \E t \in Tasks, a \in Apps, force \in BOOLEAN : Signing!Begin(t, a, force)
  BY <1>2 DEF Signing!Begin, Signing!At, Signing!Steps
<1>3. CASE \E t \in Tasks, a \in Apps : Signing!Install(t, a)
  BY <1>3 DEF Signing!Install, Signing!At, Signing!Steps, Signing!FreshBinary, Signing!Binaries
<1>4. CASE \E a \in Apps : Signing!RepatchNext(a)
  BY <1>4 DEF Signing!RepatchNext
<1>5. CASE \E otherError \in BOOLEAN : Signing!Restart(otherError)
  <2>1. Signing!NoCall \in SignTask /\ Signing!NoCall.pc = "idle"
    BY DEF Signing!NoCall, SignTask
  <2>2. sign' \in [Tasks -> SignTask] /\ \A t \in Tasks : sign'[t].pc = "idle"
    BY <1>5, <2>1 DEF Signing!Restart
  <2>3. /\ UNCHANGED <<exec, backup, patched, kind, certificate, dontSign, overlapped>>
        /\ contended' = FALSE /\ stranded' \subseteq Apps
        /\ mark' \in BOOLEAN /\ owed' \in BOOLEAN
    BY <1>5 DEF Signing!Restart
  <2> QED BY <2>2, <2>3 DEF SignTask
<1>6. ASSUME NEW t \in Tasks, Signing!SigningStep(t)
      PROVE  Signing!SigningTypeOK'
  <2> USE DEF Signing!At, Signing!Goto, Signing!Runs
  <2>1. CASE Signing!CopyExec(t)
    BY <2>1 DEF Signing!CopyExec, Signing!Steps
  <2>2. CASE Signing!RemoveExec(t)
    BY <2>2 DEF Signing!RemoveExec, Signing!Steps
  <2>3. CASE Signing!MoveBackup(t)
    BY <2>3 DEF Signing!MoveBackup, Signing!Steps
  <2>4. CASE Signing!PatchFails(t)
    <3>1. Signing!PatchedBinary \in Signing!Binaries
      BY DEF Signing!PatchedBinary, Signing!Binaries
    <3>2. exec' = exec \/ exec' = [exec EXCEPT ![sign[t].app] = Signing!PatchedBinary]
      BY <2>4 DEF Signing!PatchFails
    <3>3. exec' \in [Apps -> Signing!Binaries \cup {None}]
      BY <3>1, <3>2
    <3>4. /\ sign' = [sign EXCEPT ![t].pc = "failed"] /\ sign[t].pc = "patch"
          /\ mark' = FALSE /\ owed' = FALSE
          /\ UNCHANGED <<backup, patched, kind, certificate, dontSign, overlapped, contended, stranded>>
      BY <2>4 DEF Signing!PatchFails
    <3> QED BY <3>3, <3>4
  <2>5. CASE Signing!PatchExec(t)
    <3>1. Signing!PatchedBinary \in Signing!Binaries
      BY DEF Signing!PatchedBinary, Signing!Binaries
    <3> QED BY <2>5, <3>1 DEF Signing!PatchExec, Signing!Steps
  <2>6. CASE Signing!Refuse32bit(t)
    BY <2>6 DEF Signing!Refuse32bit, Signing!Steps
  <2>7. CASE Signing!Decide(t)
    BY <2>7 DEF Signing!Decide, Signing!Steps
  <2>8. CASE Signing!ZSigns(t)
    <3>1. exec[sign[t].app] \in Signing!Binaries /\ sign[t].app \in Apps
      BY <2>8 DEF Signing!ZSigns, Signing!Steps
    <3>2. [exec[sign[t].app] EXCEPT !.signed = (certificate = "valid")] \in Signing!Binaries
      BY <3>1 DEF Signing!Binaries
    <3>3. exec' \in [Apps -> Signing!Binaries \cup {None}]
      BY <2>8, <3>1, <3>2 DEF Signing!ZSigns
    <3> QED BY <2>8, <3>3 DEF Signing!ZSigns, Signing!Steps
  <2>9. CASE Signing!ZSignFails(t)
    BY <2>9 DEF Signing!ZSignFails, Signing!Steps
  <2>10. CASE Signing!Report(t)
    <3>1. PICK pc \in {"ok", "failed"} : sign' = [sign EXCEPT ![t].pc = pc]
      BY <2>10, Zenon DEF Signing!Report
    <3>2. /\ sign[t].pc # "idle" /\ mark' = FALSE /\ owed' = FALSE
          /\ UNCHANGED <<exec, backup, patched, kind, certificate, dontSign, overlapped, contended, stranded>>
      BY <2>10 DEF Signing!Report
    <3>3. /\ sign' \in [Tasks -> SignTask]
          /\ \A u \in Tasks : sign'[u].pc # "idle" => sign'[u].app \in Apps
      BY <3>1, <3>2 DEF SignTask
    <3> QED BY <3>2, <3>3 DEF SignTask
  <2> QED BY <1>6, <2>1, <2>2, <2>3, <2>4, <2>5, <2>6, <2>7, <2>8, <2>9, <2>10
           DEF Signing!SigningStep
<1> QED BY <1>1, <1>2, <1>3, <1>4, <1>5, <1>6 DEF Signing!SigningNext

(***************************************************************************)
(* A step leaves the invariant of an app alone that it is not about, and    *)
(* what a call does to its own app is nobody else's business.               *)
(***************************************************************************)
LEMMA OtherApps ==
  ASSUME NEW a \in Apps, AppInv(a), UNCHANGED <<kind, certificate, dontSign>>,
         exec'[a] = exec[a], backup'[a] = backup[a], patched'[a] = patched[a],
         a \in stranded => a \in stranded',
         \A u \in Tasks : Busy(u, a) \/ sign'[u].app = a => sign'[u] = sign[u]
  PROVE  AppInv(a)'
<1>1. OneCall(a)'
  BY DEF AppInv, OneCall, Busy
<1>2. exec'[a] # None \/ backup'[a] # None
  BY DEF AppInv
<1>3. MissingOnPurpose(a)'
  BY DEF AppInv, MissingOnPurpose, Busy
<1>4. PatchedFiles(a)'
  BY DEF AppInv, PatchedFiles
<1>5. ASSUME NEW u \in Tasks, sign'[u].app = a
      PROVE  CallInv(u, a)'
  BY <1>5 DEF AppInv, CallInv
<1> QED BY <1>1, <1>2, <1>3, <1>4, <1>5 DEF AppInv

LEMMA OwnApp ==
  ASSUME NEW t \in Tasks, NEW a \in Apps, Busy(t, a), OneCall(a),
         \A u \in Tasks \ {t} : sign'[u] = sign[u],
         exec'[a] # None \/ backup'[a] # None, MissingOnPurpose(a)', PatchedFiles(a)',
         sign'[t].app = a => CallInv(t, a)'
  PROVE  AppInv(a)'
<1>1. OneCall(a)'
  BY DEF OneCall, Busy
<1>2. ASSUME NEW u \in Tasks, sign'[u].app = a
      PROVE  CallInv(u, a)'
  <2>1. CASE u = t
    BY <1>2, <2>1
  <2>2. CASE u # t
    <3>1. sign'[u].pc = "idle"
      BY <1>2, <2>2 DEF OneCall, Busy
    <3> QED BY <3>1 DEF CallInv
  <2> QED BY <2>1, <2>2
<1> QED BY <1>1, <1>2 DEF AppInv

\* The steps of a call change the files of its app and nothing else.
StepsOf(t) ==
    /\ Busy(t, sign[t].app) /\ sign[t].app \in Apps
    /\ \A u \in Tasks \ {t} : sign'[u] = sign[u]
    /\ sign'[t].app \in {sign[t].app, None}
    /\ \A a \in Apps \ {sign[t].app} :
         /\ exec'[a] = exec[a] /\ backup'[a] = backup[a] /\ patched'[a] = patched[a]
         /\ a \in stranded => a \in stranded'
    /\ UNCHANGED <<kind, certificate, dontSign, overlapped>>

LEMMA CallSteps ==
  ASSUME Signing!SigningTypeOK, NEW t \in Tasks, Signing!SigningStep(t) \/ Signing!CallerReturns(t)
  PROVE  StepsOf(t)
<1> USE DEF Signing!SigningTypeOK, Signing!signingFiles, Signing!signingChosen,
            Signing!SigningHistory, Signing!At, Signing!Goto, Signing!Runs, Signing!Steps,
            StepsOf, Busy
<1>1. CASE Signing!CopyExec(t)
  BY <1>1 DEF Signing!CopyExec
<1>2. CASE Signing!RemoveExec(t)
  BY <1>2 DEF Signing!RemoveExec
<1>3. CASE Signing!MoveBackup(t)
  BY <1>3 DEF Signing!MoveBackup
<1>4. CASE Signing!PatchFails(t)
  BY <1>4 DEF Signing!PatchFails
<1>5. CASE Signing!PatchExec(t)
  BY <1>5 DEF Signing!PatchExec
<1>6. CASE Signing!Refuse32bit(t)
  BY <1>6 DEF Signing!Refuse32bit
<1>7. CASE Signing!Decide(t)
  BY <1>7 DEF Signing!Decide
<1>8. CASE Signing!ZSigns(t)
  BY <1>8 DEF Signing!ZSigns
<1>9. CASE Signing!ZSignFails(t)
  BY <1>9 DEF Signing!ZSignFails
<1>10. CASE Signing!Report(t)
  BY <1>10 DEF Signing!Report
<1>11. CASE Signing!CallerReturns(t)
  BY <1>11 DEF Signing!CallerReturns, Signing!NoCall
<1> QED BY <1>1, <1>2, <1>3, <1>4, <1>5, <1>6, <1>7, <1>8, <1>9, <1>10, <1>11
        DEF Signing!SigningStep

\* The invariant of an app while a call at pc has it for itself.
LocalInv(a, ex, ba, pa, st, pc) ==
    /\ ex # None \/ ba # None
    /\ ex = None => ~pa \/ a \in st \/ pc = "move"
    /\ kind[a] = "arm64" /\ pa =>
         /\ ex # None => ex.patched
         /\ ba # None => ba.patched
    /\ pc = "remove" => ba # None
    /\ pc = "move" => ex = None /\ ba # None
    /\ pc = "patch" => ex # None /\ ba = None
    /\ pc \in {"decide", "zsign", "signed", "unsigned", "ok"} => ex # None \/ a \in st
    /\ pc = "ok" /\ certificate # "none" /\ ~dontSign[a] => ex # None /\ ex.signed

LEMMA LocalView ==
  ASSUME NEW t \in Tasks, NEW a \in Apps, Busy(t, a), AppInv(a)
  PROVE  LocalInv(a, exec[a], backup[a], patched[a], stranded, sign[t].pc)
<1>1. CallInv(t, a) /\ PatchedFiles(a) /\ (exec[a] # None \/ backup[a] # None)
  BY DEF AppInv, Busy
<1>2. exec[a] = None => ~patched[a] \/ a \in stranded \/ sign[t].pc = "move"
  BY DEF AppInv, OneCall, MissingOnPurpose, Busy
<1> QED BY <1>1, <1>2 DEF LocalInv, CallInv, PatchedFiles

LEMMA LocalStep ==
  ASSUME NEW t \in Tasks, NEW a \in Apps, Busy(t, a), AppInv(a), StepsOf(t), sign'[t].app = a,
         LocalInv(a, exec'[a], backup'[a], patched'[a], stranded', sign'[t].pc)
  PROVE  AppInv(a)'
<1>1. UNCHANGED <<kind, certificate, dontSign>> /\ \A u \in Tasks \ {t} : sign'[u] = sign[u]
  BY DEF StepsOf
<1>2. CallInv(t, a)' /\ PatchedFiles(a)' /\ MissingOnPurpose(a)'
  BY <1>1 DEF LocalInv, CallInv, PatchedFiles, MissingOnPurpose
<1>3. OneCall(a) /\ (exec'[a] # None \/ backup'[a] # None)
  BY DEF AppInv, LocalInv
<1> QED BY <1>1, <1>2, <1>3, OwnApp

LEMMA PatchedFacts == Signing!PatchedBinary # None /\ Signing!PatchedBinary.patched
<1>1. Signing!PatchedBinary \in Signing!Binaries
  BY DEF Signing!PatchedBinary, Signing!Binaries
<1>2. Signing!PatchedBinary.patched
  BY DEF Signing!PatchedBinary
<1> QED BY <1>1, <1>2, ConstantsAssumption

LEMMA CallKeepsItsApp ==
  ASSUME Signing!SigningTypeOK, NEW t \in Tasks, NEW a \in Apps, sign[t].app = a, AppInv(a),
         Signing!SigningStep(t) \/ Signing!CallerReturns(t)
  PROVE  AppInv(a)'
<1> USE DEF Signing!At, Signing!Goto, Signing!Runs
<1>1. StepsOf(t) /\ Busy(t, a)
  BY CallSteps DEF StepsOf
<1>2. LocalInv(a, exec[a], backup[a], patched[a], stranded, sign[t].pc)
  BY <1>1, LocalView
<1>3. /\ exec \in [Apps -> Signing!Binaries \cup {None}]
      /\ backup \in [Apps -> Signing!Binaries \cup {None}]
      /\ patched \in [Apps -> BOOLEAN] /\ sign \in [Tasks -> SignTask]
  BY DEF Signing!SigningTypeOK, SignTask
<1> DEFINE Kept == LocalInv(a, exec'[a], backup'[a], patched'[a], stranded', sign'[t].pc)
<1>4. CASE Signing!CallerReturns(t)
  <2>1. /\ sign[t].pc \in {"ok", "failed"} /\ sign'[t].app # a
        /\ UNCHANGED <<exec, backup, patched, kind, stranded>>
    BY <1>4, <1>3, ConstantsAssumption
    DEF Signing!CallerReturns, Signing!signingFiles, Signing!signingChosen, Signing!NoCall
  <2>2. MissingOnPurpose(a)' /\ PatchedFiles(a)'
    BY <1>2, <2>1 DEF LocalInv, MissingOnPurpose, PatchedFiles
  <2>3. OneCall(a) /\ (exec'[a] # None \/ backup'[a] # None)
    BY <2>1 DEF AppInv
  <2> QED BY <1>1, <2>1, <2>2, <2>3, OwnApp DEF StepsOf
<1>5. SUFFICES ASSUME Signing!SigningStep(t)
               PROVE  sign'[t].app = a /\ Kept
  BY <1>1, <1>4, LocalStep
<1>6. CASE Signing!CopyExec(t)
  <2>1. /\ sign'[t].app = a
        /\ sign[t].pc = "copy" /\ sign'[t].pc = "remove" /\ UNCHANGED <<exec, patched, stranded>>
        /\ backup'[a] = IF backup[a] = None THEN exec[a] ELSE backup[a]
    BY <1>6, <1>3 DEF Signing!CopyExec, Signing!signingFiles, SignTask
  <2> QED BY <1>2, <2>1 DEF LocalInv
<1>7. CASE Signing!RemoveExec(t)
  <2>1. /\ sign'[t].app = a
        /\ sign[t].pc = "remove" /\ sign'[t].pc = "move" /\ UNCHANGED <<backup, patched, stranded>>
        /\ exec'[a] = None
    BY <1>7, <1>3 DEF Signing!RemoveExec, Signing!signingFiles, SignTask
  <2> QED BY <1>2, <2>1 DEF LocalInv
<1>8. CASE Signing!MoveBackup(t)
  <2>1. /\ sign'[t].app = a
        /\ sign[t].pc = "move" /\ sign'[t].pc \in {"patch", "decide"} /\ UNCHANGED patched
        /\ exec[a] = None /\ backup[a] # None => exec'[a] = backup[a] /\ backup'[a] = None
    BY <1>8, <1>3 DEF Signing!MoveBackup, Signing!signingFiles, SignTask
  <2> QED BY <1>2, <2>1 DEF LocalInv
<1>9. CASE Signing!PatchFails(t)
  <2>1. /\ sign'[t].app = a
        /\ sign[t].pc = "patch" /\ sign'[t].pc = "failed"
        /\ UNCHANGED <<backup, patched, stranded>>
        /\ exec'[a] = exec[a] \/ exec'[a] = Signing!PatchedBinary
    BY <1>9, <1>3 DEF Signing!PatchFails, SignTask
  <2> QED BY <1>2, <2>1, PatchedFacts DEF LocalInv
<1>10. CASE Signing!PatchExec(t)
  <2>1. /\ sign'[t].app = a
        /\ sign[t].pc = "patch" /\ sign'[t].pc = "decide" /\ UNCHANGED <<backup, stranded>>
        /\ exec'[a] = Signing!PatchedBinary
    BY <1>10, <1>3 DEF Signing!PatchExec, Signing!signingFiles, SignTask
  <2> QED BY <1>2, <2>1, PatchedFacts DEF LocalInv
<1>11. CASE Signing!Refuse32bit(t)
  <2>1. /\ sign'[t].app = a
        /\ exec[a] # None /\ kind[a] = "32bit" /\ sign'[t].pc = "failed"
        /\ UNCHANGED <<exec, backup, stranded>>
    BY <1>11, <1>3 DEF Signing!Refuse32bit, Signing!signingFiles, SignTask
  <2> QED BY <1>2, <2>1 DEF LocalInv
<1>12. CASE Signing!Decide(t)
  <2>1. /\ sign'[t].app = a
        /\ sign[t].pc = "decide" /\ sign'[t].pc \in {"ok", "failed", "zsign"}
        /\ sign'[t].pc = "ok" => certificate = "none" \/ dontSign[a] \/ Signing!SignatureAccepted(a)
        /\ UNCHANGED <<exec, backup, patched, stranded>>
    BY <1>12, <1>3 DEF Signing!Decide, Signing!NothingToSign, Signing!signingFiles, SignTask
  <2> QED BY <1>2, <2>1 DEF LocalInv, Signing!SignatureAccepted
<1>13. CASE Signing!ZSigns(t)
  <2>1. /\ sign'[t].app = a
        /\ sign[t].pc = "zsign" /\ sign'[t].pc = "signed" /\ UNCHANGED <<backup, patched, stranded>>
        /\ exec[a] # None /\ exec'[a] # None /\ exec'[a].patched = exec[a].patched
    BY <1>13, <1>3, ConstantsAssumption
    DEF Signing!ZSigns, Signing!signingFiles, SignTask, Signing!Binaries
  <2> QED BY <1>2, <2>1 DEF LocalInv
<1>14. CASE Signing!ZSignFails(t)
  <2>1. /\ sign'[t].app = a
        /\ sign[t].pc = "zsign" /\ sign'[t].pc = "unsigned"
        /\ UNCHANGED <<exec, backup, patched, stranded>>
    BY <1>14, <1>3 DEF Signing!ZSignFails, Signing!signingFiles, SignTask
  <2> QED BY <1>2, <2>1 DEF LocalInv
<1>15. CASE Signing!Report(t)
  <2>1. /\ sign'[t].app = a
        /\ sign[t].pc \in {"signed", "unsigned"} /\ sign'[t].pc \in {"ok", "failed"}
        /\ sign'[t].pc = "ok" => Signing!SignatureAccepted(a)
        /\ UNCHANGED <<exec, backup, patched, stranded>>
    BY <1>15, <1>3 DEF Signing!Report, Signing!signingFiles, SignTask
  <2> QED BY <1>2, <2>1 DEF LocalInv, Signing!SignatureAccepted
<1> QED BY <1>5, <1>6, <1>7, <1>8, <1>9, <1>10, <1>11, <1>12, <1>13, <1>14, <1>15
        DEF Signing!SigningStep

LEMMA FilesInit == Signing!SigningInit => FilesInv
<1> SUFFICES ASSUME Signing!SigningInit, NEW a \in Apps
             PROVE  AppInv(a)
  BY DEF FilesInv
<1>1. \A t \in Tasks : sign[t].pc = "idle"
  BY DEF Signing!SigningInit, Signing!NoCall
<1>2. exec[a] \in Signing!Binaries /\ backup[a] = None /\ exec[a] # None
  BY ConstantsAssumption DEF Signing!SigningInit
<1>3. PatchedFiles(a)
  BY <1>2 DEF Signing!SigningInit, PatchedFiles
<1> QED BY <1>1, <1>2, <1>3 DEF AppInv, OneCall, Busy, MissingOnPurpose, CallInv

LEMMA FilesStep ==
  ASSUME Signing!SigningTypeOK, FilesInv, Signing!SigningNext
  PROVE  FilesInv'
<1> SUFFICES ASSUME NEW a \in Apps, a \notin overlapped'
             PROVE  AppInv(a)'
  BY DEF FilesInv
<1>1. ASSUME NEW t \in Tasks, Signing!SigningStep(t) \/ Signing!CallerReturns(t)
      PROVE  AppInv(a)'
  <2>1. StepsOf(t)
    BY <1>1, CallSteps
  <2>2. AppInv(a)
    BY <2>1 DEF FilesInv, StepsOf
  <2>3. CASE sign[t].app = a
    BY <1>1, <2>2, <2>3, CallKeepsItsApp
  <2>4. CASE sign[t].app # a
    <3>1. \A u \in Tasks : Busy(u, a) \/ sign'[u].app = a => sign'[u] = sign[u]
      BY <2>1, <2>4, ConstantsAssumption DEF StepsOf, Busy
    <3> QED BY <2>1, <2>2, <2>4, <3>1, OtherApps DEF StepsOf
  <2> QED BY <2>3, <2>4
<1>2. ASSUME NEW t \in Tasks, NEW b \in Apps, NEW force \in BOOLEAN, Signing!Begin(t, b, force)
      PROVE  AppInv(a)'
  <2> USE <1>2 DEF Signing!Begin, Signing!At, Signing!signingFiles, Signing!signingChosen
  <2>1. AppInv(a) /\ (a = b => \A u \in Tasks : ~Busy(u, a))
    BY DEF FilesInv, Busy
  <2>2. /\ sign'[t] = [pc |-> IF force \/ ~patched[b] THEN "copy" ELSE "decide", app |-> b,
                       needPatch |-> ~patched[b], force |-> force \/ ~patched[b]]
        /\ \A u \in Tasks \ {t} : sign'[u] = sign[u]
    BY DEF Signing!SigningTypeOK
  <2>3. CASE a # b
    <3>1. \A u \in Tasks : Busy(u, a) \/ sign'[u].app = a => sign'[u] = sign[u]
      BY <2>2, <2>3 DEF Busy
    <3>2. /\ UNCHANGED <<kind, certificate, dontSign>> /\ stranded' = stranded
          /\ exec'[a] = exec[a] /\ backup'[a] = backup[a] /\ patched'[a] = patched[a]
      OBVIOUS
    <3> QED BY <2>1, <3>1, <3>2, OtherApps
  <2>4. CASE a = b
    <3>1. OneCall(a)' /\ \A u \in Tasks : Busy(u, a)' => u = t
      BY <2>1, <2>2, <2>4 DEF OneCall, Busy
    <3>2. exec[a] = None => ~patched[a] \/ a \in stranded
      BY <2>1, <2>4 DEF AppInv, MissingOnPurpose, Busy
    <3>3. (exec'[a] # None \/ backup'[a] # None) /\ MissingOnPurpose(a)' /\ PatchedFiles(a)'
      BY <2>1, <3>2 DEF AppInv, MissingOnPurpose, PatchedFiles
    <3>4. CallInv(t, a)'
      BY <2>2, <2>4, <3>2 DEF CallInv
    <3>5. ASSUME NEW u \in Tasks \ {t}, sign'[u].app = a
          PROVE  CallInv(u, a)'
      BY <3>1, <3>5 DEF CallInv, Busy
    <3> QED BY <3>1, <3>3, <3>4, <3>5 DEF AppInv
  <2> QED BY <2>3, <2>4
<1>3. ASSUME NEW t \in Tasks, NEW b \in Apps, Signing!Install(t, b)
      PROVE  AppInv(a)'
  <2> USE <1>3 DEF Signing!Install, Signing!At, Signing!signingChosen
  <2>1. /\ sign'[t] = [pc |-> "copy", app |-> b, needPatch |-> TRUE, force |-> TRUE]
        /\ sign[t].pc = "idle" /\ \A u \in Tasks \ {t} : sign'[u] = sign[u]
    BY DEF Signing!SigningTypeOK
  <2>2. CASE a # b
    <3>1. AppInv(a)
      BY <2>2 DEF FilesInv
    <3>2. /\ exec'[a] = exec[a] /\ backup'[a] = backup[a] /\ patched'[a] = patched[a]
          /\ a \in stranded => a \in stranded'
      BY <2>2 DEF Signing!SigningTypeOK
    <3>3. \A u \in Tasks : Busy(u, a) \/ sign'[u].app = a => sign'[u] = sign[u]
      BY <2>1, <2>2 DEF Busy
    <3> QED BY <3>1, <3>2, <3>3, OtherApps
  <2>3. CASE a = b
    <3>1. \A u \in Tasks : ~Busy(u, a)
      BY <2>3 DEF Busy
    <3>2. OneCall(a)' /\ \A u \in Tasks : Busy(u, a)' => u = t
      BY <2>1, <2>3, <3>1 DEF OneCall, Busy
    <3>3. exec'[a] = Signing!FreshBinary /\ patched'[a] = FALSE
      BY <2>3 DEF Signing!SigningTypeOK
    <3>4. exec'[a] # None
      <4>1. Signing!FreshBinary \in Signing!Binaries
        BY DEF Signing!FreshBinary, Signing!Binaries
      <4> QED BY <3>3, <4>1, ConstantsAssumption
    <3>5. MissingOnPurpose(a)' /\ PatchedFiles(a)'
      BY <3>3, <3>4 DEF MissingOnPurpose, PatchedFiles
    <3>6. CallInv(t, a)'
      BY <2>1 DEF CallInv
    <3>7. ASSUME NEW u \in Tasks \ {t}, sign'[u].app = a
          PROVE  CallInv(u, a)'
      BY <3>2, <3>7 DEF CallInv, Busy
    <3> QED BY <3>2, <3>4, <3>5, <3>6, <3>7 DEF AppInv
  <2> QED BY <2>2, <2>3
<1>4. ASSUME NEW b \in Apps, Signing!RepatchNext(b)
      PROVE  AppInv(a)'
  <2>1. AppInv(a)
    BY <1>4 DEF FilesInv, Signing!RepatchNext, Signing!SigningHistory
  <2>2. /\ UNCHANGED <<exec, backup, kind, certificate, dontSign, sign, stranded>>
        /\ patched'[a] => patched[a]
    BY <1>4 DEF Signing!RepatchNext, Signing!signingChosen, Signing!SigningTypeOK
  <2>3. OneCall(a)' /\ MissingOnPurpose(a)' /\ PatchedFiles(a)'
    BY <2>1, <2>2 DEF AppInv, OneCall, Busy, MissingOnPurpose, PatchedFiles
  <2> QED BY <2>1, <2>2, <2>3 DEF AppInv, CallInv
<1>5. ASSUME NEW otherError \in BOOLEAN, Signing!Restart(otherError)
      PROVE  AppInv(a)'
  <2>1. AppInv(a)
    BY <1>5 DEF FilesInv, Signing!Restart
  <2>2. /\ UNCHANGED <<exec, backup, patched, kind, certificate, dontSign>>
        /\ a \in stranded' <=> a \in stranded \/ (exec[a] = None /\ patched[a])
        /\ \A u \in Tasks : sign'[u].pc = "idle"
    BY <1>5 DEF Signing!Restart, Signing!signingFiles, Signing!signingChosen, Signing!NoCall
  <2>3. OneCall(a)' /\ MissingOnPurpose(a)' /\ PatchedFiles(a)'
    BY <2>1, <2>2 DEF AppInv, OneCall, Busy, MissingOnPurpose, PatchedFiles
  <2> QED BY <2>1, <2>2, <2>3 DEF AppInv, CallInv
<1> QED BY <1>1, <1>2, <1>3, <1>4, <1>5 DEF Signing!SigningNext

(***************************************************************************)
(* A call is at work until it turns the mark off, or refuses.               *)
(***************************************************************************)
WorkOf(t) ==
    /\ t \in Signing!Working
    /\ \A u \in Tasks \ {t} : sign'[u] = sign[u]
    /\ contended' = contended
    /\ \/ sign'[t].pc \in Signing!Steps /\ (mark' <=> mark) /\ (owed' <=> owed)
       \/ sign'[t].pc \notin Signing!Steps /\ (~mark' \/ owed')

LEMMA WorkSteps ==
  ASSUME Signing!SigningTypeOK, NEW t \in Tasks, Signing!SigningStep(t)
  PROVE  WorkOf(t)
<1> USE DEF Signing!SigningTypeOK, Signing!SigningHistory, Signing!At, Signing!Goto, Signing!Steps,
            Signing!Working, WorkOf
<1>1. CASE Signing!CopyExec(t)
  BY <1>1 DEF Signing!CopyExec
<1>2. CASE Signing!RemoveExec(t)
  BY <1>2 DEF Signing!RemoveExec
<1>3. CASE Signing!MoveBackup(t)
  BY <1>3 DEF Signing!MoveBackup
<1>4. CASE Signing!PatchFails(t)
  BY <1>4 DEF Signing!PatchFails
<1>5. CASE Signing!PatchExec(t)
  BY <1>5 DEF Signing!PatchExec
<1>6. CASE Signing!Refuse32bit(t)
  BY <1>6 DEF Signing!Refuse32bit
<1>7. CASE Signing!Decide(t)
  BY <1>7 DEF Signing!Decide
<1>8. CASE Signing!ZSigns(t)
  BY <1>8 DEF Signing!ZSigns
<1>9. CASE Signing!ZSignFails(t)
  BY <1>9 DEF Signing!ZSignFails
<1>10. CASE Signing!Report(t)
  BY <1>10 DEF Signing!Report
<1> QED BY <1>1, <1>2, <1>3, <1>4, <1>5, <1>6, <1>7, <1>8, <1>9, <1>10
        DEF Signing!SigningStep

LEMMA MarkInit == Signing!SigningInit => MarkInv
  BY DEF Signing!SigningInit, MarkInv, Signing!MarkIsTrue, Signing!SigningIsMarked,
         Signing!Working, Signing!NoCall, Signing!Steps

LEMMA MarkStep ==
  ASSUME Signing!SigningTypeOK, MarkInv, Signing!SigningNext
  PROVE  MarkInv'
<1> USE DEF MarkInv, Signing!MarkIsTrue, Signing!SigningIsMarked
<1>1. ASSUME NEW t \in Tasks, Signing!SigningStep(t)
      PROVE  MarkInv'
  <2>1. WorkOf(t)
    BY <1>1, WorkSteps
  <2>2. CASE sign'[t].pc \in Signing!Steps
    <3>1. Signing!Working' = Signing!Working
      BY <2>1, <2>2 DEF WorkOf, Signing!Working
    <3> QED BY <2>1, <2>2, <3>1 DEF WorkOf
  <2>3. CASE sign'[t].pc \notin Signing!Steps
    <3>1. Signing!Working' = Signing!Working \ {t}
      BY <2>1, <2>3 DEF WorkOf, Signing!Working
    <3> QED BY <2>1, <2>3, <3>1 DEF WorkOf
  <2> QED BY <2>2, <2>3
<1>2. ASSUME NEW t \in Tasks, Signing!CallerReturns(t)
      PROVE  MarkInv'
  <2>1. Signing!Working' = Signing!Working
    BY <1>2 DEF Signing!CallerReturns, Signing!NoCall, Signing!Steps, Signing!Working,
                Signing!SigningTypeOK
  <2> QED BY <1>2, <2>1 DEF Signing!CallerReturns, Signing!SigningHistory
<1>3. ASSUME NEW t \in Tasks, NEW a \in Apps,
             Signing!Install(t, a) \/ \E force \in BOOLEAN : Signing!Begin(t, a, force)
      PROVE  MarkInv'
  <2>1. /\ \A u \in Tasks \ {t} : sign'[u] = sign[u]
        /\ mark' /\ contended' = (contended \/ Signing!Working # {})
        /\ sign'[t].pc \in Signing!Steps
    BY <1>3 DEF Signing!Begin, Signing!Install, Signing!SigningTypeOK, Signing!Steps
  <2>2. Signing!Working' = Signing!Working \cup {t}
    BY <2>1 DEF Signing!Working
  <2> QED BY <2>1, <2>2
<1>4. ASSUME NEW a \in Apps, Signing!RepatchNext(a)
      PROVE  MarkInv'
  BY <1>4 DEF Signing!RepatchNext, Signing!SigningHistory, Signing!Working
<1>5. ASSUME NEW otherError \in BOOLEAN, Signing!Restart(otherError)
      PROVE  MarkInv'
  <2>1. Signing!Working' = {}
    BY <1>5 DEF Signing!Restart, Signing!NoCall, Signing!Working, Signing!Steps
  <2> QED BY <1>5, <2>1 DEF Signing!Restart
<1> QED BY <1>1, <1>2, <1>3, <1>4, <1>5 DEF Signing!SigningNext

LEMMA SigningInvStep == SigningInv /\ Signing!SigningNext => SigningInv'
  BY SigningTypeStep, FilesStep, MarkStep DEF SigningInv

LEMMA SigningInvStutter == SigningInv /\ UNCHANGED signingVars => SigningInv'
  BY DEF SigningInv, signingVars, Signing!SigningTypeOK, FilesInv, AppInv, OneCall, Busy,
         MissingOnPurpose, PatchedFiles, CallInv, MarkInv, Signing!MarkIsTrue,
         Signing!SigningIsMarked, Signing!Working
=============================================================================
