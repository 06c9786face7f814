------------------------------ MODULE AppSigning ------------------------------
(***************************************************************************)
(* -[LCAppInfo patchExecAndSignIfNeedWithCompletionHandler:...],            *)
(* src/LiveContainerRuntime/LiveContainerSwiftUI/Models/LCAppInfo.m: what   *)
(* runApp, forceResign and an installation do to an app's executable before *)
(* it may run.  Tasks call it on any thread; zsign works in the background  *)
(* and completes on the main queue; the process may be killed at any point. *)
(* What is left is in files (the executable, its backup, LCPatchRevision in *)
(* LCAppInfo.plist) and in the user defaults (SigningInProgress).           *)
(* An executable is known by whether it is patched for dlopen and whether   *)
(* iOS accepts its signature; other files of the bundle and the progress    *)
(* are left out.                                                            *)
(***************************************************************************)
EXTENDS FiniteSets

CONSTANTS Apps, Tasks,
          None          \* no file

Binaries == [patched : BOOLEAN, signed : BOOLEAN]
FreshBinary == [patched |-> FALSE, signed |-> FALSE]
PatchedBinary == [patched |-> TRUE, signed |-> FALSE]

VARIABLES
    kind,               \* of each app, chosen by Init: has its executable an arm64 slice?
    certificate,        \* chosen by Init: no password set, no data, or what iOS thinks of it
    dontSign,           \* of each app, chosen by Init: the user does not want it signed
    exec,               \* of each app, the file at execPath
    backup,             \*              the file at backupPath
    patched,            \*              LCPatchRevision is the current one
    mark,               \* SigningInProgress
    sign,               \* of each task, its call
    overlapped,         \* history: apps two calls were about at the same time
    contended,          \*          two calls of this process worked at the same time
    owed,               \*          the mark was left by a killed call or by a refusal
    stranded            \*          apps whose forced call was killed while only the backup existed

signingFiles == <<exec, backup, patched>>
signingChosen == <<kind, certificate, dontSign>>
signingVars == <<signingFiles, signingChosen, mark, sign, overlapped, contended, owed, stranded>>

Steps == {"copy", "remove", "move", "patch", "decide", "zsign", "signed", "unsigned"}
NoCall == [pc |-> "idle", app |-> None, needPatch |-> FALSE, force |-> FALSE]

Working == {t \in Tasks : sign[t].pc \in Steps}

SigningTypeOK ==
    /\ kind \in [Apps -> {"arm64", "32bit"}]
    /\ certificate \in {"none", "missing", "valid", "rejected"}
    /\ dontSign \in [Apps -> BOOLEAN]
    /\ exec \in [Apps -> Binaries \cup {None}]
    /\ backup \in [Apps -> Binaries \cup {None}]
    /\ patched \in [Apps -> BOOLEAN]
    /\ mark \in BOOLEAN
    /\ sign \in [Tasks -> [pc : Steps \cup {"idle", "ok", "failed"}, app : Apps \cup {None},
                           needPatch : BOOLEAN, force : BOOLEAN]]
    /\ \A t \in Tasks : sign[t].pc # "idle" => sign[t].app \in Apps
    /\ overlapped \subseteq Apps /\ stranded \subseteq Apps
    /\ contended \in BOOLEAN /\ owed \in BOOLEAN

\* Apps are installed and not patched yet, or patched by an earlier session and perhaps signed.
SigningInit ==
    /\ kind \in [Apps -> {"arm64", "32bit"}]
    /\ certificate \in {"none", "missing", "valid", "rejected"}
    /\ dontSign \in [Apps -> BOOLEAN]
    /\ patched \in [Apps -> BOOLEAN]
    /\ exec \in [Apps -> Binaries]
    /\ \A a \in Apps :
         /\ exec[a].patched = (patched[a] /\ kind[a] = "arm64")
         /\ exec[a].signed => patched[a] /\ certificate = "valid"
    /\ backup = [a \in Apps |-> None]
    /\ mark = FALSE
    /\ sign = [t \in Tasks |-> NoCall]
    /\ overlapped = {} /\ contended = FALSE /\ owed = FALSE /\ stranded = {}

At(t, pc) == sign[t].pc = pc
Goto(t, pc) == sign' = [sign EXCEPT ![t].pc = pc]
Runs(t) == sign[t].app
SigningHistory == <<overlapped, contended>>

(***************************************************************************)
(* The call.  needPatch is read once; the copy, the removal and the move    *)
(* put the executable on a new inode, and the errors of all three are       *)
(* ignored: a copy does not overwrite, a move needs a source and no target. *)
(***************************************************************************)
Begin(t, a, force) ==
    /\ At(t, "idle")
    /\ mark' = TRUE
    /\ sign' = [sign EXCEPT ![t] =
                  [pc |-> IF force \/ ~patched[a] THEN "copy" ELSE "decide", app |-> a,
                   needPatch |-> ~patched[a], force |-> force \/ ~patched[a]]]
    /\ overlapped' = overlapped \cup
                     {b \in {a} : \E u \in Tasks : sign[u].pc # "idle" /\ sign[u].app = b}
    /\ contended' = (contended \/ Working # {})
    /\ UNCHANGED <<signingFiles, signingChosen, owed, stranded>>

\* Mutant: a backup left behind is removed before the copy.
CopyExecAnew(t) ==
    /\ At(t, "copy")
    /\ Goto(t, "remove")
    /\ backup' = [backup EXCEPT ![Runs(t)] = exec[Runs(t)]]
    /\ UNCHANGED <<exec, patched, signingChosen, mark, SigningHistory, owed, stranded>>

CopyExec(t) ==
    /\ At(t, "copy")
    /\ Goto(t, "remove")
    /\ backup' = IF backup[Runs(t)] = None
                 THEN [backup EXCEPT ![Runs(t)] = exec[Runs(t)]] ELSE backup
    /\ UNCHANGED <<exec, patched, signingChosen, mark, SigningHistory, owed, stranded>>

RemoveExec(t) ==
    /\ At(t, "remove")
    /\ Goto(t, "move")
    /\ exec' = [exec EXCEPT ![Runs(t)] = None]
    /\ UNCHANGED <<backup, patched, signingChosen, mark, SigningHistory, owed, stranded>>

MoveBackup(t) ==
    /\ At(t, "move")
    /\ Goto(t, IF sign[t].needPatch THEN "patch" ELSE "decide")
    /\ IF exec[Runs(t)] = None /\ backup[Runs(t)] # None
       THEN /\ exec' = [exec EXCEPT ![Runs(t)] = backup[Runs(t)]]
            /\ backup' = [backup EXCEPT ![Runs(t)] = None]
            /\ stranded' = stranded \ {Runs(t)}
       ELSE UNCHANGED <<exec, backup, stranded>>
    /\ UNCHANGED <<patched, signingChosen, mark, SigningHistory, owed>>

\* The executable cannot be parsed, or it is encrypted, which is noticed when its slices
\* are patched: the revision is not saved.
PatchFails(t) ==
    /\ At(t, "patch")
    /\ Goto(t, "failed")
    /\ mark' = FALSE /\ owed' = FALSE
    /\ \/ UNCHANGED exec
       \/ /\ exec[Runs(t)] # None /\ kind[Runs(t)] = "arm64"
          /\ exec' = [exec EXCEPT ![Runs(t)] = PatchedBinary]
    /\ UNCHANGED <<backup, patched, signingChosen, SigningHistory, stranded>>

PatchExec(t) ==
    /\ At(t, "patch")
    /\ exec[Runs(t)] # None /\ kind[Runs(t)] = "arm64"
    /\ Goto(t, "decide")
    /\ exec' = [exec EXCEPT ![Runs(t)] = PatchedBinary]
    /\ patched' = [patched EXCEPT ![Runs(t)] = TRUE]
    /\ UNCHANGED <<backup, signingChosen, mark, SigningHistory, owed, stranded>>

\* "32-bit app is NOT supported!", after the revision is saved and with the mark left on.
Refuse32bit(t) ==
    /\ At(t, "patch")
    /\ exec[Runs(t)] # None /\ kind[Runs(t)] = "32bit"
    /\ Goto(t, "failed")
    /\ patched' = [patched EXCEPT ![Runs(t)] = TRUE]
    /\ owed' = TRUE
    /\ UNCHANGED <<exec, backup, signingChosen, mark, SigningHistory, stranded>>

SignatureAccepted(a) == exec[a] # None /\ exec[a].signed

\* No certificate password, an app the user does not want signed, or a signature that iOS
\* accepts and nobody wants renewed.
NothingToSign(t) ==
    certificate = "none" \/ dontSign[Runs(t)]
      \/ (~sign[t].force /\ SignatureAccepted(Runs(t)))

\* Mutant: the mark stays on when nothing is left to do.
DecideMarked(t) ==
    /\ At(t, "decide")
    /\ LET skip == NothingToSign(t)
           stop == ~skip /\ certificate = "missing"
       IN  /\ Goto(t, IF skip THEN "ok" ELSE IF stop THEN "failed" ELSE "zsign")
           /\ mark' = (mark /\ ~stop)
           /\ owed' = (owed /\ ~stop)
    /\ UNCHANGED <<signingFiles, signingChosen, SigningHistory, stranded>>

\* Mutant: the mark goes off as soon as zsign is asked.
DecideUnmarked(t) ==
    /\ At(t, "decide")
    /\ Goto(t, IF NothingToSign(t) THEN "ok"
               ELSE IF certificate = "missing" THEN "failed" ELSE "zsign")
    /\ mark' = FALSE /\ owed' = FALSE
    /\ UNCHANGED <<signingFiles, signingChosen, SigningHistory, stranded>>

\* Success if there is nothing to sign, failure without a certificate, or zsign.
Decide(t) ==
    /\ At(t, "decide")
    /\ LET skip == NothingToSign(t)
           stop == skip \/ certificate = "missing"
       IN  /\ Goto(t, IF skip THEN "ok" ELSE IF stop THEN "failed" ELSE "zsign")
           /\ mark' = (mark /\ ~stop)
           /\ owed' = (owed /\ ~stop)
    /\ UNCHANGED <<signingFiles, signingChosen, SigningHistory, stranded>>

\* zsign, on a queue of its own; it needs an executable and may fail in many ways,
\* a library that cannot be loaded among them.
ZSigns(t) ==
    /\ At(t, "zsign")
    /\ exec[Runs(t)] # None
    /\ Goto(t, "signed")
    /\ exec' = [exec EXCEPT ![Runs(t)].signed = (certificate = "valid")]
    /\ UNCHANGED <<backup, patched, signingChosen, mark, SigningHistory, owed, stranded>>

ZSignFails(t) ==
    /\ At(t, "zsign")
    /\ Goto(t, "unsigned")
    /\ UNCHANGED <<signingFiles, signingChosen, mark, SigningHistory, owed, stranded>>

\* Mutant: zsign's word is taken for iOS's.
ReportUnchecked(t) ==
    /\ sign[t].pc \in {"signed", "unsigned"}
    /\ Goto(t, IF At(t, "signed") THEN "ok" ELSE "failed")
    /\ mark' = FALSE /\ owed' = FALSE
    /\ UNCHANGED <<signingFiles, signingChosen, SigningHistory, stranded>>

\* signCompletionHandler, on the main queue.
Report(t) ==
    /\ sign[t].pc \in {"signed", "unsigned"}
    /\ Goto(t, IF At(t, "signed") /\ SignatureAccepted(Runs(t)) THEN "ok" ELSE "failed")
    /\ mark' = FALSE /\ owed' = FALSE
    /\ UNCHANGED <<signingFiles, signingChosen, SigningHistory, stranded>>

SigningStep(t) ==
    CopyExec(t) \/ RemoveExec(t) \/ MoveBackup(t) \/ PatchFails(t) \/ PatchExec(t)
    \/ Refuse32bit(t) \/ Decide(t) \/ ZSigns(t) \/ ZSignFails(t) \/ Report(t)

\* The caller has done what it wanted the app signed for, or has thrown.
CallerReturns(t) ==
    /\ sign[t].pc \in {"ok", "failed"}
    /\ sign' = [sign EXCEPT ![t] = NoCall]
    /\ UNCHANGED <<signingFiles, signingChosen, mark, SigningHistory, owed, stranded>>

(***************************************************************************)
(* The rest of the world.                                                   *)
(***************************************************************************)
\* setDontInjectTweakLoader: the app has to be patched again.
RepatchNext(a) ==
    /\ patched' = [patched EXCEPT ![a] = FALSE]
    /\ UNCHANGED <<exec, backup, signingChosen, mark, sign, SigningHistory, owed, stranded>>

\* An installation replaces the app's folder, then calls like everyone else.
Install(t, a) ==
    /\ At(t, "idle")
    /\ mark' = TRUE
    /\ exec' = [exec EXCEPT ![a] = FreshBinary]
    /\ backup' = [backup EXCEPT ![a] = None]
    /\ patched' = [patched EXCEPT ![a] = FALSE]
    /\ sign' = [sign EXCEPT ![t] = [pc |-> "copy", app |-> a, needPatch |-> TRUE, force |-> TRUE]]
    /\ overlapped' = {b \in overlapped \cup {a} :
                        b # a \/ \E u \in Tasks : sign[u].pc # "idle" /\ sign[u].app = a}
    /\ contended' = (contended \/ Working # {})
    /\ stranded' = stranded \ {a}
    /\ UNCHANGED <<signingChosen, owed>>

\* The process ends, by a crash, by the system or to run a guest, and the next one starts.
\* checkLastLaunchError reports the mark and clears it unless another error is reported.
Restart(otherError) ==
    /\ mark' = (mark /\ otherError)
    /\ owed' = (otherError /\ (owed \/ Working # {}))
    /\ sign' = [t \in Tasks |-> NoCall]
    /\ contended' = FALSE
    /\ stranded' = stranded \cup {a \in Apps : exec[a] = None /\ patched[a]}
    /\ UNCHANGED <<signingFiles, signingChosen, overlapped>>

SigningNext ==
    \/ \E t \in Tasks : SigningStep(t) \/ CallerReturns(t)
    \/ \E t \in Tasks, a \in Apps, force \in BOOLEAN : Begin(t, a, force)
    \/ \E t \in Tasks, a \in Apps : Install(t, a)
    \/ \E a \in Apps : RepatchNext(a)
    \/ \E otherError \in BOOLEAN : Restart(otherError)

SigningSpec == SigningInit /\ [][SigningNext]_signingVars

(***************************************************************************)
(* Properties.                                                              *)
(***************************************************************************)
\* The copy, the removal and the move never lose an executable, wherever they
\* are killed and however often they are repeated, as long as no two calls are
\* about the same app.
ExecutableKept ==
    \A a \in Apps \ overlapped : exec[a] # None \/ backup[a] # None

\* What a call that succeeded leaves for the launch is an executable dyld can
\* load and, with certificates, iOS accepts, unless the user does not want the app
\* signed: then a call succeeds whatever the signature.  The exceptions are two calls
\* for the same app, a forced call killed half-way (which the next one repairs only
\* if it is forced too), and a 32-bit app, which is refused once.
SignedIsRunnable ==
    \A t \in Tasks :
        sign[t].pc = "ok" /\ Runs(t) \notin overlapped \cup stranded =>
          /\ exec[Runs(t)] # None
          /\ kind[Runs(t)] = "arm64" /\ patched[Runs(t)] => exec[Runs(t)].patched
          /\ certificate # "none" /\ ~dontSign[Runs(t)] => exec[Runs(t)].signed

\* The mark that the next start reports as a crash during signing is on only
\* while somebody signs, after a call was killed, or after a 32-bit refusal.
MarkIsTrue == mark => Working # {} \/ owed

\* A call that had the process to itself is marked as long as it works, so if
\* it crashes the process the next start says so.
SigningIsMarked == Working # {} /\ ~contended => mark
=============================================================================
