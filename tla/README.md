# A TLA+ development for Ember Connect

Ember Connect runs iOS apps as guests of one host app (a fork of LiveContainer), shows
the phone's screen on a desktop (a ReplayKit broadcast extension), and carries a set of
game overlays. This directory holds TLA+ models of its concurrent parts, TLC
configurations that check them on small instances, and TLAPS proofs of the invariants
that hold for every instance. `PROJECT.json` ties each definition to the lines it models.

To run something: `tlc -config MCMirrorServer.cfg MCMirrorServer`,
`tlapm MirrorServerProofs.tla`.

## 1. The system

Paths are relative to the repository; `R/` is `LiveContainerRuntime/`.

### Mirror server — `Shared/MirrorServer.swift`
*State*: `listener`, `connections` (key to connection, `primed`, `inFlight`), a lock,
`advertisementDisabled`. *Operations*: `start` (which rebuilds the listener without
Bonjour if it fails), `stop`, `accept` with a state handler per connection, `remove`,
`send` with a completion handler per packet. *Interaction*: called by every thread of the
broadcast extension; calls `onClientConnected` from a connection's ready handler.
*Hard*: `send` decides under the lock and hands over outside it; completions, failures
and `stop` race for the same counters; `listener` has no lock. *Correct when*: the
counters are the bytes really outstanding; backlogs are bounded; no client is fed before
its parameter sets; `stop` cancels every connection it finds; the retry happens once.

### H264 encoder wrapper — `Shared/H264Encoder.swift`
*State*: the compression session, its size, `forceNextKeyframe`, all owned by a serial
queue. *Operations*: `encode` and `invalidate` (synchronous), `requestKeyframe`
(asynchronous), VideoToolbox's callback. *Hard*: a block of the queue waits for callbacks
(`VTCompressionSessionCompleteFrames`) while threads wait for the queue; frames may
outlive the session. *Correct when*: frames belong to the current session; what is
published never returns to an earlier session; every call returns.

### Broadcast extension — `Broadcast/SampleHandler.swift`
*State*: the latest parameter sets (under `stateLock`), the orientation. *Operations*:
`broadcastStarted` with four callbacks, `processSampleBuffer` for video and audio,
`broadcastResumed`, `broadcastFinished`. *Interaction*: drives the server and the encoder
and is driven by both, on six kinds of thread. *Hard*: a snapshot of the parameter sets is
used after the lock is released; a rotation must force a keyframe in competition with
other users of the queue; the end of the broadcast waits for all of it. *Correct when*: a
newcomer is sent the latest sets and gets a picture; a rotation forces a keyframe;
`broadcastFinished` returns.

### Guest launch — `R/LiveContainer/LCBootstrap.m`, `LCSharedUtils.m`, `R/LiveProcess/main.m` and those who ask for a launch
*State*: per copy of the app the user defaults `selected` and `selectedContainer`; the
shared defaults `LCLaunchExtension...` (a task); the file `containerLock.plist`
(container and scheme to audit token). *Operations*: a process boots, chooses between app
list, guest and redirection, takes the container, runs; an app list or a guest asks for a
launch and restarts itself; a multitasking window starts a child; an intent, the share
sheet or the JIT helper leaves a task. *Hard*: several processes share three stores
without a lock, may be killed between any two accesses, and leave entries behind.
*Correct when*: a container has one guest; a redirection finds it; a window shows its app;
a crash leads back to the app list; an app runs in a container of its own.

### App model, app info and signing — `R/LiveContainerSwiftUI/Models/LCAppModel.swift`, `LCAppInfo.m`
*State*: `isAppRunning` of each app's model; `selected` and `selectedContainer`; each
app's executable, its backup and `LCPatchRevision`; the mark `SigningInProgress`.
*Operations*: `runApp`, `forceResign`, the installation of an app, all of which call
`patchExecAndSignIfNeed`; the check of the mark at the next start. *Hard*: `runApp` is an
asynchronous function of no actor, with awaits between its test of `isAppRunning` and its
writes; the executable is moved to a new inode by three calls whose errors are ignored;
the process may be killed anywhere; one mark serves all apps. *Correct when*: the
executable survives; what is launched is patched and signed; the mark tells the truth; the
flag is cleared whatever fails.

### Multitasking windows — `R/MultitaskSupport`
*State*: a window with its guest, the blocks on the main queue, the dock, the registry
`usingMultitaskContainers`, the keys of the relaunch manager. *Operations*: a window is
created, the extension's callbacks report a process identifier, a failure or an
interruption, the user closes the window, the clean-up runs, a guest is relaunched.
*Hard*: callbacks come from threads of their own and post blocks; dock and registry are
kept by container, windows by object. *Correct when*: every guest has a window, counts as
running and can be found; a closed window goes away.

### 0xdead10cc workaround — `R/LiveContainer/Tweaks/Dead10ccFix.m`
*State*: a debounce token, timers, the extended attribute of files. *Operations*: when the
guest leaves the foreground and its background tasks have ended, list the open
descriptors, look for locked files, mark them so that iOS may suspend the process all the
same, and again every two seconds until the app is active. *Hard*: files are opened, locked
and closed meanwhile; tasks, timers and notifications overlap; a failed lookup does not
advance. *Correct when*: a process that is suspended holds locks on marked files only, and
the scans end in the foreground.

### The rest
| component | state and behaviour | correct when |
|---|---|---|
| Mirror wire format, `MirrorProtocol.swift` and `convertToAnnexB` | headers and Annex B conversion, pure | nothing is lost or read beyond the end |
| URL schemes, `lcUrlSchemes` | a permutation by priority, pure | it is a permutation |
| Bootstrap internals, hooks, Mach-O patching | single-threaded work on the platform's structures | not a question for a model checker |
| SwiftUI pages, game menus, SideStore bridge, tools, vendored code | user interface, third-party | left out |

## 2. Modules

| module | models | composed from |
|---|---|---|
| `ClientFeed` | the contract of `send`: a client is fed config first, never beyond the limit by more than a packet | |
| `MirrorServer` | the server, thread by thread | refines `ClientFeed` |
| `VideoStream` | the contract of `onFormat` and `onEncodedFrame` | |
| `H264Encoder` | the encoder wrapper, block by block | refines `VideoStream` |
| `SampleHandler` | the extension | instances of `MirrorServer` and `H264Encoder` over shared variables |
| `AnnexB` | the conversion of an encoded frame, a pure function | |
| `GuestLaunch` | processes, stores and those who ask for a launch | |
| `AppSigning` | patching and signing of executables, with crashes | |
| `MultitaskWindows` | windows, their guests, the main queue, the dock and the registry | |
| `AppRun` | `runApp`, `forceResign` and installations | instances of `AppSigning` and `MultitaskWindows` over shared variables; implements `AppSigning` |
| `Dead10ccFix` | the workaround, the guest's threads and the system that suspends it | |
| `MC*` | instances for TLC | |
| `MirrorServerProofs`, `H264EncoderProofs`, `AnnexBProofs`, `SampleHandlerProofs`, `GuestLaunchProofs`, `AppSigningProofs`, `AppRunProofs`, `Dead10ccFixProofs` | theorems | each extends the module it is about; `SampleHandlerProofs` has instances of the proofs of its two parts, `AppRunProofs` of those of signing |

### How state and actions correspond to the code
*MirrorServer.* A critical section of the lock is one action; so is each step outside it.
`Send` is `send` up to the unlock (`Admitted` is its loop body), `Handoff` one
`connection.send`, `Complete` one completion handler, `sendList[t]` the local list of
thread t between the two. `StartCreate`, `StartAssign`, `StopClear`, `StopConnection`,
`StopCancel` and `StopNil` are the statements of `start` and `stop` another thread can get between;
`RetryDisable` and `ListenerFails` the failure handler. `Arrive`, `SetPhase`, `Ready` and `Fail` are what
Network.framework does. `wire[c]` are the packets handed over and not completed, which the
code does not have: properties compare the counters with it.

*H264Encoder.* Each block on the queue is one action (`RunKey`, `RunInvalidate`,
`RunEncode`, `RunEncodeAnew`, `RunEncodeFails`); `Drained` is the wait of `tearDown`.
VideoToolbox holds frames in order (`vt`); a callback is `DropFrame` or `EncodeFrame`, then
`FormatReturns` or `FormatMissing`, then `FrameReturns` or `FrameEmpty` (early returns).

*SampleHandler.* Program counters for the video, audio and callback threads and for each
ready handler; every access under `stateLock`, call and return is an action.
`events`, chosen by `Init` from `Scenarios`, is what the world does in a behaviour (video,
audio, resume, finish, failures), so that each run pays for the interleavings its
properties are about.

*GuestLaunch.* A process is a record in `procs`, its index its audit token, so tokens are
not reused. Its `phase` follows `LiveContainerMain`: `Boot` (which app), `Check` (is the
container in use), `LockRead` and `LockSave` (`setContainerUsingByLC` reads and replaces
the file), guest or app list. `Handoff` is `LiveProcessMain`. `Ask`, `Decline`, `Relaunch`
and `OpenWindow` are `runApp` and a guest's launch URL; `PostTask` is the intent, the share
sheet and the app list that is multitasking; `AskForJIT` the JIT helper. The three seconds
a task is fresh are a flag that `TaskExpires` clears. `Die` may strike at any point.
`StartCopy` needs no cause: a URL that starts a copy is any start. Nothing holds a
child back when its host dies, and the value of `runningLC` is the copy of the process
whose token stands beside it, as the code writes both together. A child that finds no
`hostUrlScheme`, because another child of its copy removed it, raises an exception when
it takes the lock: that is a `Die`.

*AppSigning.* One call of `patchExecAndSignIfNeed` is a program counter that follows its
statements: `Begin` (mark, `needPatch`), `CopyExec`, `RemoveExec`, `MoveBackup`,
`PatchExec` or `PatchFails` or `Refuse32bit`, `Decide`, `ZSigns` or `ZSignFails`, `Report`.
An executable is known by whether it is patched and whether iOS accepts its signature.
`PatchFails` may leave the slices of an encrypted executable patched, as the code notices only
then, but never saves the revision. `dontSign` is the user's setting of each app, chosen by
`Init`: a call reads it once (`NothingToSign`), and the settings page and an installation
(`LCAppListView.swift:900-901`) write it, so a change between two calls is not followed.
`Install` puts a new executable in place, `RepatchNext` is the tweak-loader setting that asks for a
new patch, and `Restart` is the end of the process at any point together with
`checkLastLaunchError` of the next.

*MultitaskWindows.* A window is a slot of `win` that is used again once the window is
released. What is dispatched to the main queue is a block in `main`, served in order
(`DockAdd`, `Initialized`, `Failed`, `CleanUp`, `DockRemove`, and two of `AppRun`);
`GuestStarts`, `GuestFails` and `Interrupted` are the extension's callbacks, `GuestRuns`
the guest's entry in the container lock. The dock is a set of windows and the registry a
set of containers: both only test and remove by container, so order and multiplicity make
no difference. `onExit` stands for the two settings that decide what happens to the window
of a dead guest.

*AppRun.* One task is one call. Every await and every statement that touches shared state
is an action (`RunApp`, `BringExisting`, `CheckLock`, `Accepts` or `Declines`, `Enter`, the
steps of signing, `SetSelected`, `SetContainer`, `LaunchWindow` or `ExtensionMissing`, `PidAvailable`, `Finish`),
and the deferred reset of `isAppRunning` one of its own (`LateReset`). `ExtensionMissing` is the
copy installed without its LiveProcess extension, whose call throws with both defaults left set. `LaunchWindow`
takes both, and `OpenWindow` is the block of the main queue that makes a window of what was taken. When the
host's process ends (`Crash`, or a guest that takes its place) its memory is gone; guests
in windows are then not followed further. History variables say which of the code's
protections have already been lost: `raced`, `mixed`, `overlapped`, `contended`, `owed`,
`stranded`, and a window's `company` and `orphaned`. Left out: launch URLs, waiting for
JIT, tweak signing, native windows, picture in picture, a disabled dock, hiding and locking.

*Dead10ccFix.* `EnterBackground` is the notification, `HandleTaskCompletion` what UIKit's
`_handleTaskCompletionAndTerminate:` does with the workaround as its target: call
`_terminateWithStatus:` at once, or when the last background task ends (`waiting`, `due`).
`ListFds`, `Look`, `LookDone`, `CheckSkips`, `CheckDatabase`, `CheckFile` and `ScanDone` are
that call, cut wherever another thread may act. `timer` says whether the timer with the
current token is pending; one with an older token returns at once and is left out.
`Open`, `Close`, `Lock`, `Unlock`, `TaskStarts` and `TaskEnds` are the guest; descriptors
are given out lowest first, and a lock goes with any descriptor of its file the guest
closes, as POSIX has it. iOS suspends (`Suspend`) only a process of the background without
a task, between two blocks of its main thread.

*AnnexB.* `convertToAnnexB` on sequences of bytes, a function of the offset for the loop;
`UnitFits` is the loop's condition and its guard. `WholeUnitsConverted` looks at whole units as
VideoToolbox frames them, followed by one cut short (or nothing), by a length of zero or by one
far too great.

## 3. Runs

| run | instance | shows |
|---|---|---|
| `server_safety` | 2 clients, 2 senders, config and frames, limit 1, packets of 1 and 2 | types, exact accounting, bounded backlog, config before frames in the server's books, no orphan connection, one retry, the listener stays reachable |
| `server_config_first` | 1 client, 2 senders | violated: a frame overtakes the config packet |
| `server_config_reaches_all` | 2 clients, 1 sender | violated: a saturated client is not sent new parameter sets |
| `encoder` | 2 callers, 2 sizes, 3 sessions, 3 blocks, 2 frames, fair | frames belong to their session, `VideoStream`, every call returns; as an assumption, `WholeUnitsConverted` over frames of up to 3 NAL units of up to 2 bytes |
| `handler` | 1 client, 2 sizes, 2 orientations, 2 sessions; video and pauses | a newcomer is never behind; a rotation forces a keyframe |
| `handler_finish` | 1 client; video with failing connections, or audio with pauses and failures of connections and listener; end of the broadcast, fair | `broadcastFinished` returns; with these callers the server implements `ClientFeed`, and dead connections are forgotten for good |
| `handler_picture` | 1 client, video, fair | who attaches and keeps up gets a picture |
| `handler_stale_config` | 1 client, 2 sizes | violated: parameter sets go back to an earlier session |
| `launch` | 2 copies, a private and a shared app with a container each, 3 processes | exclusion, redirection, windows and crash recovery |
| `launch_stale_container` | the same | violated: a guest is started in another app's container |
| `apps` | 2 apps, 2 calls, 2 windows; 8 scenarios, fair | executables survive, what succeeds can be launched, the mark is true; windows show their app, guests have windows and are found, one per container; flags clear and closed windows go away |
| `suspension` | 2 files of 3 combinations of kinds, 3 descriptors, fair | suspended only after a scan; locks taken in the background are marked; the scans end in the foreground |

**Bounds.** Two senders are what it takes for one thread to overtake another; two clients
for a loop of `stop` or `send` to be interrupted half-way. `maxInFlightBytes` is 1 and the
largest packet 2, so the limit is met, exceeded by one packet, and met again. `MaxSessions`
bounds rebuilds of the encoder (one rotation is two sessions; three allow one more after a
failure), `MaxBlocks` the queue, `MaxFrames` what VideoToolbox holds; an action that would
exceed a bound is not enabled. `MaxStarts` bounds the processes ever started: three are an app list,
its child or its own restart as a guest, and a second copy. `ClientFeed`, `VideoStream`
and the server have no bound of their own on steps. In `apps` two calls are what it takes
for one to overtake another, two windows for one to be cleaned up as the other's, and each
scenario of `MCAppRun` combines the events one group of properties needs: a window's life with
every setting, two calls for two apps, calls that race while guests fail, windows without the extension, signing under
crashes and failures, and pairs of calls that sign at once. `TurnForcesKeyframe` meets the
requests of newcomers and of `broadcastResumed` in `handler`; that the end of the broadcast
does not spoil it is left to its theorem. In `suspension` a third
descriptor is one for the scan to leak, after which the table is full; `MaxCallbacks` = 1
bounds the scans that are due when the app leaves the foreground again, and a timer may
still add one.

**Deadlock** is checked for the server and the encoder. It is not for the handler, where
without "finish" a broadcast whose listener could not be made just stands still, not
for the launch, where everything may be dead once `MaxStarts` is reached, and not for
`apps`, where a call whose window's guest did not come up waits for ever (see below).

**Fairness.** A thread inside a function continues, a started handler runs, the serial
queue runs its blocks and VideoToolbox calls back: weak fairness of exactly those
(`ServerFairness`, `EncoderFairSpec`, `ThreadFairness`). No one has to send, attach, fail or
finish. In `apps` calls go on, alerts are answered, the extension and zsign call back, the
main queue is served, and a guest that is killed dies (`AppRun!FairSpec`); nobody has to
run, close or die. In `suspension` the main thread goes on, a timer fires and background
tasks end, as iOS limits them; nobody has to come back or to unlock. Only `AttachedGetsPicture` assumes more (`PictureFairness`): ReplayKit goes on
delivering video, and encoding, format extraction and the handing over of keyframes may
fail but not for ever (strong fairness); a client that stops keeping up is excused.

**What the violations say.** `ConfigFirst` and `ConfigReachesAll` restate two comments of
`send` (lines 29-31 and 201); the first fails because `connection.send` is called outside
the lock, the second because the saturation test is applied to config packets too.
`ConfigsNeverGoBack` restates "Latest parameter sets" of `SampleHandler.swift:24`; a ready
handler sends the sets it copied before a rotation, and sends them to everyone.
`BoxBelongsToApp` restates the default container a launch without a container name gets;
`askForJIT` does not clear the name an earlier task left.

**A condition worth reading.** `OneGuestPerContainer`, `GuestCopyInUse` and
`WindowShowsItsApp` hold as long as no two processes were ever starting at the same time
(`overlapped`). Without the condition TLC refutes each of them: the container is found
free at `LCBootstrap.m:848` and taken at line 553, the file is replaced without a lock, and
children share the defaults of their extension. `RedirectFindsGuest` and
`CrashReturnsToUI` need no such condition. `OneGuestPerContainer` speaks of guests in a
container of their own app (`AtHome`): with four processes a guest that
`launch_stale_container` put in another app's container can meet that app there.

**Conditions of `apps`.** The properties of signing speak of apps no two calls were about
at once (`overlapped`), and of calls that had the process to themselves (`contended`):
`isAppRunning` does not stop `forceResign` and an installation from meeting `runApp`, and
is set only after two awaits. Of two calls that overlap one may move the backup back and
the other remove the executable with no backup left, so that the file is lost: `ExecutableKept`
says that nothing else loses it. `SignedIsRunnable` promises no signature without a certificate
password or for an app with `dontSign`, for which a call reports success as soon as it is
patched, and it excuses an app whose forced call was killed
between the removal and the move (`stranded`): `LCPatchRevision` is current, so an ordinary
call leaves the executable in the backup. `MarkIsTrue` excuses a mark a killed call or a
refusal left (`owed`). `WindowPairs` holds until two calls are between `selected` and the
launch at once (`mixed`). `GuestHasWindow` excuses a window closed before the process
identifier of its guest was known (`orphaned`): the guest goes on without one.
`FlagClears` excuses a guest whose process does not come up: the user is told, the
call that waits for the identifier is not, and `isAppRunning` stays set.

**Conditions of `suspension`.** `SuspendedMarked` excuses a lock taken after the last
listing (`late`): the two seconds between scans are not covered. Both properties excuse
what a scan left out (`missed`), for either of two reasons: a lookup that fails is repeated
for the rest of the count, because `continue` skips `fdinfo++` (lines 85, 88, 94, 99), so the
descriptors behind it are not looked at; and every check of an unlocked file leaves a
descriptor open (line 163), so that in a long background the table fills up.

**More observations.** A 32-bit app is refused after `LCPatchRevision` was saved and with
the mark set (`LCAppInfo.m:357-358`): the next call does not patch and lets it through, and the next start
reports a crash during signing that did not happen. The registry of used
containers is an array without a lock, used on the main thread and on the extension's.
A frame that VideoToolbox refuses has already consumed the
request for a keyframe (`H264Encoder.swift:152`). A connection accepted after `stop` has
emptied the dictionary is entered there and never cancelled, which `NoOrphanConnection`
allows, and a retry without Bonjour that runs after `stop` leaves a listener that nobody
cancels, of which `ListenerReachable` does not speak. A sample that passed the `hasClients`
test is encoded while `invalidate` waits and makes a session nobody invalidates, although
`SampleHandler.swift:305-306` says nothing can be mid-encode. These behaviours are in the
models and break no property above, but for the unsynchronised array, whose data race is not modelled.

## 4. Proofs

Every invariant and every action property or refinement that a passing run checks is a
theorem, for every value of the constants the named `ASSUME`s of the modules allow: they
say that bounds are numbers, that packet sizes are positive and at most `LargestPacket`, that the
value which stands for "none" is not one of the things it is told apart from, and that
scenarios are made of the events the module knows. TLC evaluates them on every instance.

`MirrorServerProofs` proves, for every set of clients and threads, every packet size up
to `LargestPacket` and every limit:
- `TypeCorrect`. The inductive invariant `IInv` adds to `TypeOK` that a busy thread sends a
  packet of the program (`SendListOK`), that a thread about to publish a listener has made
  one (`AssignOK`), and that only a thread in the loop of `stop` has connections to cancel
  (`ActiveOK`).
- `BacklogIsBounded` and `FedFromConfig`, from
  `FeedInv`: a step of `send` is looked at client by client (`FeedSteps`), and every other
  action only shrinks what it speaks of.
- `NoConnectionEscapes`: inductive with `IInv`.
- `ListenerRetriedOnce`, `ListenerStaysReachable`, from `ListenInv`, which says how far
  the main thread and the retry can be for each number of listeners made.

It also proves `CountersAreExact`: the counter of a client is the sum of the
packets on its wire and of those threads have charged to it and not handed over. It needs
facts about sums over finite sets that the library does not have: the recursion behind the
library's sum has one solution (`SumExists`, `SumsAgree`), so a sum may be taken apart at any
element (`SumWithout`) and depends on its summands only. They are proved by induction over a set of
numbers (`Counting`, from the least number outside it), since induction over a predicate
is not available. A thread in `send`, a packet handed over and one completed then
change one summand each. That only finitely many threads are inside `send` (`BusyOK`) is
part of the invariant. `ServerImplementsFeed` is the refinement of `ClientFeed`: with exact
counters a step of `send` is an `Offer`, a completion a `Drain`, an accepted connection an
`Attach`, a removal or `stop` a `Detach`, and all else a stutter.

`H264EncoderProofs` proves `EncoderTypeCorrect` and `FramesAreCurrent` together (the
second is why the first is inductive: a session is released only when no frame of it is
left) and `EncoderImplementsStream`, step by step: a callback publishes the current session,
which is never smaller than the one last published.

`AnnexBProofs` proves `UnitsAreConverted`, for any number of units of any length below 2^24.
The loop is a recursive function of the offset: it exists because every unit that fits
ends behind its offset (`EndAhead`, `WritesExists`), and what it puts out from an offset on depends
on the bytes behind that only (`WritesShifted`, by induction from the end of the block). Hence a
unit that fits is put out before what follows it (`FirstFits`), one that does not ends the
output (`NothingFits`), and units joined come out one by one (`JoinedConverted`). The inductions
take a set of numbers (`Counting`, from the well-foundedness of the order on them) instead of a
predicate. A function has no run of its own: TLC evaluates the statement in `MCH264Encoder` on a small
instance, and the proofs do not assume that.

`SampleHandlerProofs` is about the composition. `BroadcastRunsServer` and
`BroadcastRunsEncoder` say that the broadcast is a behaviour of each of its parts, so the
theorems about them hold in it (`BroadcastImplementsFeed` is one): every action is a step of
the part or leaves its variables alone. The two instances of a part, in the model and in the
proofs, are shown to be the same (`SameServer`, `SameEncoder`). Of the handlers' own:
- `HandlerTypeCorrect`, from the invariants of the parts and `VideoOK`.
- `LatestSetsAreStored`, from `SetsInv`: a snapshot is never newer than the stored sets, and
  what the callback is about to send are the sets it has stored, those of the frame it is for.
- `TurnedFrameIsForced`, an action property, from `KeyInv`: from the request a rotation makes to
  the block that encodes the sample a request for a keyframe is in the queue before that block,
  or the flag is set, and no other block that could take it, since only the video thread encodes.

`GuestLaunchProofs` proves every invariant of the run `launch`, for any number of copies,
apps, containers and processes. The inductive invariant `IInv` has four parts:
- `LaunchTypeOK`.
- `StoresInv`: a copy has one main process, its `selected` is cleared once that is past
  `Check`, and every token in the lock file *or in a process's copy of it* (`Holders`) is
  dead or a guest in that container. The last clause is why lost updates do no harm to
  `RedirectFindsGuest`, the one before it is `CrashReturnsToUI`; it rests on
  `GuestsAreStable`, an action property.
- `Boxes`: who may wait for, or start, an app without a container name. Only a guest asks
  for that, and only private apps, which are run by the primary copy, are started so.
- `SerialInv`, as long as processes start one at a time: guests are recorded in the lock
  file (`Recorded`), what is about to be taken is free (`Reserved`), and so is the default
  container of a private app somebody is about to start unasked (`DefaultsFree`), because
  the guest who asked keeps its copy busy until then (`QuietCopies`).
Each part has one lemma for a step of one process (`...ByStep`), one for a start
(`...ByStart`), and one in which every action is shown to be such a step.

`AppSigningProofs` holds the inductive invariant of signing, `SigningInv`, for any number of
apps and calls: `SigningTypeOK`; `FilesInv`, which says of each app where its executable,
its backup and each call about it can be at each program counter (`AppInv`, `CallInv`); and
`MarkInv`. A step changes the files of one app, so the step lemmas look at that app only
(`LocalStep`, `OtherApps`). It is stated with the instance `AppRun` makes of the module.

`AppRunProofs` carries it over: `AppRunSigns` is the refinement, every step of `AppRun` is
a step of `AppSigning` or leaves its variables alone, so `ExecutableIsKept`, `SignedRuns`,
`MarkTells` and `SigningMarked` follow. What it proves of windows is in layers, each
inductive with those before it:
- `RunInv`, for `RunTyped` and `GuestsHaveWindows`: besides the types, a call that is not
  idle is about an app (`CallsInv`); a block on the main queue finds the window, in the phase,
  it was dispatched for, and is there once (`BlocksInv`); what a window's guest, view and
  clean-up flag may be together (`WindowsInv`); and a block that looks for a call's window
  belongs to a call that waits for it and is on the queue once (`BringsInv`), without which
  a call served twice could open a second window over the first.
- `ReachInv`, for `GuestsAreReachable`: of two windows of one container the one made first or
  the other says so (`company`); what is dispatched to be removed from the dock is about
  the container of a window that has been removed; so no clean-up reaches a window that never
  had company, and that is in the registry, and in the dock or about to be.
- `WaitInv`: who waits for whom. As long as the call that opened a window has not been told of
  it the call waits, for that window only (`AwaitInv`); and the dock hears of a window before its
  call does (`OrderInv`).
- `PassingInv`, for `WindowsArePaired`: as long as no two calls were between the two
  defaults and the launch at once (`mixed`), the container that is set is that of the call
  which passes, and its app the one selected (`BoxInv`, `PairInv`).
- `SingleInv`, for `OneWindowEach`: of an app whose calls did not race one call at most is
  about to open a window, and none while there is one. A second window would be opened by a call
  that found the first not in the dock. Then its `dockAdd` is still queued, so by
  `WaitInv` the call that opened it still waits, for the same app: two
  calls run the same app, which is what `raced` records.
One lemma for each kind of step, and one in which every action is shown to be such a step
(`StepCases`); what a step does to the queue is put into a few forms first (`QueueFacts`),
so that the layers need not look at each action again.

`Dead10ccFixProofs` proves `SuspendTypeCorrect` and `SuspendedIsMarked` for any files of any
kinds and any number of descriptors. `FixInv` says what the main thread knows at each
program counter (`LoopOK`, `FilesOK`, `ScanOK`), that a suspended process has no scan waiting,
due or under way (`TurnsInv`), and that out of the foreground either a scan is still to come or each
locked file that must be marked is, at every point of the scan that runs or ran last, accounted
for (`CoverInv`): marked, on the list not looked at yet, among the paths or
files found, or excused, as taken after the listing or missed by a lookup that failed.

Assumed are the named `ASSUME`s and nothing else.

*Only model-checked*: everything under fairness (`DeadForgotten`, `CallsReturn`,
`FinishReturned`, `AttachedGetsPicture`, `FlagClears`, `ClosedGoesAway`, `LockGetsMarked`,
`LoopEnds`), which is out of the prover's reach. `ConfigFirst`, `ConfigReachesAll`,
`ConfigsNeverGoBack` and `BoxBelongsToApp` are violated.

## 5. Plan

Done, in this order: the server and its contract; the encoder and its contract; the
extension that composes them; the launch; signing, windows and the runs of apps that
compose them; the 0xdead10cc workaround; the Annex B conversion; and the proofs of all
their safety properties and refinements. Next: contracts of their own for the launch (a
container is taken by one guest at a time) and for windows (one window, one guest), which the
modules would be shown to implement as the server implements `ClientFeed`; and the safety half
of the liveness properties (who can still be waited for when nothing is enabled).

### Not modelled
- The hooks into dyld, Foundation and the keychain, Mach-O patching and the building of a
  guest's home: single-threaded work on structures of the platform, whose effect is not a
  state of this program.
- Packet headers, the audio conversion and `lcUrlSchemes`: fixed-size writers and one sort.
- Launch URLs, waiting for JIT, native windows, picture in picture, the built-in SideStore:
  they add data to the paths that are modelled, or replace a window by another kind.
- SwiftUI pages, game menus and their compatibility hooks, the tools, and vendored code:
  user interface and third-party code; no other part depends on their state.
