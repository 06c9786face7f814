---------------------------- MODULE SampleHandler ----------------------------
(***************************************************************************)
(* The broadcast extension, src/Broadcast/SampleHandler.swift: it drives    *)
(* MirrorServer and H264Encoder and is driven by both.  Six kinds of thread *)
(* run its code:                                                            *)
(*   "video"  ReplayKit's video queue: processSampleBuffer(.video)          *)
(*   "audio"  ReplayKit's audio queue: processSampleBuffer(.audioApp)       *)
(*   "main"   broadcastStarted and broadcastFinished                        *)
(*   "vt"     VideoToolbox's callback: onFormat and onEncodedFrame          *)
(*   c        the ready handler of connection c: onClientConnected          *)
(*   "retry"  the failure handler of the listener, inside MirrorServer      *)
(* Each critical section of stateLock, each call into the server or the     *)
(* encoder and each return from one is an action.  Picture data, time       *)
(* stamps and flags are left out; a packet carries the encoder session it   *)
(* comes from, which is what a decoder needs the parameter sets of.         *)
(***************************************************************************)
EXTENDS Integers, Sequences, FiniteSets

CONSTANTS
    Clients, maxInFlightBytes, PacketSize, LargestPacket,       \* see MirrorServer
    Dims, MaxSessions, MaxBlocks, MaxFrames,                    \* see H264Encoder
    Orientations,
    Scenarios               \* sets of events of the world outside, see Happens

ASSUME ScenariosAssumption ==
    Scenarios \subseteq
        SUBSET {"video", "audio", "resume", "finish", "listenerFails", "connectionFails"}

Senders == {"vt", "audio"} \cup Clients
Callers == {"video", "main"}
PacketTypes == {"config", "keyframe", "frame", "audio"}
Packets == [type : PacketTypes \ {"audio"}, session : 1..MaxSessions] \cup [type : {"audio"}]

ASSUME SizesAssumption ==
    /\ maxInFlightBytes \in Nat
    /\ LargestPacket \in Nat
    /\ PacketSize \in [PacketTypes -> 1..LargestPacket]

ASSUME EncoderAssumption ==
    /\ MaxSessions \in Nat /\ MaxBlocks \in Nat /\ MaxFrames \in Nat
    /\ "none" \notin Dims

VARIABLES
    connections, primed, inFlight, sendList, removals, conn, wire,
    listener, listeners, advertisementDisabled, life, active, fedBare, lastConfig,
    session, dims, forceNextKeyframe, queue, created, fresh, vt, callback, out,
    parameterSets,          \* 0 for nil, else the session they belong to
    orientation,
    video,                  \* of the video thread: program counter, buffer size, and whether
                            \* the sample turned the picture (for the properties only)
    audio,                  \* program counters of the audio thread,
    attach,                 \* of each connection's ready handler, with its snapshot,
    vtStep,                 \* of the callback thread inside onFormat or onEncodedFrame,
    finish,                 \* and of broadcastFinished once the server is stopped
    events,                 \* the events of this behaviour, chosen once by Init
    shown                   \* history: clients handed a keyframe after a config packet

Server == INSTANCE MirrorServer
Encoder == INSTANCE H264Encoder

serverVars == <<connections, primed, inFlight, sendList, removals, conn, wire,
                listener, listeners, advertisementDisabled, life, active, fedBare, lastConfig>>
encoderVars == <<session, dims, forceNextKeyframe, queue, created, fresh, vt, callback, out>>
handlerVars == <<parameterSets, orientation, video, audio, attach, vtStep, finish, events>>
vars == <<serverVars, encoderVars, handlerVars, shown>>

HandlerTypeOK ==
    /\ parameterSets \in 0..created
    /\ orientation \in Orientations
    /\ video \in [pc : {"idle", "orient", "request", "encode", "encoding"},
                 dims : Dims \cup {Encoder!NoDims}, turned : BOOLEAN]
    /\ audio \in {"idle", "send", "sending"}
    /\ attach \in [Clients -> [pc : {"idle", "snapshot", "send", "sending", "request", "done"},
                               sets : 0..created]]
    /\ vtStep \in {"enter", "send", "sending"}
    /\ finish \in {"idle", "invalidating", "done"}
    /\ shown \subseteq Clients
    /\ events \in Scenarios

NoSample == [pc |-> "idle", dims |-> Encoder!NoDims, turned |-> FALSE]

Init ==
    /\ Server!ServerInit
    /\ Encoder!EncoderInit
    /\ parameterSets = 0
    /\ orientation \in Orientations
    /\ video = NoSample
    /\ audio = "idle"
    /\ attach = [c \in Clients |-> [pc |-> "idle", sets |-> 0]]
    /\ vtStep = "enter"
    /\ finish = "idle"
    /\ shown = {}
    /\ events \in Scenarios

hasClients == connections # {}

\* What the world does in this behaviour: samples of the two kinds, a pause that ends,
\* the end of the broadcast, failures of the listener and of connections.
Happens(event) == event \in events

\* ReplayKit delivers samples from the return of broadcastStarted to its call of
\* broadcastFinished; a delivery may still be running then.
Delivering == life["main"] = "running"

Config(s) == [type |-> "config", session |-> s]

-----------------------------------------------------------------------------
(* The video thread.                                                       *)

\* processSampleBuffer: the guard on hasClients.
VideoArrives(d) ==
    /\ Happens("video") /\ video.pc = "idle" /\ Delivering
    /\ hasClients
    /\ video' = [pc |-> "orient", dims |-> d, turned |-> FALSE]
    /\ UNCHANGED <<serverVars, encoderVars, parameterSets, orientation, audio, attach,
                   vtStep, finish, shown, events>>

\* Mutant: the keyframe is not requested.
UpdateOrientationSilently(o) ==
    /\ video.pc = "orient"
    /\ orientation' = o
    /\ video' = [video EXCEPT !.pc = "encode", !.turned = (o # orientation)]
    /\ UNCHANGED <<serverVars, encoderVars, parameterSets, audio, attach, vtStep, finish, shown, events>>

\* updateOrientation; a sample without the attachment leaves it as it is.
UpdateOrientation(o) ==
    /\ video.pc = "orient"
    /\ orientation' = o
    /\ video' = [video EXCEPT !.pc = IF o # orientation THEN "request" ELSE "encode",
                              !.turned = (o # orientation)]
    /\ UNCHANGED <<serverVars, encoderVars, parameterSets, audio, attach, vtStep, finish, shown, events>>

VideoRequestsKeyframe ==
    /\ video.pc = "request"
    /\ Encoder!RequestKeyframe
    /\ video' = [video EXCEPT !.pc = "encode"]
    /\ UNCHANGED <<serverVars, parameterSets, orientation, audio, attach, vtStep, finish, shown, events>>

VideoEncodes ==
    /\ video.pc = "encode"
    /\ Encoder!EncodeCall("video", video.dims)
    /\ video' = [video EXCEPT !.pc = "encoding"]
    /\ UNCHANGED <<serverVars, parameterSets, orientation, audio, attach, vtStep, finish, shown, events>>

VideoReturns ==
    /\ video.pc = "encoding" /\ ~Encoder!Blocked("video")
    /\ video' = NoSample
    /\ UNCHANGED <<serverVars, encoderVars, parameterSets, orientation, audio, attach,
                   vtStep, finish, shown, events>>

VideoStep ==
    \/ \E o \in Orientations : UpdateOrientation(o)
    \/ VideoRequestsKeyframe \/ VideoEncodes \/ VideoReturns

-----------------------------------------------------------------------------
(* The audio thread.                                                       *)

AudioArrives ==
    /\ Happens("audio") /\ audio = "idle" /\ Delivering
    /\ hasClients
    /\ audio' = "send"
    /\ UNCHANGED <<serverVars, encoderVars, parameterSets, orientation, video, attach,
                   vtStep, finish, shown, events>>

AudioSends ==
    /\ audio = "send"
    /\ Server!Send("audio", [type |-> "audio"])
    /\ audio' = "sending"
    /\ UNCHANGED <<encoderVars, parameterSets, orientation, video, attach, vtStep, finish, shown, events>>

AudioReturns ==
    /\ audio = "sending" /\ ~Server!Sending("audio")
    /\ audio' = "idle"
    /\ UNCHANGED <<serverVars, encoderVars, parameterSets, orientation, video, attach,
                   vtStep, finish, shown, events>>

-----------------------------------------------------------------------------
(* VideoToolbox's thread.                                                  *)

\* Mutants: onFormat sends the sets and does not store them, or stores another session's.
StoreSetsForgotten ==
    /\ callback = "format" /\ vtStep = "enter"
    /\ vtStep' = "send"
    /\ UNCHANGED <<serverVars, encoderVars, parameterSets, orientation, video, audio, attach,
                   finish, shown, events>>
StoreSetsOfNext ==
    /\ callback = "format" /\ vtStep = "enter"
    /\ parameterSets' = Head(vt).session + 1
    /\ vtStep' = "send"
    /\ UNCHANGED <<serverVars, encoderVars, orientation, video, audio, attach, finish, shown, events>>

\* onFormat stores the sets under stateLock before it sends them.
StoreSets ==
    /\ callback = "format" /\ vtStep = "enter"
    /\ parameterSets' = Head(vt).session
    /\ vtStep' = "send"
    /\ UNCHANGED <<serverVars, encoderVars, orientation, video, audio, attach, finish, shown, events>>

VtSends ==
    LET kind == IF callback = "format" THEN "config" ELSE callback IN
    /\ \/ callback = "format" /\ vtStep = "send"
       \/ callback \in {"keyframe", "frame"} /\ vtStep = "enter"
    /\ Server!Send("vt", [type |-> kind, session |-> Head(vt).session])
    /\ vtStep' = "sending"
    /\ UNCHANGED <<encoderVars, parameterSets, orientation, video, audio, attach, finish, shown, events>>

VtReturns ==
    /\ vtStep = "sending" /\ ~Server!Sending("vt")
    /\ vtStep' = "enter"
    /\ Encoder!FormatReturns \/ Encoder!FrameReturns
    /\ UNCHANGED <<serverVars, parameterSets, orientation, video, audio, attach, finish, shown, events>>

\* The steps of VideoToolbox and handleEncoded that do not reach SampleHandler.
VtInternal ==
    /\ vtStep = "enter"
    /\ \/ Encoder!DropFrame \/ Encoder!EncodeFrame
       \/ Encoder!FormatMissing \/ Encoder!FrameEmpty
    /\ UNCHANGED <<serverVars, handlerVars, shown>>

-----------------------------------------------------------------------------
(* Ready handlers: onClientConnected.                                      *)

AttachGoto(c, pc) == attach' = [attach EXCEPT ![c].pc = pc]

ClientReady(c) ==
    /\ Server!Ready(c)
    /\ AttachGoto(c, "snapshot")
    /\ UNCHANGED <<encoderVars, parameterSets, orientation, video, audio, vtStep, finish, shown, events>>

\* The parameter sets are read under stateLock ...
AttachSnapshot(c) ==
    /\ attach[c].pc = "snapshot"
    /\ attach' = [attach EXCEPT ![c] =
                    [pc |-> IF parameterSets # 0 THEN "send" ELSE "request",
                     sets |-> parameterSets]]
    /\ UNCHANGED <<serverVars, encoderVars, parameterSets, orientation, video, audio,
                   vtStep, finish, shown, events>>

\* ... and sent, to every client, after it is released.
AttachSends(c) ==
    /\ attach[c].pc = "send"
    /\ Server!Send(c, Config(attach[c].sets))
    /\ AttachGoto(c, "sending")
    /\ UNCHANGED <<encoderVars, parameterSets, orientation, video, audio, vtStep, finish, shown, events>>

AttachSent(c) ==
    /\ attach[c].pc = "sending" /\ ~Server!Sending(c)
    /\ AttachGoto(c, "request")
    /\ UNCHANGED <<serverVars, encoderVars, parameterSets, orientation, video, audio,
                   vtStep, finish, shown, events>>

AttachRequestsKeyframe(c) ==
    /\ attach[c].pc = "request"
    /\ Encoder!RequestKeyframe
    /\ AttachGoto(c, "done")
    /\ UNCHANGED <<serverVars, parameterSets, orientation, video, audio, vtStep, finish, shown, events>>

AttachStep(c) ==
    AttachSnapshot(c) \/ AttachSends(c) \/ AttachSent(c) \/ AttachRequestsKeyframe(c)

-----------------------------------------------------------------------------
(* The life of the broadcast.                                              *)

BroadcastResumed ==
    /\ Happens("resume") /\ Delivering
    /\ Encoder!RequestKeyframe
    /\ UNCHANGED <<serverVars, handlerVars, shown>>

\* broadcastFinished: server.stop() has returned, encoder.invalidate() follows.
FinishInvalidates ==
    /\ life["main"] = "finished" /\ finish = "idle"
    /\ Encoder!InvalidateCall("main")
    /\ finish' = "invalidating"
    /\ UNCHANGED <<serverVars, parameterSets, orientation, video, audio, attach, vtStep, shown, events>>

FinishReturns ==
    /\ finish = "invalidating" /\ ~Encoder!Blocked("main")
    /\ finish' = "done"
    /\ UNCHANGED <<serverVars, encoderVars, parameterSets, orientation, video, audio,
                   attach, vtStep, shown, events>>

-----------------------------------------------------------------------------
HandsOver(t, c) ==
    /\ Server!Handoff(t, c)
    /\ shown' = IF sendList[t].pkt.type = "keyframe" /\ lastConfig[c].type = "config"
                THEN shown \cup {c} ELSE shown
    /\ UNCHANGED <<encoderVars, handlerVars>>

\* The steps of the server that call nothing in SampleHandler.
ServerInternal ==
    /\ \/ Server!Start \/ Server!RetryDisable
       \/ Happens("finish") /\ Server!Finish
       \/ \E t \in Server!Lifecycle : Server!LifeStep(t)
       \/ Happens("listenerFails") /\ \E k \in 1..Len(listeners) : Server!ListenerFails(k)
       \/ \E c \in Clients :
             \/ Server!Arrive(c) \/ Server!Accept(c) \/ Server!AcceptStart(c)
             \/ Happens("connectionFails") /\ Server!Fail(c)
             \/ Server!Remove(c) \/ Server!Complete(c)
    /\ UNCHANGED <<encoderVars, handlerVars, shown>>

EncoderBlock == Encoder!QueueStep /\ UNCHANGED <<serverVars, handlerVars, shown>>

\* The broadcast is over and no thread is left inside the program.
Terminated ==
    /\ finish = "done"
    /\ video.pc = "idle" /\ audio = "idle" /\ queue = <<>> /\ vt = <<>>
    /\ \A c \in Clients : attach[c].pc \in {"idle", "done"}
    /\ \A t \in Senders : ~Server!Sending(t)
    /\ UNCHANGED vars

Next ==
    \/ Terminated
    \/ ServerInternal \/ EncoderBlock \/ VtInternal
    \/ \E t \in Senders, c \in Clients : HandsOver(t, c)
    \/ \E d \in Dims : VideoArrives(d)
    \/ VideoStep
    \/ AudioArrives \/ AudioSends \/ AudioReturns
    \/ StoreSets \/ VtSends \/ VtReturns
    \/ \E c \in Clients : ClientReady(c) \/ AttachStep(c)
    \/ BroadcastResumed \/ FinishInvalidates \/ FinishReturns

Spec == Init /\ [][Next]_vars

\* The threads, the queue, VideoToolbox and the server's handlers keep running.
VtStep == StoreSets \/ VtSends \/ VtReturns \/ VtInternal
ThreadFairness ==
    /\ WF_vars(VideoStep) /\ WF_vars(EncoderBlock) /\ WF_vars(VtStep)
    /\ \A c \in Clients : WF_vars(AttachStep(c))
    /\ WF_vars(FinishInvalidates) /\ WF_vars(FinishReturns)
    /\ Server!ServerFairness

\* ReplayKit keeps delivering video; VideoToolbox and the extraction of its output may
\* fail, but not for ever, and it keeps putting out its periodic keyframes.
EncoderAccepts == EncoderBlock /\ Len(vt') > Len(vt)
EncoderPutsOutKeyframe == VtInternal /\ callback' = "format" /\ callback # "format"
KeyframeSent == VtSends /\ callback = "keyframe"
PictureFairness ==
    /\ \A d \in Dims : WF_vars(VideoArrives(d))
    /\ SF_vars(EncoderAccepts) /\ SF_vars(EncoderPutsOutKeyframe)
    /\ SF_vars(StoreSets) /\ SF_vars(KeyframeSent)

ThreadFairSpec == Spec /\ ThreadFairness
FairSpec == ThreadFairSpec /\ PictureFairness
-----------------------------------------------------------------------------
(* Properties.                                                             *)

\* The sets a newcomer would be sent are at least as new as any a desktop has been
\* handed or is about to be: onFormat stores before it sends, so no desktop that
\* attaches in between is behind the others.
ConfigsInFlight(c) ==
    {sendList[t].pkt : t \in {u \in Senders : c \in sendList[u].to}} \cup {lastConfig[c]}
LatestSetsStored ==
    \A c \in Clients : \A p \in ConfigsInFlight(c) :
        p.type = "config" => p.session <= parameterSets

\* The frame of the sample that turned the picture is a keyframe, whatever other
\* threads put on the encoder's queue: no desktop keeps painting the old shape.
VideoFrameSubmitted ==
    Len(vt') > Len(vt) /\ Head(queue).op = "encode" /\ Head(queue).by = "video"
TurnForcesKeyframe ==
    [][VideoFrameSubmitted /\ video.turned => vt'[Len(vt')].forced]_vars

\* broadcastFinished returns: the wait for the encoder's queue, the queue's wait for
\* VideoToolbox's callbacks and the callbacks' use of the server it has just stopped
\* never wait on each other.
FinishReturned == life["main"] = "stop" ~> finish = "done"

\* The server's promises, with the callers it has: its decisions are those of its contract
\* ClientFeed, and a dead connection is forgotten for good, in the dictionary and in the
\* counters, while samples, callbacks and the end of the broadcast go on using it.
ImplementsClientFeed == Server!ImplementsClientFeed
DeadForgotten == Server!DeadForgotten

\* A desktop that stays connected and keeps up gets parameter sets and then a
\* keyframe, whatever was lost, as long as the broadcast runs.
AttachedGetsPicture ==
    \A c \in Clients :
        conn[c] = "ready" ~>
            \/ c \in shown
            \/ conn[c] # "ready" \/ inFlight[c] > maxInFlightBytes \/ ~Delivering

\* Statement of a comment that the code does not keep, see README.
\* "Latest parameter sets, resent to each client that attaches."
ConfigsNeverGoBack ==
    [][\A c \in Clients :
         lastConfig'[c] # lastConfig[c] /\ lastConfig[c].type = "config"
             => lastConfig'[c].session > lastConfig[c].session]_vars
=============================================================================
