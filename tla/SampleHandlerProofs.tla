------------------------- MODULE SampleHandlerProofs -------------------------
(***************************************************************************)
(* The broadcast extension for any desktops, pictures and bounds.  Its      *)
(* steps are steps of the server and of the encoder, so what is proved of   *)
(* the two alone holds of them in the composition; on that rests what the   *)
(* handlers themselves promise.                                             *)
(***************************************************************************)
EXTENDS SampleHandler, SequenceTheorems, TLAPS

ServerP == INSTANCE MirrorServerProofs
EncoderP == INSTANCE H264EncoderProofs

(* What the theorems about the two components assume of their constants. *)
LEMMA ServerSizes ==
    /\ maxInFlightBytes \in Nat
    /\ LargestPacket \in Nat
    /\ PacketSize \in [ServerP!PacketTypes -> 1..LargestPacket]
BY SizesAssumption DEF ServerP!PacketTypes, PacketTypes

LEMMA ServerPackets ==
    /\ \A p \in Packets : p.type \in ServerP!PacketTypes
    /\ Packets # {}
<1>1. [type |-> "audio"] \in Packets
  BY DEF Packets
<1>2. \A p \in Packets : p.type \in PacketTypes
  BY DEF Packets, PacketTypes
<1>. QED  BY <1>1, <1>2 DEF ServerP!PacketTypes, PacketTypes

LEMMA EncoderBounds ==
    /\ MaxSessions \in Nat /\ MaxBlocks \in Nat /\ MaxFrames \in Nat
    /\ EncoderP!NoDims \notin Dims
BY EncoderAssumption DEF EncoderP!NoDims

(* The components the handler drives are those the theorems are about. *)
LEMMA SameServer ==
    /\ Server!ServerInit <=> ServerP!ServerInit
    /\ [Server!Next]_Server!serverVars <=> [ServerP!Next]_ServerP!serverVars
BY DEF Server!ServerInit, ServerP!ServerInit, Server!Next, ServerP!Next, Server!ServerStep,
       ServerP!ServerStep, Server!Start, ServerP!Start, Server!Finish, ServerP!Finish,
       Server!RetryDisable, ServerP!RetryDisable, Server!LifeStep, ServerP!LifeStep,
       Server!StartCreate, ServerP!StartCreate, Server!StartAssign, ServerP!StartAssign,
       Server!StopClear, ServerP!StopClear, Server!StopCancel, ServerP!StopCancel,
       Server!StopNil, ServerP!StopNil, Server!StopConnection, ServerP!StopConnection,
       Server!ListenerFails, ServerP!ListenerFails, Server!Arrive, ServerP!Arrive,
       Server!Accept, ServerP!Accept, Server!AcceptStart, ServerP!AcceptStart, Server!Ready,
       ServerP!Ready, Server!Fail, ServerP!Fail, Server!Remove, ServerP!Remove,
       Server!Complete, ServerP!Complete, Server!Handoff, ServerP!Handoff, Server!Send,
       ServerP!Send, Server!Goto, ServerP!Goto, Server!AfterStart, ServerP!AfterStart,
       Server!AfterStop, ServerP!AfterStop, Server!ServiceOf, ServerP!ServiceOf,
       Server!SetPhase, ServerP!SetPhase, Server!Sending, ServerP!Sending, Server!Admitted,
       ServerP!Admitted, Server!Pending, ServerP!Pending, Server!Idle, ServerP!Idle,
       Server!NoPacket, ServerP!NoPacket, Server!Size, ServerP!Size, Server!sendVars,
       ServerP!sendVars, Server!listenVars, ServerP!listenVars, Server!serverVars,
       ServerP!serverVars, Server!Lifecycle, ServerP!Lifecycle, Server!Dead, ServerP!Dead

LEMMA SameEncoder ==
    /\ Encoder!EncoderInit <=> EncoderP!EncoderInit
    /\ [Encoder!EncoderNext]_Encoder!encoderVars
         <=> [EncoderP!EncoderNext]_EncoderP!encoderVars
BY DEF Encoder!EncoderInit, EncoderP!EncoderInit, Encoder!EncoderNext, EncoderP!EncoderNext,
       Encoder!EncodeCall, EncoderP!EncodeCall, Encoder!InvalidateCall,
       EncoderP!InvalidateCall, Encoder!RequestKeyframe, EncoderP!RequestKeyframe,
       Encoder!Enqueue, EncoderP!Enqueue, Encoder!Blocked, EncoderP!Blocked,
       Encoder!QueueStep, EncoderP!QueueStep, Encoder!RunKey, EncoderP!RunKey,
       Encoder!RunInvalidate, EncoderP!RunInvalidate, Encoder!RunEncode, EncoderP!RunEncode,
       Encoder!RunEncodeAnew, EncoderP!RunEncodeAnew, Encoder!RunEncodeFails,
       EncoderP!RunEncodeFails, Encoder!NextBlock, EncoderP!NextBlock, Encoder!Drained,
       EncoderP!Drained, Encoder!Submit, EncoderP!Submit, Encoder!CallbackStep,
       EncoderP!CallbackStep, Encoder!DropFrame, EncoderP!DropFrame, Encoder!EncodeFrame,
       EncoderP!EncodeFrame, Encoder!FormatReturns, EncoderP!FormatReturns,
       Encoder!FormatMissing, EncoderP!FormatMissing, Encoder!FrameReturns,
       EncoderP!FrameReturns, Encoder!FrameEmpty, EncoderP!FrameEmpty, Encoder!Publish,
       EncoderP!Publish, Encoder!NoDims, EncoderP!NoDims, Encoder!encoderVars,
       EncoderP!encoderVars

-----------------------------------------------------------------------------
(* The inductive invariant.                                                 *)

(* A delivery of video that has begun has a size. *)
VideoOK ==
    /\ video.pc # "idle" => video.dims \in Dims
    /\ video.turned => video.pc \in {"request", "encode", "encoding"}

(* A snapshot of the parameter sets is never newer than the stored ones, those stored
   never newer than the session of the frame in the callback. *)
SetsInv ==
    /\ created <= MaxSessions
    /\ \A c \in Clients : attach[c].sets <= parameterSets
    /\ \A c \in Clients : attach[c].pc = "send" => attach[c].sets # 0
    /\ vtStep = "send" => callback = "format" /\ parameterSets = Head(vt).session

(* Only the video thread encodes, one buffer at a time, so nothing takes the force flag
   between its request of a keyframe and the block that encodes its sample. *)
KeyBefore(n) == forceNextKeyframe \/ \E k \in 1..n : queue[k].op = "key"
KeyInv ==
    /\ \A i \in 1..Len(queue) : queue[i].op = "encode" =>
           video.pc = "encoding" /\ queue[i].by = "video"
    /\ \A i, j \in 1..Len(queue) : queue[i].op = "encode" /\ queue[j].op = "encode" => i = j
    /\ video.turned /\ video.pc = "encode" => KeyBefore(Len(queue))
    /\ video.turned => \A i \in 1..Len(queue) : queue[i].op = "encode" => KeyBefore(i)

PartsInv == ServerP!IInv /\ EncoderP!IInv
HInv == PartsInv /\ HandlerTypeOK /\ VideoOK /\ SetsInv

-----------------------------------------------------------------------------
(* The steps are steps of the components.                                   *)

LEMMA ConfigIsPacket ==
    ASSUME NEW n \in 1..MaxSessions, NEW kind \in {"config", "keyframe", "frame"}
    PROVE  [type |-> kind, session |-> n] \in Packets
BY DEF Packets, PacketTypes

(* The frame in a callback is of the last session created. *)
LEMMA FrameInCallback ==
    ASSUME HInv, callback # "idle"
    PROVE  /\ vt # <<>> /\ vt \in Seq(EncoderP!Frames)
           /\ Head(vt).session = created /\ created \in 1..MaxSessions
<1>1. vt # <<>>
  BY DEF HInv, PartsInv, EncoderP!IInv, EncoderP!StreamInv
<1>2. Head(vt).session = session /\ session \in 1..created
  BY <1>1, EncoderBounds, EncoderP!TailOfFrames DEF HInv, PartsInv
<1>3. session = created /\ created \in Nat /\ vt \in Seq(EncoderP!Frames)
  BY <1>2 DEF HInv, PartsInv, EncoderP!IInv, EncoderP!StreamInv, EncoderP!EncoderTypeOK
<1>. QED  BY <1>1, <1>2, <1>3, EncoderBounds DEF HInv, SetsInv

LEMMA ServerStepOK == HInv /\ [Next]_vars => [ServerP!Next]_ServerP!serverVars
<1> SUFFICES ASSUME HInv, [Next]_vars PROVE [Server!Next]_Server!serverVars
  BY SameServer
<1>1. ASSUME UNCHANGED serverVars PROVE [Server!Next]_Server!serverVars
  BY <1>1 DEF serverVars, Server!serverVars, Server!sendVars, Server!listenVars
<1>2. CASE ServerInternal
  BY <1>2 DEF ServerInternal, Server!Next, Server!ServerStep
<1>3. ASSUME NEW t \in Senders, NEW c \in Clients, HandsOver(t, c) PROVE Server!Next
  BY <1>3 DEF HandsOver, Server!Next, Server!ServerStep
<1>4. CASE VtSends
  <2> DEFINE kind == IF callback = "format" THEN "config" ELSE callback
             p == [type |-> kind, session |-> Head(vt).session]
  <2>1. Server!Send("vt", p)
    BY <1>4 DEF VtSends
  <2>2. callback \in {"format", "keyframe", "frame"}
    BY <1>4 DEF VtSends
  <2>3. p \in Packets
    BY <2>2, FrameInCallback, ConfigIsPacket
  <2>4. "vt" \in Senders
    BY DEF Senders
  <2>. HIDE DEF p
  <2>. QED  BY <2>1, <2>3, <2>4 DEF Server!Next
<1>5. CASE AudioSends
  <2>1. [type |-> "audio"] \in Packets /\ "audio" \in Senders
    BY DEF Packets, Senders
  <2>. QED  BY <1>5, <2>1 DEF AudioSends, Server!Next
<1>6. ASSUME NEW c \in Clients, ClientReady(c) PROVE Server!Next
  BY <1>6 DEF ClientReady, Server!Next, Server!ServerStep
<1>7. ASSUME NEW c \in Clients, AttachSends(c) PROVE Server!Next
  <2>1. attach[c].sets \in 1..MaxSessions
    <3>1. attach[c].sets \in 0..created /\ created \in Nat /\ created <= MaxSessions
      BY DEF HInv, HandlerTypeOK, SetsInv, PartsInv, EncoderP!IInv, EncoderP!EncoderTypeOK
    <3>2. attach[c].sets # 0
      BY <1>7 DEF AttachSends, HInv, SetsInv
    <3>. QED  BY <3>1, <3>2, EncoderBounds
  <2>2. Config(attach[c].sets) \in Packets
    BY <2>1, ConfigIsPacket DEF Config
  <2>3. c \in Senders
    BY DEF Senders
  <2>. QED  BY <1>7, <2>2, <2>3 DEF AttachSends, Server!Next
<1>8. CASE EncoderBlock \/ VtInternal \/ VideoStep \/ AudioArrives \/ AudioReturns
           \/ StoreSets \/ VtReturns \/ BroadcastResumed \/ FinishInvalidates \/ FinishReturns
           \/ Terminated \/ (\E d \in Dims : VideoArrives(d))
           \/ \E c \in Clients : AttachSnapshot(c) \/ AttachSent(c) \/ AttachRequestsKeyframe(c)
  <2>1. UNCHANGED serverVars
    BY <1>8 DEF EncoderBlock, VtInternal, VideoStep, UpdateOrientation, VideoRequestsKeyframe,
                VideoEncodes, VideoReturns, AudioArrives, AudioReturns, StoreSets, VtReturns,
                BroadcastResumed, FinishInvalidates, FinishReturns, Terminated, VideoArrives,
                AttachSnapshot, AttachSent, AttachRequestsKeyframe, vars
  <2>. QED  BY <1>1, <2>1
<1>9. CASE UNCHANGED vars
  BY <1>1, <1>9 DEF vars
<1>. QED
  BY <1>2, <1>3, <1>4, <1>5, <1>6, <1>7, <1>8, <1>9 DEF Next, AttachStep

LEMMA EncoderStepOK == HInv /\ [Next]_vars => [EncoderP!EncoderNext]_EncoderP!encoderVars
<1> SUFFICES ASSUME HInv, [Next]_vars PROVE [Encoder!EncoderNext]_Encoder!encoderVars
  BY SameEncoder
<1>1. ASSUME UNCHANGED encoderVars PROVE [Encoder!EncoderNext]_Encoder!encoderVars
  BY <1>1 DEF encoderVars, Encoder!encoderVars
<1>2. CASE VideoEncodes
  <2>1. video.dims \in Dims /\ "video" \in Callers
    BY <1>2 DEF VideoEncodes, HInv, VideoOK, Callers
  <2>. QED  BY <1>2, <2>1 DEF VideoEncodes, Encoder!EncoderNext
<1>3. CASE FinishInvalidates
  <2>1. "main" \in Callers
    BY DEF Callers
  <2>. QED  BY <1>3, <2>1 DEF FinishInvalidates, Encoder!EncoderNext
<1>4. CASE VideoRequestsKeyframe \/ BroadcastResumed
           \/ \E c \in Clients : AttachRequestsKeyframe(c)
  BY <1>4 DEF VideoRequestsKeyframe, BroadcastResumed, AttachRequestsKeyframe,
              Encoder!EncoderNext
<1>5. CASE EncoderBlock \/ VtInternal \/ VtReturns
  BY <1>5 DEF EncoderBlock, VtInternal, VtReturns, Encoder!EncoderNext, Encoder!CallbackStep
<1>6. CASE ServerInternal \/ AudioArrives \/ AudioSends \/ AudioReturns \/ StoreSets \/ VtSends
           \/ FinishReturns \/ Terminated \/ VideoReturns \/ (\E d \in Dims : VideoArrives(d))
           \/ (\E o \in Orientations : UpdateOrientation(o))
           \/ (\E t \in Senders, c \in Clients : HandsOver(t, c))
           \/ \E c \in Clients : ClientReady(c) \/ AttachSnapshot(c) \/ AttachSends(c) \/ AttachSent(c)
  <2>1. UNCHANGED encoderVars
    BY <1>6 DEF ServerInternal, AudioArrives, AudioSends, AudioReturns, StoreSets, VtSends,
                FinishReturns, Terminated, VideoReturns, VideoArrives, UpdateOrientation,
                HandsOver, ClientReady, AttachSnapshot, AttachSends, AttachSent, vars
  <2>. QED  BY <1>1, <2>1
<1>7. CASE UNCHANGED vars
  BY <1>1, <1>7 DEF vars
<1>. QED
  BY <1>2, <1>3, <1>4, <1>5, <1>6, <1>7 DEF Next, AttachStep, VideoStep

-----------------------------------------------------------------------------
(* The handler's own invariant.                                             *)

(* A block of the queue leaves the callback and its frame alone, and may create the
   next session. *)
LEMMA BlockShape ==
    ASSUME HInv, EncoderBlock
    PROVE  /\ UNCHANGED <<serverVars, handlerVars, shown, callback>>
           /\ created' \in 0..MaxSessions /\ created <= created'
           /\ vt # <<>> => Head(vt') = Head(vt)
<1>1. UNCHANGED <<serverVars, handlerVars, shown, callback>>
  BY DEF EncoderBlock, Encoder!QueueStep, Encoder!RunKey, Encoder!RunInvalidate,
         Encoder!RunEncode, Encoder!RunEncodeAnew, Encoder!RunEncodeFails, Encoder!Submit
<1>2. created \in Nat /\ created <= MaxSessions /\ MaxSessions \in Nat
      /\ vt \in Seq(EncoderP!Frames)
  BY EncoderBounds DEF HInv, SetsInv, PartsInv, EncoderP!IInv, EncoderP!EncoderTypeOK
<1>3. created' = created \/ (created < MaxSessions /\ created' = created + 1)
  BY DEF EncoderBlock, Encoder!QueueStep, Encoder!RunKey, Encoder!RunInvalidate,
         Encoder!RunEncode, Encoder!RunEncodeAnew, Encoder!RunEncodeFails
<1>4. vt' = vt \/ \E f : vt' = Append(vt, f)
  BY DEF EncoderBlock, Encoder!QueueStep, Encoder!RunKey, Encoder!RunInvalidate,
         Encoder!RunEncode, Encoder!RunEncodeAnew, Encoder!RunEncodeFails, Encoder!Submit
<1>5. vt # <<>> => Head(vt') = Head(vt)
  <2>1. ASSUME NEW f, vt # <<>> PROVE Head(Append(vt, f)) = Head(vt)
    <3>1. Len(vt) \in Nat /\ Len(vt) # 0
      BY <1>2, <2>1, EmptySeq
    <3>2. Append(vt, f)[1] = vt[1]
      BY <1>2, <3>1
    <3>. QED  BY <1>2, <3>1, <3>2
  <2>. QED  BY <1>4, <2>1
<1>. QED  BY <1>1, <1>2, <1>3, <1>5

(* Every other step leaves the sessions alone. *)
LEMMA OtherSteps ==
    ASSUME [Next]_vars, ~EncoderBlock
    PROVE  UNCHANGED created
BY DEF Next, vars, encoderVars, Terminated, ServerInternal, VtInternal, HandsOver, VideoArrives,
       VideoStep, UpdateOrientation, VideoRequestsKeyframe, VideoEncodes, VideoReturns,
       AudioArrives, AudioSends, AudioReturns, StoreSets, VtSends, VtReturns, ClientReady,
       AttachStep, AttachSnapshot, AttachSends, AttachSent, AttachRequestsKeyframe,
       BroadcastResumed, FinishInvalidates, FinishReturns, Encoder!RequestKeyframe,
       Encoder!EncodeCall, Encoder!InvalidateCall, Encoder!Enqueue, Encoder!DropFrame,
       Encoder!EncodeFrame, Encoder!FormatMissing, Encoder!FrameEmpty, Encoder!FormatReturns,
       Encoder!FrameReturns

(* What the handlers keep of themselves. *)
HandlerOK == HandlerTypeOK /\ VideoOK /\ SetsInv

LEMMA HandlerInitOK == Init => HInv
<1> SUFFICES ASSUME Init PROVE HInv
  OBVIOUS
<1>1. ServerP!IInv
  BY SameServer, ServerSizes, ServerPackets, ServerP!TypeInit DEF Init
<1>2. EncoderP!IInv
  BY SameEncoder, EncoderBounds, EncoderP!EncoderInitOK DEF Init
<1>3. created = 0 /\ 0 \in 0..created /\ 0 <= MaxSessions
  BY EncoderBounds DEF Init, Encoder!EncoderInit
<1>4. HandlerOK
  BY <1>3 DEF Init, HandlerOK, HandlerTypeOK, VideoOK, SetsInv, NoSample
<1>. QED  BY <1>1, <1>2, <1>4 DEF HInv, PartsInv, HandlerOK

LEMMA BlockKeepsHandler ==
    ASSUME HInv, EncoderBlock
    PROVE  HandlerOK'
<1>1. /\ UNCHANGED <<serverVars, handlerVars, shown, callback>>
      /\ created' \in 0..MaxSessions /\ created <= created'
      /\ vt # <<>> => Head(vt') = Head(vt)
  BY BlockShape
<1>2. created \in Nat /\ MaxSessions \in Nat
  BY EncoderBounds DEF HInv, PartsInv, EncoderP!IInv, EncoderP!EncoderTypeOK
<1>3. 0..created \subseteq 0..created'
  BY <1>1, <1>2
<1>4. HandlerTypeOK'
  <2>1. attach' \in [Clients -> [pc : {"idle", "snapshot", "send", "sending", "request", "done"},
                                 sets : 0..created']]
    BY <1>1, <1>3 DEF HInv, HandlerTypeOK, handlerVars
  <2>. QED  BY <1>1, <1>3, <2>1 DEF HInv, HandlerTypeOK, handlerVars
<1>5. VideoOK'
  BY <1>1 DEF HInv, VideoOK, handlerVars
<1>6. SetsInv'
  <2>1. vtStep = "send" => Head(vt') = Head(vt)
    BY <1>1, FrameInCallback DEF HInv, SetsInv
  <2>. QED  BY <1>1, <1>2, <2>1 DEF HInv, SetsInv, handlerVars
<1>. QED  BY <1>4, <1>5, <1>6 DEF HandlerOK

(* The steps of the other threads.  None changes the sessions, and all but those of the
   callback thread leave its frame alone. *)
VideoThread == VideoStep \/ \E d \in Dims : VideoArrives(d)
VtThread == StoreSets \/ VtSends \/ VtReturns \/ VtInternal
AttachThreads == \E c \in Clients : ClientReady(c) \/ AttachStep(c)
OtherThreads ==
    \/ Terminated \/ ServerInternal \/ \E t \in Senders, c \in Clients : HandsOver(t, c)
    \/ AudioArrives \/ AudioSends \/ AudioReturns
    \/ BroadcastResumed \/ FinishInvalidates \/ FinishReturns

LEMMA VideoKeepsHandler ==
    ASSUME HInv, VideoThread, UNCHANGED created
    PROVE  HandlerOK'
<1> USE DEF VideoThread, VideoStep, VideoArrives, UpdateOrientation, VideoRequestsKeyframe,
            VideoEncodes, VideoReturns
<1>1. UNCHANGED <<parameterSets, audio, attach, vtStep, finish, shown, events, callback, vt>>
  BY DEF encoderVars, Encoder!RequestKeyframe, Encoder!EncodeCall, Encoder!Enqueue
<1>2. /\ video \in [pc : {"idle", "orient", "request", "encode", "encoding"},
                    dims : Dims \cup {Encoder!NoDims}, turned : BOOLEAN]
      /\ orientation \in Orientations
  BY DEF HInv, HandlerTypeOK
<1> DEFINE Kept == /\ video' \in [pc : {"idle", "orient", "request", "encode", "encoding"},
                                  dims : Dims \cup {Encoder!NoDims}, turned : BOOLEAN]
                   /\ orientation' \in Orientations
                   /\ VideoOK'
<1>3. Kept
  <2>. USE DEF VideoOK
  <2>0. VideoOK
    BY DEF HInv
  <2>1. ASSUME NEW d \in Dims, VideoArrives(d) PROVE Kept
    BY <1>2, <2>1
  <2>2. ASSUME NEW o \in Orientations, UpdateOrientation(o) PROVE Kept
    <3>1. /\ orientation' = o /\ video.pc = "orient"
          /\ video' = [video EXCEPT !.pc = IF o # orientation THEN "request" ELSE "encode",
                                    !.turned = (o # orientation)]
      BY <2>2
    <3>2. video' = [pc |-> IF o # orientation THEN "request" ELSE "encode",
                    dims |-> video.dims, turned |-> (o # orientation)]
      BY <1>2, <3>1
    <3>. QED  BY <1>2, <2>0, <3>1, <3>2
  <2>3. CASE VideoRequestsKeyframe
    BY <1>2, <2>0, <2>3
  <2>4. CASE VideoEncodes
    BY <1>2, <2>0, <2>4
  <2>5. CASE VideoReturns
    BY <1>2, <2>5 DEF NoSample
  <2>. QED  BY <2>1, <2>2, <2>3, <2>4, <2>5
<1>5. HandlerTypeOK'
  BY <1>1, <1>3 DEF HInv, HandlerTypeOK
<1>6. SetsInv'
  BY <1>1 DEF HInv, SetsInv
<1>. QED  BY <1>3, <1>5, <1>6 DEF HandlerOK

LEMMA VtKeepsHandler ==
    ASSUME HInv, VtThread, UNCHANGED created
    PROVE  HandlerOK' /\ parameterSets <= parameterSets'
<1>0. /\ created \in Nat /\ parameterSets \in 0..created
      /\ vtStep \in {"enter", "send", "sending"}
      /\ attach \in [Clients -> [pc : {"idle", "snapshot", "send", "sending", "request", "done"},
                                 sets : 0..created]]
  BY DEF HInv, HandlerTypeOK, PartsInv, EncoderP!IInv, EncoderP!EncoderTypeOK
<1>1. UNCHANGED <<orientation, video, audio, attach, finish, shown, events>>
  BY DEF VtThread, StoreSets, VtSends, VtReturns, VtInternal, handlerVars
<1>2. CASE StoreSets
  <2>1. Head(vt).session = created /\ UNCHANGED <<callback, vt>>
    BY <1>2, FrameInCallback DEF StoreSets, encoderVars
  <2>2. parameterSets' = created /\ vtStep' = "send" /\ callback = "format"
    BY <1>2, <2>1 DEF StoreSets
  <2>3. created \in 0..created
    BY <1>0
  <2>4. \A c \in Clients : attach[c].sets <= created
    BY <1>0
  <2>. QED  BY <1>0, <1>1, <2>1, <2>2, <2>3, <2>4
            DEF HInv, HandlerOK, HandlerTypeOK, VideoOK, SetsInv
<1>3. CASE VtSends \/ VtReturns \/ VtInternal
  <2>1. parameterSets' = parameterSets /\ vtStep' \in {"enter", "sending"}
    BY <1>0, <1>3 DEF VtSends, VtReturns, VtInternal, handlerVars
  <2>. QED  BY <1>0, <1>1, <2>1 DEF HInv, HandlerOK, HandlerTypeOK, VideoOK, SetsInv
<1>. QED  BY <1>2, <1>3 DEF VtThread

LEMMA AttachKeepsHandler ==
    ASSUME HInv, AttachThreads, UNCHANGED created
    PROVE  HandlerOK'
<1> USE DEF AttachThreads, ClientReady, AttachStep, AttachSnapshot, AttachSends, AttachSent,
            AttachRequestsKeyframe, AttachGoto
<1>1. UNCHANGED <<parameterSets, orientation, video, audio, vtStep, finish, shown, events,
                  callback, vt>>
  BY DEF encoderVars, Encoder!RequestKeyframe, Encoder!Enqueue
<1>2. /\ attach \in [Clients -> [pc : {"idle", "snapshot", "send", "sending", "request", "done"},
                                 sets : 0..created]]
      /\ parameterSets \in 0..created /\ created \in Nat
  BY DEF HInv, HandlerTypeOK, PartsInv, EncoderP!IInv, EncoderP!EncoderTypeOK
<1>3. attach' \in [Clients -> [pc : {"idle", "snapshot", "send", "sending", "request", "done"},
                               sets : 0..created]]
  BY <1>2
<1>4. HandlerTypeOK' /\ VideoOK'
  BY <1>1, <1>3 DEF HInv, HandlerTypeOK, VideoOK
<1>5. (\A c \in Clients : attach'[c].sets <= parameterSets)
      /\ \A c \in Clients : attach'[c].pc = "send" => attach'[c].sets # 0
  BY <1>2 DEF HInv, SetsInv
<1>6. SetsInv'
  BY <1>1, <1>5 DEF HInv, SetsInv
<1>. QED  BY <1>4, <1>6 DEF HandlerOK

LEMMA OtherKeepsHandler ==
    ASSUME HInv, OtherThreads, UNCHANGED created
    PROVE  HandlerOK'
<1> USE DEF Terminated, ServerInternal, HandsOver, AudioArrives, AudioSends, AudioReturns,
            BroadcastResumed, FinishInvalidates, FinishReturns
<1>1. UNCHANGED <<parameterSets, orientation, video, attach, vtStep, events, callback, vt>>
  <2>1. CASE Terminated \/ ServerInternal \/ \E t \in Senders, c \in Clients : HandsOver(t, c)
    BY <2>1 DEF vars, handlerVars, encoderVars
  <2>2. CASE AudioArrives \/ AudioSends \/ AudioReturns \/ FinishReturns
    BY <2>2 DEF encoderVars
  <2>3. CASE BroadcastResumed \/ FinishInvalidates
    BY <2>3 DEF handlerVars, Encoder!RequestKeyframe, Encoder!InvalidateCall, Encoder!Enqueue
  <2>. QED  BY <2>1, <2>2, <2>3 DEF OtherThreads
<1>2. /\ audio' \in {audio, "idle", "send", "sending"}
      /\ finish' \in {finish, "invalidating", "done"}
      /\ shown' \in {shown} \cup {shown \cup {c} : c \in Clients}
  <2>1. CASE Terminated \/ ServerInternal
    BY <2>1 DEF vars, handlerVars
  <2>2. ASSUME NEW t \in Senders, NEW c \in Clients, HandsOver(t, c)
        PROVE  audio' = audio /\ finish' = finish /\ shown' \in {shown, shown \cup {c}}
    BY <2>2 DEF handlerVars
  <2>3. CASE AudioArrives \/ AudioSends \/ AudioReturns \/ FinishReturns \/ FinishInvalidates
    BY <2>3
  <2>4. CASE BroadcastResumed
    BY <2>4 DEF handlerVars
  <2>. QED  BY <2>1, <2>2, <2>3, <2>4 DEF OtherThreads
<1>3. /\ audio' \in {"idle", "send", "sending"} /\ finish' \in {"idle", "invalidating", "done"}
      /\ shown' \subseteq Clients
  BY <1>2 DEF HInv, HandlerTypeOK
<1>. QED  BY <1>1, <1>3 DEF HInv, HandlerOK, HandlerTypeOK, VideoOK, SetsInv

LEMMA HandlerStepOK == HInv /\ [Next]_vars => HInv'
<1> SUFFICES ASSUME HInv, [Next]_vars PROVE HInv'
  OBVIOUS
<1>1. ServerP!IInv'
  <2>1. ServerP!IInv /\ [ServerP!Next]_ServerP!serverVars
    BY ServerStepOK DEF HInv, PartsInv
  <2>. QED  BY <2>1, ServerSizes, ServerPackets, ServerP!TypeStep
<1>2. EncoderP!IInv'
  <2>1. EncoderP!IInv /\ [EncoderP!EncoderNext]_EncoderP!encoderVars
    BY EncoderStepOK DEF HInv, PartsInv
  <2>. QED  BY <2>1, EncoderBounds, EncoderP!EncoderStepOK
<1>3. HandlerOK'
  <2>1. CASE EncoderBlock
    BY <2>1, BlockKeepsHandler
  <2>2. ASSUME ~EncoderBlock, VideoThread \/ VtThread \/ AttachThreads \/ OtherThreads
        PROVE  HandlerOK'
    BY <2>2, OtherSteps, VideoKeepsHandler, VtKeepsHandler, AttachKeepsHandler,
       OtherKeepsHandler
  <2>3. CASE UNCHANGED vars
    BY <2>3 DEF vars, handlerVars, encoderVars, HInv, HandlerOK, HandlerTypeOK, VideoOK, SetsInv
  <2>. QED
    BY <2>1, <2>2, <2>3 DEF Next, VideoThread, VtThread, AttachThreads, OtherThreads
<1>. QED  BY <1>1, <1>2, <1>3 DEF HInv, PartsInv, HandlerOK

(* The variables of the handlers keep their types. *)
THEOREM HandlerTypeCorrect == Spec => []HandlerTypeOK
<1>1. HInv => HandlerTypeOK
  BY DEF HInv
<1>. QED  BY <1>1, HandlerInitOK, HandlerStepOK, PTL DEF Spec

-----------------------------------------------------------------------------
(* Refinement.                                                              *)

(* The server the handlers drive is the server of MirrorServer, with three kinds of caller. *)
THEOREM BroadcastRunsServer == Spec => Server!Spec
<1>1. Init => Server!ServerInit
  BY DEF Init
<1>2. HInv /\ [Next]_vars => [Server!Next]_Server!serverVars
  BY ServerStepOK, SameServer
<1>. QED  BY <1>1, <1>2, HandlerInitOK, HandlerStepOK, PTL DEF Spec, Server!Spec

(* The encoder they drive is the encoder of H264Encoder, with two callers. *)
THEOREM BroadcastRunsEncoder == Spec => Encoder!EncoderSpec
<1>1. Init => Encoder!EncoderInit
  BY DEF Init
<1>2. HInv /\ [Next]_vars => [Encoder!EncoderNext]_Encoder!encoderVars
  BY EncoderStepOK, SameEncoder
<1>. QED  BY <1>1, <1>2, HandlerInitOK, HandlerStepOK, PTL DEF Spec, Encoder!EncoderSpec

LEMMA SameFeed ==
    /\ Server!Feed!Init <=> ServerP!Feed!Init
    /\ [Server!Feed!Next]_Server!Feed!feedVars <=> [ServerP!Feed!Next]_ServerP!Feed!feedVars
BY DEF Server!Feed!Init, ServerP!Feed!Init, Server!Feed!Next, ServerP!Feed!Next,
       Server!Feed!Attach, ServerP!Feed!Attach, Server!Feed!Offer, ServerP!Feed!Offer,
       Server!Feed!Drain, ServerP!Feed!Drain, Server!Feed!Detach, ServerP!Feed!Detach,
       Server!Feed!feedVars, ServerP!Feed!feedVars, Server!Outstanding, ServerP!Outstanding,
       Server!OnLists, ServerP!OnLists, Server!OnWire, ServerP!OnWire, Server!Owed,
       ServerP!Owed, Server!Size, ServerP!Size, Server!SumFunction, ServerP!SumFunction,
       Server!SumFunctionOnSet, ServerP!SumFunctionOnSet, Server!FoldFunctionOnSet,
       ServerP!FoldFunctionOnSet, Server!MapThenFoldSet, ServerP!MapThenFoldSet

(* The desktops' feeds keep the contract of ClientFeed in the running extension. *)
THEOREM BroadcastImplementsFeed == Spec => ImplementsClientFeed
<1>1. ServerP!Spec => ServerP!ImplementsClientFeed
  BY ServerSizes, ServerPackets, ServerP!ServerImplementsFeed
<1>2. Server!Spec => ServerP!Spec
  BY SameServer, PTL DEF Server!Spec, ServerP!Spec
<1>3. ServerP!ImplementsClientFeed => ImplementsClientFeed
  BY SameFeed, PTL DEF ImplementsClientFeed, Server!ImplementsClientFeed, Server!Feed!Spec,
                       ServerP!ImplementsClientFeed, ServerP!Feed!Spec
<1>. QED  BY <1>1, <1>2, <1>3, BroadcastRunsServer

-----------------------------------------------------------------------------
(* A desktop that attaches is never behind the others.                      *)

(* A step sends no packet, begins to send one whose parameter sets are stored, or hands
   one over that a thread is sending. *)
LEMMA SendSteps ==
    ASSUME HInv, [Next]_vars
    PROVE  \/ UNCHANGED <<sendList, lastConfig>>
           \/ /\ UNCHANGED parameterSets
              /\ \E t \in Senders, p \in Packets :
                    /\ Server!Send(t, p)
                    /\ p.type = "config" => p.session <= parameterSets
           \/ /\ UNCHANGED parameterSets
              /\ \E t \in Senders, c \in Clients : Server!Handoff(t, c)
<1> DEFINE Sends == \E t \in Senders, p \in Packets :
                       /\ Server!Send(t, p)
                       /\ p.type = "config" => p.session <= parameterSets
<1>1. CASE ServerInternal
  <2> USE DEF Server!sendVars
  <2>1. ASSUME Server!Start \/ Server!RetryDisable \/ Server!Finish
        PROVE  UNCHANGED <<sendList, lastConfig>>
    BY <2>1 DEF Server!Start, Server!RetryDisable, Server!Finish
  <2>2. ASSUME NEW t \in Server!Lifecycle, Server!LifeStep(t)
        PROVE  UNCHANGED <<sendList, lastConfig>>
    BY <2>2 DEF Server!LifeStep, Server!StartCreate, Server!StartAssign, Server!StopClear,
                Server!StopConnection, Server!StopCancel, Server!StopNil
  <2>3. ASSUME NEW k \in 1..Len(listeners), Server!ListenerFails(k)
        PROVE  UNCHANGED <<sendList, lastConfig>>
    BY <2>3 DEF Server!ListenerFails
  <2>4. ASSUME NEW c \in Clients,
               \/ Server!Arrive(c) \/ Server!Accept(c) \/ Server!AcceptStart(c)
               \/ Server!Fail(c) \/ Server!Remove(c) \/ Server!Complete(c)
        PROVE  UNCHANGED <<sendList, lastConfig>>
    BY <2>4 DEF Server!Arrive, Server!Accept, Server!AcceptStart, Server!Fail, Server!Remove,
                Server!Complete
  <2>. QED  BY <1>1, <2>1, <2>2, <2>3, <2>4 DEF ServerInternal
<1>2. ASSUME NEW t \in Senders, NEW c \in Clients, HandsOver(t, c)
      PROVE  UNCHANGED parameterSets /\ Server!Handoff(t, c)
  BY <1>2 DEF HandsOver, handlerVars
<1>3. CASE VtSends
  <2> DEFINE kind == IF callback = "format" THEN "config" ELSE callback
             p == [type |-> kind, session |-> Head(vt).session]
  <2>1. Server!Send("vt", p) /\ UNCHANGED parameterSets /\ "vt" \in Senders
    BY <1>3 DEF VtSends, Senders
  <2>2. /\ callback \in {"format", "keyframe", "frame"}
        /\ callback = "format" => vtStep = "send"
    BY <1>3 DEF VtSends
  <2>3. p \in Packets
    BY <2>2, FrameInCallback, ConfigIsPacket
  <2>4. callback = "format" => p.session = parameterSets /\ parameterSets \in Nat
    BY <2>2 DEF HInv, SetsInv, HandlerTypeOK, PartsInv, EncoderP!IInv, EncoderP!EncoderTypeOK
  <2>5. p.type = "config" => callback = "format"
    BY <2>2
  <2>6. p.type = "config" => p.session <= parameterSets
    BY <2>4, <2>5
  <2>. HIDE DEF p
  <2>. QED  BY <2>1, <2>3, <2>6
<1>4. CASE AudioSends
  <2>1. [type |-> "audio"] \in Packets /\ "audio" \in Senders
    BY DEF Packets, Senders
  <2>. QED  BY <1>4, <2>1 DEF AudioSends
<1>5. ASSUME NEW c \in Clients, AttachSends(c) PROVE UNCHANGED parameterSets /\ Sends
  <2>1. /\ attach[c].sets \in 0..created /\ created \in Nat /\ created <= MaxSessions
        /\ attach[c].sets # 0 /\ attach[c].sets <= parameterSets
    BY <1>5 DEF AttachSends, HInv, HandlerTypeOK, SetsInv, PartsInv, EncoderP!IInv,
                EncoderP!EncoderTypeOK
  <2>2. attach[c].sets \in 1..MaxSessions
    BY <2>1, EncoderBounds
  <2>3. /\ Config(attach[c].sets) \in Packets
        /\ Config(attach[c].sets).session <= parameterSets
    BY <2>1, <2>2, ConfigIsPacket DEF Config
  <2>. QED  BY <1>5, <2>3 DEF AttachSends, Senders
<1>6. CASE EncoderBlock \/ VtInternal \/ VideoThread \/ AudioArrives \/ AudioReturns
           \/ StoreSets \/ VtReturns \/ BroadcastResumed \/ FinishInvalidates \/ FinishReturns
           \/ Terminated
           \/ \E c \in Clients : \/ ClientReady(c) \/ AttachSnapshot(c) \/ AttachSent(c)
                                 \/ AttachRequestsKeyframe(c)
  BY <1>6 DEF EncoderBlock, VtInternal, VideoThread, VideoStep, UpdateOrientation,
              VideoRequestsKeyframe, VideoEncodes, VideoReturns, AudioArrives, AudioReturns,
              StoreSets, VtReturns, BroadcastResumed, FinishInvalidates, FinishReturns,
              Terminated, VideoArrives, ClientReady, AttachSnapshot, AttachSent,
              AttachRequestsKeyframe, vars, serverVars, Server!Ready, Server!sendVars
<1>7. CASE UNCHANGED vars
  BY <1>7 DEF vars, serverVars
<1>. QED
  BY <1>1, <1>2, <1>3, <1>4, <1>5, <1>6, <1>7 DEF Next, AttachStep, VideoThread

LEMMA SetsGrow == HInv /\ [Next]_vars => parameterSets <= parameterSets'
<1> SUFFICES ASSUME HInv, [Next]_vars PROVE parameterSets <= parameterSets'
  OBVIOUS
<1>1. parameterSets \in Nat
  BY DEF HInv, HandlerTypeOK, PartsInv, EncoderP!IInv, EncoderP!EncoderTypeOK
<1>2. CASE StoreSets
  BY <1>2, VtKeepsHandler, OtherSteps DEF VtThread, StoreSets, encoderVars
<1>3. ASSUME ~StoreSets PROVE UNCHANGED parameterSets
  BY <1>3 DEF Next, vars, handlerVars, Terminated, ServerInternal, EncoderBlock, VtInternal,
       HandsOver, VideoArrives, VideoStep, UpdateOrientation, VideoRequestsKeyframe,
       VideoEncodes, VideoReturns, AudioArrives, AudioSends, AudioReturns, VtSends, VtReturns,
       ClientReady, AttachStep, AttachSnapshot, AttachSends, AttachSent,
       AttachRequestsKeyframe, BroadcastResumed, FinishInvalidates, FinishReturns
<1>. QED  BY <1>1, <1>2, <1>3

(* LatestSetsStored, thread by thread. *)
StoredFor(t, c) ==
    c \in sendList[t].to /\ sendList[t].pkt.type = "config"
        => sendList[t].pkt.session <= parameterSets
StoredLast(c) == lastConfig[c].type = "config" => lastConfig[c].session <= parameterSets

LEMMA StoredByThread ==
    LatestSetsStored <=> \A c \in Clients : StoredLast(c) /\ \A t \in Senders : StoredFor(t, c)
BY DEF LatestSetsStored, ConfigsInFlight, StoredLast, StoredFor

LEMMA ConfigTyped ==
    ASSUME NEW p \in Packets \cup {ServerP!NoPacket}, p.type = "config"
    PROVE  p.session \in Nat
<1>1. p.type \in {"config", "keyframe", "frame", "audio"} => p \in Packets
  BY DEF ServerP!NoPacket
<1>2. p \in Packets /\ p.type # "audio"
  BY DEF ServerP!NoPacket
<1>. QED  BY <1>2 DEF Packets

LEMMA StoredStep == HInv /\ LatestSetsStored /\ [Next]_vars => LatestSetsStored'
<1> SUFFICES ASSUME HInv, LatestSetsStored, [Next]_vars PROVE LatestSetsStored'
  OBVIOUS
<1>0. /\ \A c \in Clients : StoredLast(c) /\ \A t \in Senders : StoredFor(t, c)
      /\ parameterSets \in Nat /\ parameterSets' \in Nat /\ parameterSets <= parameterSets'
  <2>1. HInv'
    BY HandlerStepOK
  <2>. QED  BY <2>1, StoredByThread, SetsGrow
            DEF HInv, HandlerTypeOK, PartsInv, EncoderP!IInv, EncoderP!EncoderTypeOK
<1>1. /\ sendList \in [Senders -> [pkt : Packets \cup {ServerP!NoPacket}, to : SUBSET Clients]]
      /\ lastConfig \in [Clients -> Packets \cup {ServerP!NoPacket}]
  BY DEF HInv, PartsInv, ServerP!IInv, ServerP!TypeOK
<1>2. \A c \in Clients : StoredLast(c)' /\ \A t \in Senders : StoredFor(t, c)'
  <2>1. CASE UNCHANGED <<sendList, lastConfig>>
    <3>1. ASSUME NEW c \in Clients PROVE StoredLast(c)'
      <4>1. lastConfig[c].type = "config" => lastConfig[c].session \in Nat
        BY <1>1, ConfigTyped
      <4>. QED  BY <1>0, <2>1, <4>1 DEF StoredLast
    <3>2. ASSUME NEW c \in Clients, NEW t \in Senders PROVE StoredFor(t, c)'
      <4>1. sendList[t].pkt.type = "config" => sendList[t].pkt.session \in Nat
        BY <1>1, ConfigTyped
      <4>. QED  BY <1>0, <2>1, <4>1 DEF StoredFor
    <3>. QED  BY <3>1, <3>2
  <2>2. ASSUME UNCHANGED parameterSets, NEW t \in Senders, NEW p \in Packets,
               Server!Send(t, p), p.type = "config" => p.session <= parameterSets
        PROVE  \A c \in Clients : StoredLast(c)' /\ \A u \in Senders : StoredFor(u, c)'
    <3>1. lastConfig' = lastConfig
          /\ sendList' = [sendList EXCEPT ![t] = Server!Pending(p, Server!Admitted(p))]
      BY <2>2 DEF Server!Send
    <3>2. \A c \in Clients : StoredLast(c)'
      BY <1>0, <2>2, <3>1 DEF StoredLast
    <3>3. ASSUME NEW c \in Clients, NEW u \in Senders PROVE StoredFor(u, c)'
      <4>1. CASE u = t
        BY <1>1, <2>2, <3>1, <4>1 DEF StoredFor, Server!Pending, Server!Idle
      <4>2. CASE u # t
        BY <1>0, <1>1, <2>2, <3>1, <4>2 DEF StoredFor
      <4>. QED  BY <4>1, <4>2
    <3>. QED  BY <3>2, <3>3
  <2>3. ASSUME UNCHANGED parameterSets, NEW t \in Senders, NEW d \in Clients,
               Server!Handoff(t, d)
        PROVE  \A c \in Clients : StoredLast(c)' /\ \A u \in Senders : StoredFor(u, c)'
    <3> DEFINE p == sendList[t].pkt
    <3>1. /\ d \in sendList[t].to
          /\ sendList' = [sendList EXCEPT ![t] = Server!Pending(p, sendList[t].to \ {d})]
          /\ lastConfig' = IF p.type = "config" THEN [lastConfig EXCEPT ![d] = p] ELSE lastConfig
      BY <2>3 DEF Server!Handoff
    <3>2. p.type = "config" => p.session <= parameterSets
      BY <1>0, <3>1 DEF StoredFor
    <3>3. ASSUME NEW c \in Clients PROVE StoredLast(c)'
      BY <1>0, <1>1, <2>3, <3>1, <3>2 DEF StoredLast
    <3>4. ASSUME NEW c \in Clients, NEW u \in Senders PROVE StoredFor(u, c)'
      <4>1. CASE u = t
        BY <1>1, <2>3, <3>1, <3>2, <4>1 DEF StoredFor, Server!Pending, Server!Idle
      <4>2. CASE u # t
        BY <1>0, <1>1, <2>3, <3>1, <4>2 DEF StoredFor
      <4>. QED  BY <4>1, <4>2
    <3>. QED  BY <3>3, <3>4
  <2>. QED  BY <2>1, <2>2, <2>3, SendSteps
<1>3. (LatestSetsStored <=> \A c \in Clients : StoredLast(c) /\ \A t \in Senders : StoredFor(t, c))'
  BY StoredByThread, PTL
<1>. QED  BY <1>2, <1>3

(* No desktop has been handed, or is about to be handed, parameter sets newer than those
   a newcomer would get. *)
THEOREM LatestSetsAreStored == Spec => []LatestSetsStored
<1>1. Init => LatestSetsStored
  BY DEF Init, Server!ServerInit, Server!Idle, Server!NoPacket, LatestSetsStored,
         ConfigsInFlight
<1>. QED  BY <1>1, HandlerInitOK, HandlerStepOK, StoredStep, PTL DEF Spec

-----------------------------------------------------------------------------
(* The frame that turned the picture is a keyframe.                         *)

LEMMA KeyInit == Init => KeyInv
<1> SUFFICES ASSUME Init PROVE KeyInv
  OBVIOUS
<1>1. queue = <<>> /\ Len(queue) = 0 /\ video.turned = FALSE
  BY EmptySeq DEF Init, Encoder!EncoderInit, NoSample
<1>. QED  BY <1>1 DEF KeyInv

(* What the steps do to the queue, the flag and the video thread. *)
LEMMA KeySteps ==
    ASSUME HInv, [Next]_vars
    PROVE  \/ UNCHANGED <<queue, forceNextKeyframe, video>>
           \/ UNCHANGED <<queue, forceNextKeyframe>> /\ VideoThread
           \/ VideoEncodes \/ VideoRequestsKeyframe
           \/ Encoder!RequestKeyframe /\ UNCHANGED video
           \/ FinishInvalidates
           \/ EncoderBlock
BY DEF Next, vars, handlerVars, encoderVars, Terminated, ServerInternal, VtInternal, HandsOver,
       VideoThread, VideoArrives, VideoStep, UpdateOrientation, VideoReturns,
       AudioArrives, AudioSends, AudioReturns, StoreSets, VtSends, VtReturns, ClientReady,
       AttachStep, AttachSnapshot, AttachSends, AttachSent, AttachRequestsKeyframe,
       BroadcastResumed, FinishReturns, Encoder!DropFrame,
       Encoder!EncodeFrame, Encoder!FormatMissing, Encoder!FrameEmpty, Encoder!FormatReturns,
       Encoder!FrameReturns

LEMMA QueueTyped ==
    ASSUME HInv
    PROVE  queue \in Seq(EncoderP!Blocks) /\ Len(queue) \in Nat
           /\ forceNextKeyframe \in BOOLEAN
BY LenProperties DEF HInv, PartsInv, EncoderP!IInv, EncoderP!EncoderTypeOK

(* A block at the end of the queue. *)
LEMMA QueueGrows ==
    ASSUME HInv, NEW b \in EncoderP!Blocks, Encoder!Enqueue(b)
    PROVE  /\ Len(queue') = Len(queue) + 1 /\ queue'[Len(queue) + 1] = b
           /\ \A i \in 1..Len(queue) : queue'[i] = queue[i]
           /\ forceNextKeyframe' = forceNextKeyframe
BY QueueTyped, AppendProperties DEF Encoder!Enqueue

(* A request of a keyframe. *)
LEMMA KeyRequested ==
    ASSUME HInv, KeyInv, Encoder!RequestKeyframe,
           UNCHANGED video \/ VideoRequestsKeyframe
    PROVE  KeyInv'
<1>0. PICK n \in Nat : n = Len(queue)
  BY QueueTyped
<1>1. [op |-> "key"] \in EncoderP!Blocks
  BY DEF EncoderP!Blocks
<1>2. /\ Len(queue') = n + 1 /\ queue'[n + 1] = [op |-> "key"]
      /\ \A i \in 1..n : queue'[i] = queue[i]
      /\ forceNextKeyframe' = forceNextKeyframe
  BY <1>0, <1>1, QueueGrows, QueueTyped DEF Encoder!RequestKeyframe
<1>3. \A i \in 1..n + 1 : queue'[i].op = "encode" => i \in 1..n
  BY <1>0, <1>2
<1>4. KeyBefore(n + 1)'
  BY <1>0, <1>2 DEF KeyBefore
<1>5. \A i \in 1..n : KeyBefore(i) => KeyBefore(i)'
  BY <1>0, <1>2 DEF KeyBefore
<1>6. /\ video'.pc = "encoding" <=> video.pc = "encoding"
      /\ video'.turned = video.turned
  BY DEF VideoRequestsKeyframe, HInv, HandlerTypeOK
<1>7. \A i \in 1..n + 1 : queue'[i].op = "encode" =>
         i \in 1..n /\ queue[i].op = "encode" /\ queue'[i].by = queue[i].by
  BY <1>0, <1>2, <1>3
<1>8. \A i \in 1..n + 1 : queue'[i].op = "encode" => video'.pc = "encoding" /\ queue'[i].by = "video"
  BY <1>0, <1>6, <1>7 DEF KeyInv
<1>9. \A i, j \in 1..n + 1 : queue'[i].op = "encode" /\ queue'[j].op = "encode" => i = j
  BY <1>0, <1>7 DEF KeyInv
<1>10. video'.turned => \A i \in 1..n + 1 : queue'[i].op = "encode" => KeyBefore(i)'
  BY <1>0, <1>5, <1>6, <1>7 DEF KeyInv
<1>. QED  BY <1>0, <1>2, <1>4, <1>8, <1>9, <1>10 DEF KeyInv

(* The sample of the video thread joins the queue behind the request, if there was one. *)
LEMMA KeyEncodes ==
    ASSUME HInv, KeyInv, VideoEncodes
    PROVE  KeyInv'
<1>0. PICK n \in Nat : n = Len(queue)
  BY QueueTyped
<1> DEFINE b == [op |-> "encode", by |-> "video", dims |-> video.dims]
<1>1. b \in EncoderP!Blocks
  BY DEF VideoEncodes, HInv, VideoOK, EncoderP!Blocks, Callers
<1>2. /\ Len(queue') = n + 1 /\ queue'[n + 1] = b
      /\ \A i \in 1..n : queue'[i] = queue[i]
      /\ forceNextKeyframe' = forceNextKeyframe
  <2>1. Encoder!Enqueue(b)
    BY DEF VideoEncodes, Encoder!EncodeCall
  <2>. HIDE DEF b
  <2>. QED  BY <1>0, <1>1, <2>1, QueueGrows, QueueTyped
<1>3. video.pc = "encode" /\ video'.pc = "encoding" /\ video'.turned = video.turned
  BY DEF VideoEncodes, HInv, HandlerTypeOK
<1>4. \A i \in 1..n : queue'[i].op # "encode"
  BY <1>0, <1>2, <1>3 DEF KeyInv
<1>5. \A i \in 1..n + 1 : queue'[i].op = "encode" => i = n + 1 /\ queue'[i].by = "video"
  BY <1>0, <1>2, <1>4
<1>6. video.turned => KeyBefore(n + 1)'
  <2>1. video.turned => KeyBefore(n)
    BY <1>0, <1>3 DEF KeyInv
  <2>. QED  BY <1>0, <1>2, <2>1 DEF KeyBefore
<1>. QED  BY <1>0, <1>2, <1>3, <1>5, <1>6 DEF KeyInv

(* invalidate joins the queue. *)
LEMMA KeyFinishes ==
    ASSUME HInv, KeyInv, FinishInvalidates
    PROVE  KeyInv'
<1>0. PICK n \in Nat : n = Len(queue)
  BY QueueTyped
<1> DEFINE b == [op |-> "invalidate", by |-> "main"]
<1>1. b \in EncoderP!Blocks
  BY DEF EncoderP!Blocks, Callers
<1>2. /\ Len(queue') = n + 1 /\ queue'[n + 1] = b
      /\ \A i \in 1..n : queue'[i] = queue[i]
      /\ forceNextKeyframe' = forceNextKeyframe
  <2>1. Encoder!Enqueue(b)
    BY DEF FinishInvalidates, Encoder!InvalidateCall
  <2>. HIDE DEF b
  <2>. QED  BY <1>0, <1>1, <2>1, QueueGrows, QueueTyped
<1>3. video' = video
  BY DEF FinishInvalidates
<1>4. \A i \in 1..n + 1 : queue'[i].op = "encode" =>
         i \in 1..n /\ queue'[i] = queue[i]
  BY <1>0, <1>2
<1>5. \A i \in 0..n : KeyBefore(i) => KeyBefore(i)'
  BY <1>0, <1>2 DEF KeyBefore
<1>6. KeyBefore(n) => KeyBefore(n + 1)'
  BY <1>0, <1>2 DEF KeyBefore
<1>7. \A i \in 1..n + 1 : queue'[i].op = "encode" => video'.pc = "encoding" /\ queue'[i].by = "video"
  BY <1>0, <1>3, <1>4 DEF KeyInv
<1>8. \A i, j \in 1..n + 1 : queue'[i].op = "encode" /\ queue'[j].op = "encode" => i = j
  BY <1>0, <1>4 DEF KeyInv
<1>9. video'.turned => \A i \in 1..n + 1 : queue'[i].op = "encode" => KeyBefore(i)'
  <2>1. video.turned => \A i \in 1..n : queue[i].op = "encode" => KeyBefore(i)
    BY <1>0 DEF KeyInv
  <2>2. \A i \in 1..n : i \in 0..n
    BY <1>0, <1>2
  <2>. QED  BY <1>0, <1>3, <1>4, <1>5, <2>1, <2>2
<1>10. video'.turned /\ video'.pc = "encode" => KeyBefore(n + 1)'
  BY <1>0, <1>3, <1>6 DEF KeyInv
<1>. QED  BY <1>0, <1>2, <1>7, <1>8, <1>9, <1>10 DEF KeyInv

(* The video thread begins a sample, or is through with one: no block of it is left. *)
LEMMA KeyThread ==
    ASSUME HInv, KeyInv, VideoThread, UNCHANGED <<queue, forceNextKeyframe>>,
           ~VideoEncodes, ~VideoRequestsKeyframe
    PROVE  KeyInv'
<1>0. video \in [pc : {"idle", "orient", "request", "encode", "encoding"},
                 dims : Dims \cup {Encoder!NoDims}, turned : BOOLEAN]
  BY DEF HInv, HandlerTypeOK
<1>1. \A i \in 1..Len(queue) : queue[i].op # "encode"
  <2>1. CASE video.pc # "encoding"
    BY <2>1 DEF KeyInv
  <2>2. CASE video.pc = "encoding"
    <3>1. VideoReturns
      BY <2>2 DEF VideoThread, VideoStep, VideoArrives, UpdateOrientation
    <3>. QED  BY <3>1 DEF VideoReturns, Encoder!Blocked, KeyInv
  <2>. QED  BY <2>1, <2>2
<1>2. ~(video'.turned /\ video'.pc = "encode")
  <2>1. ASSUME NEW o \in Orientations, UpdateOrientation(o)
        PROVE  ~(video'.turned /\ video'.pc = "encode")
    BY <1>0, <2>1 DEF UpdateOrientation
  <2>2. CASE VideoReturns \/ \E d \in Dims : VideoArrives(d)
    BY <2>2 DEF VideoReturns, NoSample, VideoArrives
  <2>. QED  BY <2>1, <2>2 DEF VideoThread, VideoStep
<1>. QED  BY <1>1, <1>2 DEF KeyInv

(* The queue runs the block at its head: a request sets the flag, which only the block
   of the video thread takes. *)
LEMMA KeyRuns ==
    ASSUME HInv, KeyInv, EncoderBlock
    PROVE  KeyInv'
<1>1. /\ queue # <<>> /\ queue' = Tail(queue) /\ video' = video
      /\ \/ Head(queue).op = "key" /\ forceNextKeyframe' = TRUE
         \/ Head(queue).op = "invalidate" /\ forceNextKeyframe' = forceNextKeyframe
         \/ Head(queue).op = "encode"
  BY DEF EncoderBlock, handlerVars, Encoder!QueueStep, Encoder!NextBlock, Encoder!RunKey,
         Encoder!RunInvalidate, Encoder!RunEncode, Encoder!RunEncodeAnew,
         Encoder!RunEncodeFails, Encoder!Submit
<1>0. PICK n \in Nat : Len(queue) = n + 1
  BY <1>1, QueueTyped, EmptySeq
<1>2. /\ Len(queue') = n /\ n \in Nat /\ Len(queue) = n + 1 /\ Head(queue) = queue[1]
      /\ \A i \in 1..n : queue'[i] = queue[i + 1] /\ i + 1 \in 1..Len(queue)
  BY <1>0, <1>1, QueueTyped, HeadTailProperties
<1>3. /\ \A i \in 1..n : queue'[i].op = "encode" => video'.pc = "encoding" /\ queue'[i].by = "video"
      /\ \A i, j \in 1..n : queue'[i].op = "encode" /\ queue'[j].op = "encode" => i = j
  <2>1. ASSUME NEW i \in 1..n, queue'[i].op = "encode"
        PROVE  video'.pc = "encoding" /\ queue'[i].by = "video"
    BY <1>1, <1>2, <2>1 DEF KeyInv
  <2>2. ASSUME NEW i \in 1..n, NEW j \in 1..n,
               queue'[i].op = "encode", queue'[j].op = "encode"
        PROVE  i = j
    <3>1. i + 1 = j + 1
      BY <1>2, <2>2 DEF KeyInv
    <3>. QED  BY <1>2, <3>1
  <2>. QED  BY <2>1, <2>2
<1>4. ASSUME Head(queue).op # "encode", NEW m \in 0..n, KeyBefore(m + 1)
      PROVE  KeyBefore(m)'
  <2>1. CASE Head(queue).op = "key"
    BY <1>1, <2>1 DEF KeyBefore
  <2>2. CASE Head(queue).op # "key"
    <3>1. forceNextKeyframe' = forceNextKeyframe
      BY <1>1, <1>4, <2>2
    <3>2. ASSUME NEW k \in 1..m + 1, queue[k].op = "key" PROVE \E i \in 1..m : queue'[i].op = "key"
      <4>1. k # 1 /\ k - 1 \in 1..m /\ k - 1 \in 1..n
        BY <1>2, <2>2, <3>2
      <4>2. queue'[k - 1] = queue[k]
        BY <1>2, <4>1
      <4>. QED  BY <3>2, <4>1, <4>2
    <3>. QED  BY <1>4, <3>1, <3>2 DEF KeyBefore
  <2>. QED  BY <2>1, <2>2
<1>5. CASE Head(queue).op = "encode"
  <2>1. video.pc = "encoding"
    BY <1>2, <1>5 DEF KeyInv
  <2>2. \A i \in 1..n : queue'[i].op # "encode"
    <3>1. ASSUME NEW i \in 1..n, queue'[i].op = "encode" PROVE FALSE
      <4>1. i + 1 = 1
        BY <1>2, <1>5, <3>1 DEF KeyInv
      <4>. QED  BY <1>2, <4>1
    <3>. QED  BY <3>1
  <2>. QED  BY <1>1, <1>2, <1>3, <2>1, <2>2 DEF KeyInv
<1>6. CASE Head(queue).op # "encode"
  <2>1. video.turned /\ video.pc = "encode" => KeyBefore(n)'
    BY <1>2, <1>4, <1>6 DEF KeyInv
  <2>2. video.turned => \A i \in 1..n : queue'[i].op = "encode" => KeyBefore(i)'
    <3>1. ASSUME video.turned, NEW i \in 1..n, queue'[i].op = "encode" PROVE KeyBefore(i)'
      <4>1. KeyBefore(i + 1) /\ i \in 0..n
        BY <1>2, <3>1 DEF KeyInv
      <4>. QED  BY <1>4, <1>6, <4>1
    <3>. QED  BY <3>1
  <2>. QED  BY <1>1, <1>2, <1>3, <2>1, <2>2 DEF KeyInv
<1>. QED  BY <1>5, <1>6

LEMMA KeyStep == HInv /\ KeyInv /\ [Next]_vars => KeyInv'
<1> SUFFICES ASSUME HInv, KeyInv, [Next]_vars PROVE KeyInv'
  OBVIOUS
<1>1. CASE UNCHANGED <<queue, forceNextKeyframe, video>>
  BY <1>1 DEF KeyInv, KeyBefore
<1>2. CASE VideoRequestsKeyframe
  BY <1>2, KeyRequested DEF VideoRequestsKeyframe
<1>. QED
  BY <1>1, <1>2, KeySteps, KeyThread, KeyEncodes, KeyRequested, KeyFinishes, KeyRuns

(* The frame of a sample that turned the picture is submitted as a keyframe. *)
LEMMA TurnStep ==
    HInv /\ KeyInv /\ [Next]_vars =>
        [VideoFrameSubmitted /\ video.turned => vt'[Len(vt')].forced]_vars
<1> SUFFICES ASSUME HInv, KeyInv, [Next]_vars, VideoFrameSubmitted, video.turned
             PROVE  vt'[Len(vt')].forced
  OBVIOUS
<1>1. vt \in Seq(EncoderP!Frames) /\ Len(vt) \in Nat
  BY LenProperties DEF HInv, PartsInv, EncoderP!IInv, EncoderP!EncoderTypeOK
<1>2. Len(vt') > Len(vt) /\ Head(queue).op = "encode"
  BY DEF VideoFrameSubmitted
<1>3. EncoderBlock
  <2>1. ASSUME ~EncoderBlock PROVE vt' = vt \/ VtInternal \/ VtReturns
    BY <2>1
    DEF Next, vars, encoderVars, Terminated, ServerInternal, HandsOver, VideoArrives, VideoStep,
        UpdateOrientation, VideoRequestsKeyframe, VideoEncodes, VideoReturns, AudioArrives,
        AudioSends, AudioReturns, StoreSets, VtSends, ClientReady, AttachStep, AttachSnapshot,
        AttachSends, AttachSent, AttachRequestsKeyframe, BroadcastResumed, FinishInvalidates,
        FinishReturns, Encoder!RequestKeyframe, Encoder!EncodeCall, Encoder!InvalidateCall,
        Encoder!Enqueue
  <2>2. ASSUME VtInternal \/ VtReturns PROVE vt' = vt \/ (vt # <<>> /\ vt' = Tail(vt))
    <3>1. callback # "idle" => vt # <<>>
      BY DEF HInv, PartsInv, EncoderP!IInv, EncoderP!StreamInv
    <3>2. CASE Encoder!DropFrame \/ Encoder!EncodeFrame
      BY <3>2 DEF Encoder!DropFrame, Encoder!EncodeFrame
    <3>3. CASE Encoder!FormatReturns \/ Encoder!FormatMissing
      BY <3>3 DEF Encoder!FormatReturns, Encoder!FormatMissing
    <3>4. CASE Encoder!FrameReturns \/ Encoder!FrameEmpty
      BY <3>1, <3>4 DEF Encoder!FrameReturns, Encoder!FrameEmpty
    <3>. QED  BY <2>2, <3>2, <3>3, <3>4 DEF VtInternal, VtReturns
  <2>3. vt # <<>> => Len(Tail(vt)) = Len(vt) - 1
    BY <1>1, HeadTailProperties
  <2>. QED  BY <1>1, <1>2, <2>1, <2>2, <2>3
<1>4. queue # <<>> /\ \E s, d, forced :
          /\ vt' = Append(vt, [session |-> s, dims |-> d, forced |-> forced])
          /\ forced \in {TRUE, forceNextKeyframe}
  <2>1. vt' # vt /\ Encoder!QueueStep
    BY <1>1, <1>2, <1>3 DEF EncoderBlock
  <2>2. CASE Encoder!RunEncode
    BY <2>1, <2>2 DEF Encoder!RunEncode, Encoder!Submit, Encoder!NextBlock
  <2>3. CASE Encoder!RunEncodeAnew
    BY <2>1, <2>3 DEF Encoder!RunEncodeAnew, Encoder!Submit, Encoder!NextBlock
  <2>. QED  BY <2>1, <2>2, <2>3 DEF Encoder!QueueStep, Encoder!RunKey, Encoder!RunInvalidate,
                                    Encoder!RunEncodeFails
<1>5. KeyBefore(1)
  <2>1. Head(queue) = queue[1] /\ 1 \in 1..Len(queue)
    BY <1>4, QueueTyped, EmptySeq, HeadTailProperties
  <2>. QED  BY <1>2, <2>1 DEF KeyInv
<1>6. forceNextKeyframe = TRUE
  <2>1. queue[1].op = "encode"
    BY <1>2, <1>4, QueueTyped, HeadTailProperties
  <2>2. forceNextKeyframe \in BOOLEAN
    BY QueueTyped
  <2>. QED  BY <1>5, <2>1, <2>2 DEF KeyBefore
<1>7. PICK s, d, forced : /\ vt' = Append(vt, [session |-> s, dims |-> d, forced |-> forced])
                          /\ forced \in {TRUE, forceNextKeyframe}
  BY <1>4
<1>8. Len(vt') = Len(vt) + 1
      /\ vt'[Len(vt) + 1] = [session |-> s, dims |-> d, forced |-> forced]
  BY <1>1, <1>7
<1>9. forced = TRUE
  BY <1>6, <1>7, Zenon
<1>10. vt'[Len(vt')].forced = forced
  BY <1>8
<1>. QED  BY <1>9, <1>10, Zenon

(* No desktop keeps painting the old shape: whatever other threads put on the encoder's
   queue, the first frame of a turned picture is a keyframe. *)
THEOREM TurnedFrameIsForced == Spec => TurnForcesKeyframe
<1>. QED
  BY HandlerInitOK, HandlerStepOK, KeyInit, KeyStep, TurnStep, PTL DEF Spec, TurnForcesKeyframe
=============================================================================
