----------------------------- MODULE H264Encoder -----------------------------
(***************************************************************************)
(* The hardware encoder wrapper, src/Shared/H264Encoder.swift.              *)
(*                                                                          *)
(* encode, invalidate and requestKeyframe put blocks on the serial `queue`  *)
(* (the first two with sync, the last with async); the blocks own session,  *)
(* width, height and forceNextKeyframe.  VideoToolbox calls back on a       *)
(* thread of its own, in the order frames were submitted, and publishes     *)
(* them through onFormat and onEncodedFrame.                                *)
(*                                                                          *)
(* A block is one action: nothing but the blocks touches what they touch,   *)
(* and the only wait inside a block, VTCompressionSessionCompleteFrames in  *)
(* tearDown, is a guard of that action.                                     *)
(***************************************************************************)
EXTENDS Integers, Sequences

CONSTANTS
    Callers,        \* threads that call encode and invalidate
    Dims,           \* sizes of the buffers ReplayKit delivers
    MaxSessions,    \* bound on the sessions created
    MaxBlocks,      \* bound on the blocks waiting on the queue
    MaxFrames       \* bound on the frames VideoToolbox holds

NoDims == "none"

ASSUME EncoderAssumption ==
    /\ MaxSessions \in Nat /\ MaxBlocks \in Nat /\ MaxFrames \in Nat
    /\ NoDims \notin Dims

VARIABLES
    session,            \* 0 for nil, else the number of the session
    dims,               \* (width, height) of the session
    forceNextKeyframe,
    queue,              \* blocks waiting on the serial queue
    created,            \* sessions created so far
    fresh,              \* the session has not put out a frame yet
    vt,                 \* frames submitted whose callback has not returned
    callback,           \* what the callback of Head(vt) is doing
    \* History variable, read by the properties only:
    out                 \* session and size of what was published last

encoderVars == <<session, dims, forceNextKeyframe, queue, created, fresh, vt, callback, out>>

Blocks ==
    [op : {"encode"}, by : Callers, dims : Dims]
    \cup [op : {"invalidate"}, by : Callers]
    \cup [op : {"key"}]
Frames == [session : 1..created, dims : Dims, forced : BOOLEAN]
CallbackPhases == {"idle", "format", "keyframe", "frame"}

EncoderTypeOK ==
    /\ session \in 0..created
    /\ dims \in Dims \cup {NoDims}
    /\ forceNextKeyframe \in BOOLEAN
    /\ queue \in Seq(Blocks)
    /\ created \in Nat
    /\ fresh \in BOOLEAN
    /\ vt \in Seq(Frames)
    /\ callback \in CallbackPhases
    /\ out \in [session : 0..created, dims : Dims \cup {NoDims}]

EncoderInit ==
    /\ session = 0 /\ dims = NoDims
    /\ forceNextKeyframe = FALSE
    /\ queue = <<>>
    /\ created = 0 /\ fresh = FALSE
    /\ vt = <<>> /\ callback = "idle"
    /\ out = [session |-> 0, dims |-> NoDims]

-----------------------------------------------------------------------------
(* Callers.                                                                *)

\* Thread t waits for the block it put on the queue with sync.
Blocked(t) == \E i \in 1..Len(queue) : queue[i].op # "key" /\ queue[i].by = t

Enqueue(block) ==
    /\ Len(queue) < MaxBlocks
    /\ queue' = Append(queue, block)
    /\ UNCHANGED <<session, dims, forceNextKeyframe, created, fresh, vt, callback, out>>

EncodeCall(t, d)  == ~Blocked(t) /\ Enqueue([op |-> "encode", by |-> t, dims |-> d])
InvalidateCall(t) == ~Blocked(t) /\ Enqueue([op |-> "invalidate", by |-> t])
RequestKeyframe   == Enqueue([op |-> "key"])

-----------------------------------------------------------------------------
(* Blocks of the queue.                                                    *)

NextBlock(op) == queue # <<>> /\ Head(queue).op = op

RunKey ==
    /\ NextBlock("key")
    /\ forceNextKeyframe' = TRUE
    /\ queue' = Tail(queue)
    /\ UNCHANGED <<session, dims, created, fresh, vt, callback, out>>

\* Mutant: tearDown does not wait.
DrainedAtOnce == TRUE

\* tearDown waits for the callbacks of the frames the session still holds.
Drained == session = 0 \/ vt = <<>>

RunInvalidate ==
    /\ NextBlock("invalidate")
    /\ Drained
    /\ session' = 0 /\ dims' = NoDims
    /\ queue' = Tail(queue)
    /\ UNCHANGED <<forceNextKeyframe, created, fresh, vt, callback, out>>

\* encode, when prepare keeps or creates session s of size d: the frame takes the
\* force flag with it, whether VideoToolbox accepts the frame or not.
Submit(s, d, forced) ==
    /\ queue' = Tail(queue)
    /\ forceNextKeyframe' = FALSE
    /\ \/ /\ Len(vt) < MaxFrames
          /\ vt' = Append(vt, [session |-> s, dims |-> d, forced |-> forced])
       \/ UNCHANGED vt
    /\ UNCHANGED <<callback, out>>

\* Mutant: prepare keeps the session whatever the size of the buffer.
RunEncodeAnySize ==
    /\ NextBlock("encode")
    /\ session # 0
    /\ Submit(session, Head(queue).dims, forceNextKeyframe)
    /\ UNCHANGED <<session, dims, created, fresh>>

\* encode with a buffer of the session's size.
RunEncode ==
    /\ NextBlock("encode")
    /\ session # 0 /\ dims = Head(queue).dims
    /\ Submit(session, dims, forceNextKeyframe)
    /\ UNCHANGED <<session, dims, created, fresh>>

\* Mutant: the frame's session and size are read before prepare.
RunEncodeAnewReadsEarly ==
    /\ NextBlock("encode")
    /\ session = 0 \/ dims # Head(queue).dims
    /\ Drained
    /\ created < MaxSessions
    /\ session' = created + 1 /\ created' = created + 1
    /\ dims' = Head(queue).dims
    /\ fresh' = TRUE
    /\ Submit(session, dims, TRUE)

\* encode with a buffer of another size, or the first one: tearDown, then create.
RunEncodeAnew ==
    /\ NextBlock("encode")
    /\ session = 0 \/ dims # Head(queue).dims
    /\ Drained
    /\ created < MaxSessions
    /\ session' = created + 1 /\ created' = created + 1
    /\ dims' = Head(queue).dims
    /\ fresh' = TRUE
    /\ Submit(created + 1, Head(queue).dims, TRUE)

\* The same, but VTCompressionSessionCreate fails.
RunEncodeFails ==
    /\ NextBlock("encode")
    /\ session = 0 \/ dims # Head(queue).dims
    /\ Drained
    /\ session' = 0 /\ dims' = NoDims
    /\ queue' = Tail(queue)
    /\ UNCHANGED <<forceNextKeyframe, created, fresh, vt, callback, out>>

QueueStep == RunKey \/ RunInvalidate \/ RunEncode \/ RunEncodeAnew \/ RunEncodeFails

-----------------------------------------------------------------------------
(* VideoToolbox and handleEncoded.                                         *)

\* The callback reports an error or an empty frame: nothing is published.
DropFrame ==
    /\ vt # <<>> /\ callback = "idle"
    /\ vt' = Tail(vt)
    /\ UNCHANGED <<session, dims, forceNextKeyframe, queue, created, fresh, callback, out>>

\* Mutant: the parameter sets are published with the first keyframe of a session only.
EncodeFrameSetsOnce ==
    /\ vt # <<>> /\ callback = "idle"
    /\ fresh' = FALSE
    /\ \/ callback' = IF fresh THEN "format" ELSE "keyframe"
       \/ ~Head(vt).forced /\ ~fresh /\ callback' = "frame"
    /\ UNCHANGED <<session, dims, forceNextKeyframe, queue, created, vt, out>>

\* The callback delivers a frame.  VideoToolbox makes a frame a keyframe when it is
\* asked to, when it is the first of its session, and periodically.
EncodeFrame ==
    /\ vt # <<>> /\ callback = "idle"
    /\ fresh' = FALSE
    /\ \/ callback' = "format"
       \/ ~Head(vt).forced /\ ~fresh /\ callback' = "frame"
    /\ UNCHANGED <<session, dims, forceNextKeyframe, queue, created, vt, out>>

Publish == out' = [session |-> Head(vt).session, dims |-> Head(vt).dims]

\* handleEncoded, before a keyframe: onFormat, unless the sets cannot be extracted.
FormatReturns ==
    /\ callback = "format"
    /\ callback' = "keyframe"
    /\ Publish
    /\ UNCHANGED <<session, dims, forceNextKeyframe, queue, created, fresh, vt>>

FormatMissing ==
    /\ callback = "format"
    /\ callback' = "keyframe"
    /\ UNCHANGED <<session, dims, forceNextKeyframe, queue, created, fresh, vt, out>>

\* handleEncoded: onEncodedFrame, unless the frame has no data to convert.
FrameReturns ==
    /\ callback \in {"keyframe", "frame"}
    /\ callback' = "idle"
    /\ Publish
    /\ vt' = Tail(vt)
    /\ UNCHANGED <<session, dims, forceNextKeyframe, queue, created, fresh>>

\* Mutant: a frame without data is tried again.
FrameEmptyRetried ==
    /\ callback \in {"keyframe", "frame"}
    /\ callback' = "idle"
    /\ UNCHANGED <<session, dims, forceNextKeyframe, queue, created, fresh, vt, out>>

FrameEmpty ==
    /\ callback \in {"keyframe", "frame"}
    /\ callback' = "idle"
    /\ vt' = Tail(vt)
    /\ UNCHANGED <<session, dims, forceNextKeyframe, queue, created, fresh, out>>

CallbackStep ==
    DropFrame \/ EncodeFrame \/ FormatReturns \/ FormatMissing \/ FrameReturns \/ FrameEmpty

EncoderNext ==
    \/ \E t \in Callers : InvalidateCall(t) \/ \E d \in Dims : EncodeCall(t, d)
    \/ RequestKeyframe
    \/ QueueStep
    \/ CallbackStep

\* The queue and VideoToolbox keep working; nobody has to call.
EncoderSpec == EncoderInit /\ [][EncoderNext]_encoderVars
EncoderFairSpec ==
    EncoderSpec /\ WF_encoderVars(QueueStep) /\ WF_encoderVars(CallbackStep)

-----------------------------------------------------------------------------
(* Properties.                                                             *)

\* VideoToolbox only ever holds frames of the session the encoder holds, with that
\* session's size: no rebuild of the session, by a rotation or by the end of the
\* broadcast, leaves a frame behind that would be published under another size.
FramesBelongToSession ==
    \A i \in 1..Len(vt) : vt[i].session = session /\ vt[i].dims = dims

\* Every encode and every invalidate returns: tearDown's wait inside the serial
\* queue and the callbacks it waits for never wait on each other.
CallsReturn == \A t \in Callers : Blocked(t) ~> ~Blocked(t)

\* What a decoder relies on, see VideoStream.
Stream == INSTANCE VideoStream WITH
            session <- out.session, dims <- out.dims
ImplementsVideoStream == Stream!Spec
=============================================================================
