-------------------------- MODULE H264EncoderProofs --------------------------
(* H264Encoder for any callers, picture sizes and bounds: what VideoToolbox  *)
(* holds belongs to the current session, hence what is published is a stream *)
(* in the sense of VideoStream.                                              *)
EXTENDS H264Encoder, SequenceTheorems, TLAPS

(* The last session created is the current one, if there is one, and has a size; a
   callback runs for a frame that is held; what was published of the current session
   was published under its size. *)
StreamInv ==
    /\ session # 0 => session = created /\ dims \in Dims
    /\ callback # "idle" => vt # <<>>
    /\ session # 0 /\ out.session = session => out.dims = dims

IInv == EncoderTypeOK /\ FramesBelongToSession /\ StreamInv

LEMMA EncoderInitOK == EncoderInit => IInv
<1> SUFFICES ASSUME EncoderInit PROVE IInv
  OBVIOUS
<1>1. <<>> \in Seq(Blocks) /\ <<>> \in Seq(Frames) /\ Len(<<>>) = 0
  BY EmptySeq
<1>2. EncoderTypeOK
  <2>1. queue \in Seq(Blocks) /\ vt \in Seq(Frames)
    BY <1>1 DEF EncoderInit
  <2>2. session \in 0..created /\ created \in Nat /\ dims \in Dims \cup {NoDims}
    BY DEF EncoderInit
  <2>3. out \in [session : 0..created, dims : Dims \cup {NoDims}]
    BY DEF EncoderInit
  <2>4. forceNextKeyframe \in BOOLEAN /\ fresh \in BOOLEAN
    BY DEF EncoderInit
  <2>5. callback \in CallbackPhases
    BY DEF EncoderInit, CallbackPhases
  <2>. QED  BY <2>1, <2>2, <2>3, <2>4, <2>5 DEF EncoderTypeOK
<1>3. FramesBelongToSession
  BY <1>1 DEF EncoderInit, FramesBelongToSession
<1>. QED  BY <1>2, <1>3 DEF IInv, StreamInv, EncoderInit

(* Taking the first element off a sequence. *)
LEMMA TailOfQueue ==
    ASSUME IInv, queue # <<>>
    PROVE  Head(queue) \in Blocks /\ Tail(queue) \in Seq(Blocks)
BY HeadTailProperties DEF IInv, EncoderTypeOK

LEMMA TailOfFrames ==
    ASSUME IInv, vt # <<>>
    PROVE  /\ Head(vt) \in Frames /\ Tail(vt) \in Seq(Frames)
           /\ Head(vt).session = session /\ Head(vt).dims = dims
           /\ session \in 1..created
           /\ \A i \in 1..Len(Tail(vt)) :
                 Tail(vt)[i].session = session /\ Tail(vt)[i].dims = dims
<1>1. vt \in Seq(Frames) /\ created \in Nat
  BY DEF IInv, EncoderTypeOK
<1>2. /\ Head(vt) \in Frames /\ Tail(vt) \in Seq(Frames)
      /\ Len(Tail(vt)) = Len(vt) - 1
      /\ \A i \in 1..Len(Tail(vt)) : Tail(vt)[i] = vt[i + 1]
  BY <1>1, HeadTailProperties
<1>3. Len(vt) \in Nat /\ Len(vt) # 0 /\ Head(vt) = vt[1]
  BY <1>1, EmptySeq
<1>4. \A i \in 1..Len(vt) : vt[i].session = session /\ vt[i].dims = dims
  BY DEF IInv, FramesBelongToSession
<1>5. Head(vt).session = session /\ Head(vt).dims = dims
  BY <1>3, <1>4
<1>6. session \in 1..created
  BY <1>2, <1>5 DEF Frames
<1>7. \A i \in 1..Len(Tail(vt)) : i + 1 \in 1..Len(vt)
  BY <1>2, <1>3
<1>. QED  BY <1>2, <1>4, <1>5, <1>6, <1>7

(* Before any session, and once a session is torn down, VideoToolbox holds nothing:
   this is what tearDown's wait achieves. *)
LEMMA DrainedIsEmpty ==
    ASSUME IInv, Drained
    PROVE  vt = <<>>
<1>1. session = 0 => vt = <<>>
  BY TailOfFrames
<1>. QED  BY <1>1 DEF Drained

(* A frame of session s submitted when only frames of session s are held. *)
LEMMA SubmitFrame ==
    ASSUME NEW F, NEW f \in F, vt \in Seq(F),
           vt' = vt \/ vt' = Append(vt, f),
           \A i \in 1..Len(vt) : vt[i].session = f.session /\ vt[i].dims = f.dims
    PROVE  /\ vt' \in Seq(F)
           /\ \A i \in 1..Len(vt') : vt'[i].session = f.session /\ vt'[i].dims = f.dims
           /\ vt # <<>> => vt' # <<>>
<1>1. CASE vt' = vt
  BY <1>1
<1>2. CASE vt' = Append(vt, f)
  <2>1. /\ vt' \in Seq(F) /\ Len(vt') = Len(vt) + 1 /\ vt'[Len(vt) + 1] = f
        /\ \A i \in 1..Len(vt) : vt'[i] = vt[i]
    BY <1>2, AppendProperties
  <2>2. Len(vt) \in Nat
    BY LenProperties
  <2>3. \A i \in 1..Len(vt') : i \in 1..Len(vt) \/ i = Len(vt) + 1
    BY <2>1, <2>2
  <2>4. \A i \in 1..Len(vt') : vt'[i].session = f.session /\ vt'[i].dims = f.dims
    BY <2>1, <2>3
  <2>5. vt' # <<>>
    BY <2>1, <2>2, EmptySeq
  <2>. QED  BY <2>1, <2>4, <2>5
<1>. QED  BY <1>1, <1>2

(* Calls only append to the queue. *)
LEMMA EnqueueOK ==
    ASSUME IInv, NEW b \in Blocks, Enqueue(b)
    PROVE  IInv'
<1>1. queue' \in Seq(Blocks)
  BY AppendProperties DEF Enqueue, IInv, EncoderTypeOK
<1>2. EncoderTypeOK'
  BY <1>1 DEF Enqueue, IInv, EncoderTypeOK, Blocks, Frames
<1>3. FramesBelongToSession' /\ StreamInv'
  BY DEF Enqueue, IInv, FramesBelongToSession, StreamInv
<1>. QED  BY <1>2, <1>3 DEF IInv

LEMMA RunKeyOK == IInv /\ RunKey => IInv'
<1> SUFFICES ASSUME IInv, RunKey PROVE IInv'
  OBVIOUS
<1>1. queue' \in Seq(Blocks)
  BY TailOfQueue DEF RunKey, NextBlock
<1>2. EncoderTypeOK'
  BY <1>1 DEF RunKey, IInv, EncoderTypeOK, Blocks, Frames
<1>3. FramesBelongToSession' /\ StreamInv'
  BY DEF RunKey, IInv, FramesBelongToSession, StreamInv
<1>. QED  BY <1>2, <1>3 DEF IInv

(* The session ends: invalidate, or a session that cannot be created. *)
LEMMA TearDownOK == IInv /\ (RunInvalidate \/ RunEncodeFails) => IInv'
<1> SUFFICES ASSUME IInv, RunInvalidate \/ RunEncodeFails PROVE IInv'
  OBVIOUS
<1>1. /\ queue # <<>> /\ Drained
      /\ session' = 0 /\ dims' = NoDims /\ queue' = Tail(queue)
      /\ UNCHANGED <<forceNextKeyframe, created, fresh, vt, callback, out>>
  BY DEF RunInvalidate, RunEncodeFails, NextBlock
<1>2. vt = <<>> /\ Len(vt) = 0
  BY <1>1, DrainedIsEmpty, EmptySeq
<1>3. queue' \in Seq(Blocks)
  BY <1>1, TailOfQueue
<1>4. EncoderTypeOK'
  BY <1>1, <1>3 DEF IInv, EncoderTypeOK, Blocks, Frames
<1>5. FramesBelongToSession' /\ StreamInv'
  BY <1>1, <1>2 DEF IInv, FramesBelongToSession, StreamInv
<1>. QED  BY <1>4, <1>5 DEF IInv

LEMMA RunEncodeOK == IInv /\ RunEncode => IInv'
<1> SUFFICES ASSUME IInv, RunEncode PROVE IInv'
  OBVIOUS
<1>1. /\ session # 0 /\ queue # <<>> /\ queue' = Tail(queue) /\ forceNextKeyframe' = FALSE
      /\ UNCHANGED <<session, dims, created, fresh, callback, out>>
  BY DEF RunEncode, Submit, NextBlock
<1>2. /\ session \in 1..created /\ created \in Nat /\ dims \in Dims
      /\ forceNextKeyframe \in BOOLEAN
      /\ vt \in Seq([session : 1..created, dims : Dims, forced : BOOLEAN])
      /\ \A i \in 1..Len(vt) : vt[i].session = session /\ vt[i].dims = dims
  BY <1>1 DEF IInv, EncoderTypeOK, FramesBelongToSession, StreamInv, Frames
<1>3. /\ vt' \in Seq([session : 1..created, dims : Dims, forced : BOOLEAN])
      /\ \A i \in 1..Len(vt') : vt'[i].session = session /\ vt'[i].dims = dims
      /\ vt # <<>> => vt' # <<>>
  <2> DEFINE f == [session |-> session, dims |-> dims, forced |-> forceNextKeyframe]
  <2>1. vt' = vt \/ vt' = Append(vt, f)
    BY DEF RunEncode, Submit
  <2>2. f \in [session : 1..created, dims : Dims, forced : BOOLEAN]
    BY <1>2
  <2>3. f.session = session /\ f.dims = dims
    OBVIOUS
  <2>. HIDE DEF f
  <2>. QED  BY <1>2, <2>1, <2>2, <2>3, SubmitFrame
<1>4. queue' \in Seq(Blocks)
  BY <1>1, TailOfQueue
<1>5. vt' \in Seq(Frames)'
  BY <1>1, <1>3 DEF Frames
<1>6. EncoderTypeOK'
  BY <1>1, <1>3, <1>4, <1>5 DEF IInv, EncoderTypeOK, Blocks
<1>7. FramesBelongToSession' /\ StreamInv'
  BY <1>1, <1>3 DEF IInv, FramesBelongToSession, StreamInv
<1>. QED  BY <1>6, <1>7 DEF IInv

(* A new session starts with nothing held, and nothing of it has been published. *)
LEMMA RunEncodeAnewOK == IInv /\ RunEncodeAnew => IInv'
<1> SUFFICES ASSUME IInv, RunEncodeAnew PROVE IInv'
  OBVIOUS
<1> DEFINE n == created + 1
           d == Head(queue).dims
<1>1. /\ queue # <<>> /\ Head(queue).op = "encode" /\ Drained /\ queue' = Tail(queue)
      /\ session' = n /\ created' = n /\ dims' = d /\ fresh' = TRUE
      /\ forceNextKeyframe' = FALSE
      /\ UNCHANGED <<callback, out>>
  BY DEF RunEncodeAnew, Submit, NextBlock
<1>2. d \in Dims
  BY <1>1, TailOfQueue DEF Blocks
<1>3. created \in Nat /\ n \in Nat /\ n \in 1..n
      /\ out \in [session : 0..created, dims : Dims \cup {NoDims}]
  BY DEF IInv, EncoderTypeOK
<1>4. vt = <<>> /\ Len(vt) = 0
      /\ vt \in Seq([session : 1..n, dims : Dims, forced : BOOLEAN])
  BY <1>1, DrainedIsEmpty, EmptySeq
<1>5. Submit(n, d, TRUE)
  BY DEF RunEncodeAnew
<1>6. /\ vt' \in Seq([session : 1..n, dims : Dims, forced : BOOLEAN])
      /\ \A i \in 1..Len(vt') : vt'[i].session = n /\ vt'[i].dims = d
  <2> DEFINE f == [session |-> n, dims |-> d, forced |-> TRUE]
             F == [session : 1..n, dims : Dims, forced : BOOLEAN]
  <2>1. vt' = vt \/ vt' = Append(vt, f)
    BY <1>5 DEF Submit
  <2>2. f \in F /\ vt \in Seq(F)
    BY <1>2, <1>3, <1>4
  <2>3. f.session = n /\ f.dims = d
    OBVIOUS
  <2>5. \A i \in 1..Len(vt) : vt[i].session = f.session /\ vt[i].dims = f.dims
    BY <1>4
  <2>. HIDE DEF f, F
  <2>6. /\ vt' \in Seq(F)
        /\ \A i \in 1..Len(vt') : vt'[i].session = f.session /\ vt'[i].dims = f.dims
    BY <2>1, <2>2, <2>5, SubmitFrame
  <2>. QED  BY <2>3, <2>6 DEF F
<1>7. queue' \in Seq(Blocks) /\ vt' \in Seq(Frames)'
  BY <1>1, <1>6, TailOfQueue DEF Frames
<1>8. out' \in [session : 0..n, dims : Dims \cup {NoDims}] /\ out.session # n
  BY <1>1, <1>3
<1>9. callback' \in CallbackPhases /\ (callback' # "idle" => FALSE)
  BY <1>1, <1>4 DEF IInv, EncoderTypeOK, StreamInv
<1>10. EncoderTypeOK'
  <2>1. session' \in 0..created' /\ created' \in Nat
    BY <1>1, <1>3
  <2>2. dims' \in Dims \cup {NoDims}
    BY <1>1, <1>2
  <2>3. out' \in [session : 0..created', dims : Dims \cup {NoDims}]
    BY <1>1, <1>8
  <2>4. forceNextKeyframe' \in BOOLEAN /\ fresh' \in BOOLEAN
    BY <1>1
  <2>5. queue' \in Seq(Blocks)'
    BY <1>7 DEF Blocks
  <2>. QED  BY <1>6, <1>7, <1>9, <2>1, <2>2, <2>3, <2>4, <2>5 DEF EncoderTypeOK
<1>11. FramesBelongToSession' /\ StreamInv'
  BY <1>1, <1>2, <1>6, <1>8, <1>9 DEF FramesBelongToSession, StreamInv
<1>. QED  BY <1>10, <1>11 DEF IInv

(* The callback of the first frame held: it leaves the session alone, drops at most
   that frame, and publishes nothing or that frame. *)
LEMMA CallbackShape ==
    ASSUME IInv, CallbackStep
    PROVE  /\ vt # <<>>
           /\ UNCHANGED <<session, dims, forceNextKeyframe, queue, created>>
           /\ fresh' \in {fresh, FALSE} /\ callback' \in CallbackPhases
           /\ out' = out \/ out' = [session |-> session, dims |-> dims]
           /\ \/ vt' = vt
              \/ vt' = Tail(vt) /\ callback' = "idle"
<1>1. vt # <<>>
  BY DEF IInv, StreamInv, CallbackStep, DropFrame, EncodeFrame, FormatReturns,
         FormatMissing, FrameReturns, FrameEmpty
<1>2. Head(vt).session = session /\ Head(vt).dims = dims
  BY <1>1, TailOfFrames
<1>. QED
  BY <1>1, <1>2 DEF IInv, EncoderTypeOK, CallbackPhases, Publish, CallbackStep, DropFrame,
                    EncodeFrame, FormatReturns, FormatMissing, FrameReturns, FrameEmpty

LEMMA CallbackOK == IInv /\ CallbackStep => IInv'
<1> SUFFICES ASSUME IInv, CallbackStep PROVE IInv'
  OBVIOUS
<1>1. /\ vt # <<>>
      /\ UNCHANGED <<session, dims, forceNextKeyframe, queue, created>>
      /\ fresh' \in {fresh, FALSE} /\ callback' \in CallbackPhases
      /\ out' = out \/ out' = [session |-> session, dims |-> dims]
      /\ \/ vt' = vt
         \/ vt' = Tail(vt) /\ callback' = "idle"
  BY CallbackShape
<1>2. /\ session \in 1..created /\ Tail(vt) \in Seq(Frames)
      /\ \A i \in 1..Len(Tail(vt)) :
            Tail(vt)[i].session = session /\ Tail(vt)[i].dims = dims
  BY <1>1, TailOfFrames
<1>3. vt' \in Seq(Frames)'
  BY <1>1, <1>2 DEF IInv, EncoderTypeOK, Frames
<1>4. /\ out' \in [session : 0..created, dims : Dims \cup {NoDims}]
      /\ out'.session = session => out'.dims = dims
  BY <1>1, <1>2 DEF IInv, EncoderTypeOK, StreamInv
<1>5. fresh' \in BOOLEAN
  BY <1>1 DEF IInv, EncoderTypeOK
<1>6. EncoderTypeOK'
  BY <1>1, <1>3, <1>4, <1>5 DEF IInv, EncoderTypeOK, Blocks
<1>7. FramesBelongToSession'
  BY <1>1, <1>2 DEF IInv, FramesBelongToSession
<1>8. StreamInv'
  BY <1>1, <1>4 DEF IInv, StreamInv
<1>. QED  BY <1>6, <1>7, <1>8 DEF IInv

LEMMA EncoderStepOK == IInv /\ [EncoderNext]_encoderVars => IInv'
<1> SUFFICES ASSUME IInv, [EncoderNext]_encoderVars PROVE IInv'
  OBVIOUS
<1>1. ASSUME NEW t \in Callers, InvalidateCall(t) PROVE IInv'
  <2>1. [op |-> "invalidate", by |-> t] \in Blocks
    BY DEF Blocks
  <2>. QED  BY <1>1, <2>1, EnqueueOK DEF InvalidateCall
<1>2. ASSUME NEW t \in Callers, NEW d \in Dims, EncodeCall(t, d) PROVE IInv'
  <2>1. [op |-> "encode", by |-> t, dims |-> d] \in Blocks
    BY DEF Blocks
  <2>. QED  BY <1>2, <2>1, EnqueueOK DEF EncodeCall
<1>3. CASE RequestKeyframe
  <2>1. [op |-> "key"] \in Blocks
    BY DEF Blocks
  <2>. QED  BY <1>3, <2>1, EnqueueOK DEF RequestKeyframe
<1>4. CASE QueueStep
  BY <1>4, RunKeyOK, TearDownOK, RunEncodeOK, RunEncodeAnewOK DEF QueueStep
<1>5. CASE CallbackStep
  BY <1>5, CallbackOK
<1>6. CASE UNCHANGED encoderVars
  BY <1>6 DEF encoderVars, IInv, EncoderTypeOK, FramesBelongToSession, StreamInv,
              Blocks, Frames
<1>. QED  BY <1>1, <1>2, <1>3, <1>4, <1>5, <1>6 DEF EncoderNext

(* The variables keep their types. *)
THEOREM EncoderTypeCorrect == EncoderSpec => []EncoderTypeOK
<1>1. IInv => EncoderTypeOK
  BY DEF IInv
<1>. QED  BY <1>1, EncoderInitOK, EncoderStepOK, PTL DEF EncoderSpec

(* No rebuild of the session leaves a frame of another session behind. *)
THEOREM FramesAreCurrent == EncoderSpec => []FramesBelongToSession
<1>1. IInv => FramesBelongToSession
  BY DEF IInv
<1>. QED  BY <1>1, EncoderInitOK, EncoderStepOK, PTL DEF EncoderSpec

(* A step that publishes a frame of a session not seen before opens that session in
   the sense of VideoStream; every other step is a stutter. *)
LEMMA StreamStep ==
    IInv /\ [EncoderNext]_encoderVars => [Stream!Next]_(Stream!streamVars)
<1> SUFFICES ASSUME IInv, [EncoderNext]_encoderVars, out' # out
             PROVE  Stream!Next
  BY DEF Stream!streamVars
<1>1. CallbackStep
  BY DEF EncoderNext, encoderVars, InvalidateCall, EncodeCall, RequestKeyframe, Enqueue,
         QueueStep, RunKey, RunInvalidate, RunEncode, RunEncodeAnew, RunEncodeFails, Submit
<1>2. vt # <<>> /\ out' = [session |-> session, dims |-> dims]
  BY <1>1, CallbackShape
<1>3. session \in 1..created
  BY <1>2, TailOfFrames
<1>4. session = created /\ dims \in Dims /\ created \in Nat
      /\ out \in [session : 0..created, dims : Dims \cup {NoDims}]
      /\ (out.session = session => out.dims = dims)
  BY <1>3 DEF IInv, EncoderTypeOK, StreamInv
<1>5. out.session # session
  BY <1>2, <1>4
<1>6. out'.session \in Nat /\ out'.session > out.session /\ out'.dims = dims
  BY <1>2, <1>3, <1>4, <1>5
<1>. QED  BY <1>4, <1>6 DEF Stream!Next, Stream!Open

(* What the encoder publishes is a succession of sessions of one size each. *)
THEOREM EncoderImplementsStream == EncoderSpec => ImplementsVideoStream
<1>1. EncoderInit => Stream!Init
  BY DEF EncoderInit, Stream!Init
<1>. QED
  BY <1>1, EncoderInitOK, EncoderStepOK, StreamStep, PTL
     DEF EncoderSpec, ImplementsVideoStream, Stream!Spec
=============================================================================
