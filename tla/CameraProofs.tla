---------------------------- MODULE CameraProofs ----------------------------
(***************************************************************************)
(* Theorems about Camera for every set of window sizes and streams and any *)
(* capacity of the queue.                                                  *)
(***************************************************************************)
EXTENDS Camera, SequenceTheorems, TLAPS

USE CameraAssumption

-----------------------------------------------------------------------------
(* Type correctness.                                                       *)

LEMMA CameraInitType == Init => TypeOK
  <1> SUFFICES ASSUME Init PROVE TypeOK
    OBVIOUS
  <1>1. /\ Len(<<>>) = 0 /\ <<>> \in Seq(Frame) /\ <<>> \in Seq(Size)
        /\ 0 \in 0..MaxResizes /\ 0 \in 0..MaxFrames /\ 0 <= QueueCapacity
    BY EmptySeq
  <1>2. RendererTypeOK
    <2>1. readbacks \in Seq(Size) /\ Len(readbacks) = 0
      BY <1>1 DEF Init
    <2> QED
      BY <1>1, <2>1 DEF Init, RendererTypeOK
  <1>3. BridgeTypeOK
    <2>1. /\ queue \in Seq(Frame) /\ Len(queue) = 0
          /\ pushing \in Seq(Frame) /\ Len(pushing) = 0
          /\ channel \in Seq(Frame) /\ Len(channel) = 0
      BY <1>1 DEF Init
    <2> QED
      <3>1. receiving = TRUE /\ completed = FALSE
        BY DEF Init
      <3>2. Len(queue) <= QueueCapacity /\ Len(pushing) <= 1 /\ Len(channel) <= 1
        BY <1>1, <2>1
      <3> QED
        BY <2>1, <3>1, <3>2 DEF BridgeTypeOK
  <1>4. StreamsTypeOK
    BY <1>1 DEF Init, StreamsTypeOK
  <1> QED
    BY <1>2, <1>3, <1>4 DEF TypeOK

LEMMA RendererKeepsType ==
  ASSUME RendererTypeOK, UNCHANGED rendererVars
  PROVE  RendererTypeOK'
  BY DEF RendererTypeOK, rendererVars

LEMMA StreamsKeepType ==
  ASSUME StreamsTypeOK, UNCHANGED streamVars
  PROVE  StreamsTypeOK'
  BY DEF StreamsTypeOK, streamVars

StreamState == {"idle", "reading", "writing", "cancelled", "not_ready"}

(* A stream that takes a frame holds one. *)
LEMMA StreamTakes ==
  ASSUME StreamsTypeOK, NEW s \in Stream, NEW frames \in Seq(Frame), Len(frames) = 1,
         stream' = [stream EXCEPT ![s] = "writing"],
         taken' = [taken EXCEPT ![s] = frames],
         delivered' \in [Stream -> Seq(Frame)]
  PROVE  StreamsTypeOK'
  BY DEF StreamsTypeOK

(* A stream that goes anywhere else holds none. *)
LEMMA StreamDrops ==
  ASSUME StreamsTypeOK, NEW s \in Stream,
         \E to \in StreamState \ {"writing"} : stream' = [stream EXCEPT ![s] = to],
         taken' = [taken EXCEPT ![s] = <<>>],
         delivered' \in [Stream -> Seq(Frame)]
  PROVE  StreamsTypeOK'
  <1>1. PICK to \in StreamState \ {"writing"} : stream' = [stream EXCEPT ![s] = to]
    OBVIOUS
  <1>2. <<>> \in Seq(Frame) /\ Len(<<>>) = 0
    BY EmptySeq
  <1>3. stream' \in [Stream -> {"idle", "reading", "writing", "cancelled", "not_ready"}]
    BY <1>1 DEF StreamsTypeOK, StreamState
  <1>4. taken' \in [Stream -> Seq(Frame)]
    BY <1>2 DEF StreamsTypeOK
  <1>5. ASSUME NEW t \in Stream
        PROVE  Len(taken'[t]) = (IF stream'[t] = "writing" THEN 1 ELSE 0)
    <2>1. CASE t = s
      <3>1. taken'[t] = <<>> /\ stream'[t] # "writing"
        BY <1>1, <2>1 DEF StreamsTypeOK, StreamState
      <3> QED
        BY <1>2, <3>1
    <2>2. CASE t # s
      <3>1. taken'[t] = taken[t] /\ stream'[t] = stream[t]
        BY <1>1, <2>2 DEF StreamsTypeOK
      <3> QED
        BY <3>1 DEF StreamsTypeOK
    <2> QED
      BY <2>1, <2>2
  <1> QED
    BY <1>3, <1>4, <1>5 DEF StreamsTypeOK

(* A stream that is not writing holds nothing. *)
LEMMA NothingTaken ==
  ASSUME StreamsTypeOK, NEW s \in Stream, stream[s] # "writing"
  PROVE  taken[s] = <<>> /\ taken = [taken EXCEPT ![s] = <<>>]
  <1>1. taken[s] \in Seq(Frame) /\ Len(taken[s]) = 0
    BY DEF StreamsTypeOK
  <1>2. taken[s] = <<>>
    BY <1>1, EmptySeq
  <1> QED
    BY <1>2 DEF StreamsTypeOK

(* What the renderer does, on Unity's main thread. *)
LEMMA RendererType ==
  ASSUME TypeOK,
         \/ \E size \in Size : Resize(size)
         \/ TryCapture \/ OnReadback \/ OnDestroy
  PROVE  TypeOK'
  <1> USE DEF TypeOK
  <1>1. UNCHANGED <<bridgeVars, streamVars>>
    BY DEF Resize, TryCapture, OnReadback, OnDestroy
  <1>2. StreamsTypeOK'
    BY <1>1, StreamsKeepType
  <1>3. ASSUME NEW size \in Size, Resize(size)
        PROVE  RendererTypeOK' /\ BridgeTypeOK'
    <2>1. resizes' \in 0..MaxResizes
      BY <1>3 DEF RendererTypeOK, Resize
    <2>2. RendererTypeOK'
      BY <1>3, <2>1 DEF RendererTypeOK, Resize
    <2> QED
      BY <1>3, <2>2 DEF BridgeTypeOK, Resize, bridgeVars
  <1>4. CASE TryCapture
    <2>1. CASE texture' = NoTexture \/ inFlight
      BY <1>2, <1>4, <2>1 DEF RendererTypeOK, BridgeTypeOK, TryCapture, Attach, bridgeVars
    <2>2. CASE ~(texture' = NoTexture \/ inFlight)
      <3>1. texture' \in Size /\ readbacks \in Seq(Size) /\ Len(readbacks) = 0
        BY <1>4, <2>2 DEF RendererTypeOK, TryCapture, Attach
      <3>2. readbacks' = Append(readbacks, texture')
        BY <1>4, <2>2 DEF TryCapture
      <3>3. readbacks' \in Seq(Size) /\ Len(readbacks') = 1
        BY <3>1, <3>2, AppendProperties
      <3> QED
        BY <1>2, <1>4, <2>2, <3>1, <3>3 DEF RendererTypeOK, BridgeTypeOK, TryCapture, bridgeVars
    <2> QED
      BY <1>2, <2>1, <2>2
  <1>5. CASE OnReadback
    <2>1. /\ readbacks \in Seq(Size) /\ readbacks # <<>> /\ Len(readbacks) = 1
          /\ Head(readbacks) \in Size
      BY <1>5 DEF RendererTypeOK, OnReadback
    <2>2. readbacks' \in Seq(Size) /\ Len(readbacks') = 0
      BY <1>5, <2>1 DEF OnReadback
    <2>3. RendererTypeOK'
      BY <1>5, <2>2 DEF RendererTypeOK, OnReadback
    <2>4. queue' \in Seq(Frame) /\ Len(queue') <= QueueCapacity
      <3>1. CASE UNCHANGED queue
        BY <3>1 DEF BridgeTypeOK
      <3>2. CASE ~UNCHANGED queue
        <4>1. /\ texture # NoTexture
              /\ Len(queue) < QueueCapacity
              /\ queue' = Append(queue, FrameRead)
          BY <1>5, <3>2 DEF OnReadback, Send
        <4>2. FrameRead \in Frame /\ queue \in Seq(Frame)
          BY <2>1, <4>1 DEF RendererTypeOK, BridgeTypeOK, FrameRead, Frame
        <4> QED
          BY <4>1, <4>2
      <3> QED
        BY <3>1, <3>2
    <2> QED
      BY <1>1, <1>2, <2>3, <2>4 DEF BridgeTypeOK, bridgeVars
  <1>6. CASE OnDestroy
    BY <1>2, <1>6 DEF RendererTypeOK, BridgeTypeOK, OnDestroy, bridgeVars
  <1> QED
    BY <1>2, <1>3, <1>4, <1>5, <1>6

(* What the engine does with frames, and the shutdown. *)
LEMMA BridgeType ==
  ASSUME TypeOK, OnFrameReceived \/ Push \/ DisposeReceiver \/ DisposeBridge
  PROVE  TypeOK'
  <1> USE DEF TypeOK
  <1>1. RendererTypeOK' /\ StreamsTypeOK'
    BY RendererKeepsType, StreamsKeepType DEF OnFrameReceived, Push, DisposeReceiver, DisposeBridge
  <1>2. CASE OnFrameReceived
    <2>1. queue \in Seq(Frame) /\ queue # <<>> /\ Head(queue) \in Frame
      BY <1>2 DEF BridgeTypeOK, OnFrameReceived
    <2>2. queue' \in Seq(Frame) /\ Len(queue') <= QueueCapacity
      BY <1>2, <2>1 DEF BridgeTypeOK, OnFrameReceived
    <2>3. pushing' \in Seq(Frame) /\ Len(pushing') <= 1
      BY <1>2, <2>1 DEF BridgeTypeOK, OnFrameReceived
    <2> QED
      BY <1>1, <1>2, <2>2, <2>3 DEF BridgeTypeOK, OnFrameReceived
  <1>3. CASE DisposeReceiver \/ DisposeBridge
    BY <1>1, <1>3 DEF BridgeTypeOK, DisposeReceiver, DisposeBridge
  <1>4. CASE Push
    <2>1. <<>> \in Seq(Frame) /\ Len(<<>>) = 0
      BY EmptySeq
    <2>2. pushing' \in Seq(Frame) /\ Len(pushing') <= 1
      BY <1>4, <2>1 DEF Push
    <2>3. channel' \in Seq(Frame) /\ Len(channel') <= 1
      BY <1>4 DEF BridgeTypeOK, Push
    <2> QED
      BY <1>1, <1>4, <2>2, <2>3 DEF BridgeTypeOK, Push
  <1> QED
    BY <1>2, <1>3, <1>4

(* What a stream does. *)
LEMMA StreamType ==
  ASSUME TypeOK, NEW s \in Stream,
         StreamFrames(s) \/ CaptureAsync(s) \/ WriteAsync(s) \/ Cancel(s)
  PROVE  TypeOK'
  <1>1. RendererTypeOK /\ BridgeTypeOK /\ StreamsTypeOK
    BY DEF TypeOK
  <1>2. RendererTypeOK'
    BY <1>1, RendererKeepsType DEF StreamFrames, CaptureAsync, WriteAsync, Cancel
  <1>3. BridgeTypeOK'
    <2>1. channel' \in {channel, <<>>} /\ UNCHANGED <<queue, receiving, pushing, completed>>
      BY DEF bridgeVars, StreamFrames, CaptureAsync, WriteAsync, Cancel
    <2>2. channel' \in Seq(Frame) /\ Len(channel') <= 1
      <3>1. channel \in Seq(Frame) /\ Len(channel) <= 1
        BY <1>1 DEF BridgeTypeOK
      <3>2. <<>> \in Seq(Frame) /\ Len(<<>>) = 0
        BY EmptySeq
      <3>3. CASE channel' = channel
        BY <3>1, <3>3
      <3>4. CASE channel' = <<>>
        BY <3>2, <3>4
      <3> QED
        BY <2>1, <3>3, <3>4
    <2> QED
      BY <1>1, <2>1, <2>2 DEF BridgeTypeOK
  <1>4. ASSUME StreamFrames(s) \/ (CaptureAsync(s) /\ channel = <<>>)
        PROVE  StreamsTypeOK'
    <2>1. stream[s] # "writing" /\ taken' = taken /\ delivered' = delivered
      BY <1>4 DEF StreamFrames, CaptureAsync
    <2>2. \E to \in StreamState \ {"writing"} : stream' = [stream EXCEPT ![s] = to]
      BY <1>4 DEF StreamFrames, CaptureAsync, StreamState
    <2>3. taken' = [taken EXCEPT ![s] = <<>>]
      BY <1>1, <2>1, NothingTaken
    <2>4. delivered' \in [Stream -> Seq(Frame)]
      BY <1>1, <2>1 DEF StreamsTypeOK
    <2> QED
      BY <1>1, <2>2, <2>3, <2>4, StreamDrops
  <1>5. ASSUME CaptureAsync(s), channel # <<>>
        PROVE  StreamsTypeOK'
    <2>1. channel \in Seq(Frame) /\ Len(channel) = 1
      <3>1. channel \in Seq(Frame) /\ Len(channel) <= 1
        BY <1>1 DEF BridgeTypeOK
      <3>2. Len(channel) \in Nat /\ Len(channel) # 0
        BY <1>5, <3>1, EmptySeq
      <3>3. ASSUME NEW n \in Nat, n # 0, n <= 1 PROVE n = 1
        BY <3>3
      <3>4. Len(channel) = 1
        BY <3>1, <3>2, <3>3
      <3> QED
        BY <3>1, <3>4
    <2>2. /\ stream' = [stream EXCEPT ![s] = "writing"]
          /\ taken' = [taken EXCEPT ![s] = channel]
          /\ delivered' = delivered
      BY <1>5 DEF CaptureAsync
    <2>3. delivered' \in [Stream -> Seq(Frame)]
      BY <1>1, <2>2 DEF StreamsTypeOK
    <2> QED
      BY <1>1, <2>1, <2>2, <2>3, StreamTakes
  <1>6. ASSUME WriteAsync(s) \/ Cancel(s)
        PROVE  StreamsTypeOK'
    <2>1. delivered[s] \o taken[s] \in Seq(Frame)
      BY <1>1 DEF StreamsTypeOK
    <2>2. delivered' \in [Stream -> Seq(Frame)]
      BY <1>1, <1>6, <2>1 DEF StreamsTypeOK, WriteAsync, Cancel
    <2>3. taken' = [taken EXCEPT ![s] = <<>>]
      BY <1>6 DEF WriteAsync, Cancel
    <2>4. \E to \in StreamState \ {"writing"} : stream' = [stream EXCEPT ![s] = to]
      BY <1>6 DEF WriteAsync, Cancel, StreamState
    <2> QED
      BY <1>1, <2>2, <2>3, <2>4, StreamDrops
  <1> QED
    BY <1>2, <1>3, <1>4, <1>5, <1>6 DEF TypeOK

LEMMA CameraNextType == TypeOK /\ [Next]_vars => TypeOK'
  <1>1. CASE UNCHANGED vars
    BY <1>1, RendererKeepsType, StreamsKeepType
    DEF vars, TypeOK, BridgeTypeOK, bridgeVars
  <1> QED
    BY <1>1, RendererType, BridgeType, StreamType DEF Next

(* The pipeline stays well typed; above all, one readback at most is in    *)
(* flight, and the channel holds one frame at most.                        *)
THEOREM CameraTypeCorrect == Spec => []TypeOK
  BY CameraInitType, CameraNextType, PTL DEF Spec

-----------------------------------------------------------------------------
(* What the headers say of the pixels.                                     *)

(* From the receiver's check on, at every place a frame passes. *)
Fit(frames) == \A i \in DOMAIN frames : TryParseFrame(frames[i])

FitInv == Fit(pushing) /\ Fit(channel) /\ \A s \in Stream : Fit(taken[s]) /\ Fit(delivered[s])

LEMMA FitConcat ==
  ASSUME NEW a \in Seq(Frame), NEW b \in Seq(Frame), Fit(a), Fit(b)
  PROVE  Fit(a \o b)
  <1> SUFFICES ASSUME NEW i \in DOMAIN (a \o b) PROVE TryParseFrame((a \o b)[i])
    BY DEF Fit
  <1>1. i \in 1..(Len(a) + Len(b))
    OBVIOUS
  <1>2. CASE i <= Len(a)
    <2>1. i \in DOMAIN a /\ (a \o b)[i] = a[i]
      BY <1>1, <1>2
    <2> QED
      BY <2>1 DEF Fit
  <1>3. CASE i > Len(a)
    <2>1. i - Len(a) \in DOMAIN b /\ (a \o b)[i] = b[i - Len(a)]
      BY <1>1, <1>3
    <2> QED
      BY <2>1 DEF Fit
  <1> QED
    BY <1>1, <1>2, <1>3

LEMMA FitStep ==
  ASSUME TypeOK, FitInv, [Next]_vars
  PROVE  FitInv'
  <1>1. CASE UNCHANGED <<pushing, channel, taken, delivered>>
    BY <1>1 DEF FitInv, Fit, TryParseFrame, Area
  <1>2. CASE OnFrameReceived
    <2>1. Fit(pushing')
      BY <1>2 DEF OnFrameReceived, Fit
    <2> QED
      BY <1>2, <2>1 DEF OnFrameReceived, streamVars, FitInv, Fit, TryParseFrame, Area
  <1>3. ASSUME NEW s \in Stream, CaptureAsync(s)
        PROVE  FitInv'
    <2>1. Fit(channel')
      BY <1>3 DEF CaptureAsync, FitInv, Fit
    <2>2. \A t \in Stream : Fit(taken'[t])
      BY <1>3 DEF CaptureAsync, FitInv, TypeOK, StreamsTypeOK
    <2> QED
      BY <1>3, <2>1, <2>2 DEF CaptureAsync, FitInv, Fit, TryParseFrame, Area
  <1>4. ASSUME NEW s \in Stream, WriteAsync(s)
        PROVE  FitInv'
    <2>1. Fit(delivered[s] \o taken[s])
      BY FitConcat DEF FitInv, TypeOK, BridgeTypeOK, StreamsTypeOK
    <2>2. \A t \in Stream : Fit(delivered'[t])
      BY <1>4, <2>1 DEF WriteAsync, FitInv, TypeOK, StreamsTypeOK
    <2>3. \A t \in Stream : Fit(taken'[t])
      BY <1>4 DEF WriteAsync, FitInv, TypeOK, StreamsTypeOK, Fit
    <2> QED
      BY <1>4, <2>2, <2>3 DEF WriteAsync, bridgeVars, FitInv, Fit, TryParseFrame, Area
  <1>5. ASSUME NEW s \in Stream, Cancel(s)
        PROVE  FitInv'
    <2>1. \A t \in Stream : Fit(taken'[t])
      BY <1>5 DEF Cancel, FitInv, TypeOK, StreamsTypeOK, Fit
    <2> QED
      BY <1>5, <2>1 DEF Cancel, bridgeVars, FitInv, Fit, TryParseFrame, Area
  <1>6. CASE UNCHANGED vars
    BY <1>1, <1>6 DEF vars, bridgeVars, streamVars
  <1>7. ASSUME \/ \E size \in Size : Resize(size)
               \/ TryCapture \/ OnReadback \/ OnDestroy
               \/ DisposeReceiver \/ DisposeBridge
               \/ \E s \in Stream : StreamFrames(s)
        PROVE  UNCHANGED <<pushing, channel, taken, delivered>>
    BY <1>7
    DEF Resize, TryCapture, OnReadback, OnDestroy, DisposeReceiver, DisposeBridge,
        StreamFrames, bridgeVars, streamVars
  <1>8. CASE Push
    <2>1. Fit(pushing') /\ Fit(channel')
      BY <1>8 DEF Push, FitInv, Fit
    <2> QED
      BY <1>8, <2>1 DEF Push, streamVars, FitInv, Fit, TryParseFrame, Area
  <1> QED
    BY <1>1, <1>2, <1>3, <1>4, <1>5, <1>6, <1>7, <1>8 DEF Next

(* Frames that state the size their pixels have, but for some ids. *)
Told(frames, ids) ==
  \A i \in DOMAIN frames : frames[i].header = frames[i].pixels \/ frames[i].id \in ids

(* As long as the window keeps the size that the readback in flight was    *)
(* requested at, so does the texture, if there is one.                     *)
Steady ==
  inFlight /\ frameId \notin torn =>
    window = Head(readbacks) /\ texture \in {Head(readbacks), NoTexture}

ToldInv ==
  /\ Told(queue, torn) /\ Told(pushing, torn) /\ Told(channel, torn)
  /\ \A s \in Stream : Told(taken[s], torn) /\ Told(delivered[s], torn)

LEMMA ToldConcat ==
  ASSUME NEW a \in Seq(Frame), NEW b \in Seq(Frame), NEW ids, Told(a, ids), Told(b, ids)
  PROVE  Told(a \o b, ids)
  <1> SUFFICES ASSUME NEW i \in DOMAIN (a \o b)
               PROVE  (a \o b)[i].header = (a \o b)[i].pixels \/ (a \o b)[i].id \in ids
    BY DEF Told
  <1>1. i \in 1..(Len(a) + Len(b))
    OBVIOUS
  <1>2. CASE i <= Len(a)
    <2>1. i \in DOMAIN a /\ (a \o b)[i] = a[i]
      BY <1>1, <1>2
    <2> QED
      BY <2>1 DEF Told
  <1>3. CASE i > Len(a)
    <2>1. i - Len(a) \in DOMAIN b /\ (a \o b)[i] = b[i - Len(a)]
      BY <1>1, <1>3
    <2> QED
      BY <2>1 DEF Told
  <1> QED
    BY <1>1, <1>2, <1>3

LEMMA ToldOfFew ==
  ASSUME NEW ids
  PROVE  /\ Told(<<>>, ids)
         /\ \A f : (f.header = f.pixels \/ f.id \in ids) => Told(<<f>>, ids)
         /\ \A frames \in Seq(Frame) : frames # <<>> /\ Told(frames, ids) =>
              Told(<<Head(frames)>>, ids) /\ Told(Tail(frames), ids)
  <1>1. Told(<<>>, ids) /\ \A f : (f.header = f.pixels \/ f.id \in ids) => Told(<<f>>, ids)
    BY DEF Told
  <1>2. ASSUME NEW frames \in Seq(Frame), frames # <<>>, Told(frames, ids)
        PROVE  Told(<<Head(frames)>>, ids) /\ Told(Tail(frames), ids)
    <2>1. Head(frames) = frames[1] /\ 1 \in DOMAIN frames
      BY <1>2
    <2>2. \A i \in DOMAIN Tail(frames) : i + 1 \in DOMAIN frames /\ Tail(frames)[i] = frames[i + 1]
      BY <1>2
    <2> QED
      BY <1>2, <2>1, <2>2 DEF Told
  <1> QED
    BY <1>1, <1>2

LEMMA SteadyStep ==
  ASSUME TypeOK, Steady, [Next]_vars
  PROVE  Steady'
  <1>1. CASE UNCHANGED rendererVars
    BY <1>1 DEF Steady, rendererVars
  <1>2. ASSUME NEW size \in Size, Resize(size)
        PROVE  Steady'
    BY <1>2 DEF Steady, Resize
  <1>3. CASE TryCapture
    <2>1. CASE texture' = NoTexture \/ inFlight
      BY <1>3, <2>1 DEF Steady, TryCapture, Attach
    <2>2. CASE texture' # NoTexture /\ ~inFlight
      <3>1. /\ texture' = window /\ window' = window /\ window \in Size
            /\ readbacks \in Seq(Size) /\ Len(readbacks) = 0 /\ readbacks' = Append(readbacks, window)
        BY <1>3, <2>2 DEF TryCapture, Attach, TypeOK, RendererTypeOK
      <3>2. readbacks' = <<window>>
        BY <3>1, EmptySeq
      <3> QED
        BY <3>1, <3>2 DEF Steady
    <2> QED
      BY <2>1, <2>2
  <1>4. CASE OnReadback
    BY <1>4 DEF Steady, OnReadback
  <1>5. CASE OnDestroy
    BY <1>5 DEF Steady, OnDestroy
  <1> QED
    BY <1>1, <1>2, <1>3, <1>4, <1>5
    DEF Next, vars, OnFrameReceived, Push, DisposeReceiver, DisposeBridge,
        StreamFrames, CaptureAsync, WriteAsync, Cancel

LEMMA ToldStep ==
  ASSUME TypeOK, Steady, ToldInv, [Next]_vars
  PROVE  ToldInv'
  <1>0. torn \subseteq torn' /\ ToldInv
    BY DEF Next, vars, rendererVars, Resize, TryCapture, OnReadback, OnDestroy, OnFrameReceived, Push,
           DisposeReceiver, DisposeBridge, StreamFrames, CaptureAsync, WriteAsync, Cancel
  <1>1. CASE UNCHANGED <<queue, pushing, channel, taken, delivered>>
    BY <1>0, <1>1 DEF ToldInv, Told
  <1>2. CASE OnReadback /\ queue' # queue
    <2>1. /\ queue' = Append(queue, FrameRead) /\ texture # NoTexture
          /\ UNCHANGED <<torn, pushing, channel, taken, delivered>>
      BY <1>2 DEF OnReadback, Send, bridgeVars, streamVars
    <2>2. inFlight
      BY <1>2 DEF OnReadback, TypeOK, RendererTypeOK
    <2>3. FrameRead.header = FrameRead.pixels \/ FrameRead.id \in torn
      BY <2>1, <2>2 DEF Steady, FrameRead
    <2>4. FrameRead \in Frame /\ queue \in Seq(Frame)
      BY <1>2, <2>1, <2>2 DEF OnReadback, TypeOK, RendererTypeOK, BridgeTypeOK, FrameRead, Frame
    <2>5. <<FrameRead>> \in Seq(Frame) /\ queue' = queue \o <<FrameRead>>
      BY <2>1, <2>4, AppendIsConcat
    <2>6. Told(queue \o <<FrameRead>>, torn)
      BY <2>3, <2>4, <2>5, ToldOfFew, ToldConcat DEF ToldInv
    <2> QED
      BY <2>1, <2>5, <2>6 DEF ToldInv
  <1>3. CASE OnFrameReceived
    <2>1. queue \in Seq(Frame) /\ queue # <<>>
      BY <1>3 DEF OnFrameReceived, TypeOK, BridgeTypeOK
    <2>2. /\ queue' = Tail(queue) /\ pushing' \in {<<>>, <<Head(queue)>>}
          /\ UNCHANGED <<torn, channel, taken, delivered>>
      BY <1>3 DEF OnFrameReceived, rendererVars, streamVars
    <2> QED
      BY <2>1, <2>2, ToldOfFew DEF ToldInv
  <1>4. CASE Push
    <2>1. /\ pushing' = <<>> /\ channel' \in {channel, pushing}
          /\ UNCHANGED <<torn, queue, taken, delivered>>
      BY <1>4 DEF Push, rendererVars, streamVars
    <2> QED
      BY <2>1, ToldOfFew DEF ToldInv
  <1>5. ASSUME NEW s \in Stream, CaptureAsync(s) \/ WriteAsync(s) \/ Cancel(s)
        PROVE  ToldInv'
    <2>1. UNCHANGED <<torn, queue, pushing>> /\ channel' \in {channel, <<>>}
      BY <1>5 DEF CaptureAsync, WriteAsync, Cancel, rendererVars, bridgeVars
    <2>2. taken \in [Stream -> Seq(Frame)] /\ delivered \in [Stream -> Seq(Frame)]
      BY DEF TypeOK, StreamsTypeOK
    <2>3. ASSUME NEW t \in Stream
          PROVE  taken'[t] \in {taken[t], channel, <<>>} /\ delivered'[t] \in {delivered[t], delivered[t] \o taken[t]}
      BY <1>5, <2>2 DEF CaptureAsync, WriteAsync, Cancel
    <2>4. ASSUME NEW t \in Stream
          PROVE  Told(taken'[t], torn) /\ Told(delivered'[t], torn)
      <3>1. Told(delivered[t] \o taken[t], torn)
        BY <2>2, ToldConcat DEF ToldInv
      <3> QED
        BY <2>3, <3>1, ToldOfFew DEF ToldInv
    <2> QED
      BY <2>1, <2>4, ToldOfFew DEF ToldInv
  <1>6. ASSUME \/ UNCHANGED vars
               \/ \E size \in Size : Resize(size)
               \/ TryCapture \/ OnDestroy \/ (OnReadback /\ queue' = queue)
               \/ DisposeReceiver \/ DisposeBridge
               \/ \E s \in Stream : StreamFrames(s)
        PROVE  UNCHANGED <<queue, pushing, channel, taken, delivered>>
    BY <1>6
    DEF vars, Resize, TryCapture, OnReadback, OnDestroy, DisposeReceiver, DisposeBridge,
        StreamFrames, bridgeVars, streamVars
  <1> QED
    BY <1>1, <1>2, <1>3, <1>4, <1>5, <1>6 DEF Next

(* Only a frame during whose readback the window was resized states a size *)
(* its pixels do not have, and one that a client gets has as many bytes as *)
(* it states: for all sizes, also those of one area.                       *)
THEOREM HeadersAreTrue == Spec => []HeadersTrue
  <1>1. Init => FitInv /\ Steady /\ ToldInv
    BY DEF Init, FitInv, Fit, Steady, ToldInv, Told
  <1>2. TypeOK /\ FitInv /\ [Next]_vars => FitInv'
    BY FitStep
  <1>3. TypeOK /\ Steady /\ [Next]_vars => Steady'
    BY SteadyStep
  <1>4. TypeOK /\ Steady /\ ToldInv /\ [Next]_vars => ToldInv'
    BY ToldStep
  <1>5. FitInv /\ ToldInv => HeadersTrue
    BY DEF FitInv, Fit, ToldInv, Told, HeadersTrue, HeaderTrue, TryParseFrame
  <1> QED
    BY <1>1, <1>2, <1>3, <1>4, <1>5, CameraTypeCorrect, PTL DEF Spec
-----------------------------------------------------------------------------
(* The order of the frames.                                                *)

Before(A, B) == \A a \in A, b \in B : a < b
Rising(frames) == \A i, j \in DOMAIN frames : i < j => frames[i].id < frames[j].id

(* Five places that a frame passes, the farthest first, hold rising ids,   *)
(* all of them below n.                                                    *)
InLine(d, t, c, p, q, n) ==
  /\ Rising(d) /\ Rising(t) /\ Rising(c) /\ Rising(p) /\ Rising(q)
  /\ Before(Ids(d), Ids(t) \cup Ids(c) \cup Ids(p) \cup Ids(q))
  /\ Before(Ids(t), Ids(c) \cup Ids(p) \cup Ids(q))
  /\ Before(Ids(c), Ids(p) \cup Ids(q))
  /\ Before(Ids(p), Ids(q))
  /\ Before(Ids(d) \cup Ids(t) \cup Ids(c) \cup Ids(p) \cup Ids(q), {n})

(* The id that the next frame to be sent has, or would have. *)
NextId == IF inFlight THEN frameId ELSE frameId + 1

LineInv ==
  \A s \in Stream : InLine(delivered[s], taken[s], channel, pushing, queue, NextId)

ApartInv ==
  \A s, t \in Stream :
    s # t => (Ids(delivered[s]) \cup Ids(taken[s]))
             \cap (Ids(delivered[t]) \cup Ids(taken[t]) \cup Ids(channel)) = {}

OrderInv == LineInv /\ ApartInv

(* Lemmas on sequences of frames and their ids. *)

LEMMA IdsOfNone == Ids(<<>>) = {} /\ Rising(<<>>)
  BY DEF Ids, Rising

LEMMA IdsOfOne ==
  ASSUME NEW f \in Frame
  PROVE  Ids(<<f>>) = {f.id} /\ Rising(<<f>>) /\ <<f>> \in Seq(Frame)
  <1>1. DOMAIN <<f>> = {1} /\ <<f>>[1] = f /\ <<f>> \in Seq(Frame)
    OBVIOUS
  <1> QED
    BY <1>1 DEF Ids, Rising

LEMMA IdsAreNat ==
  ASSUME NEW a \in Seq(Frame)
  PROVE  Ids(a) \subseteq Nat
  <1>1. \A i \in DOMAIN a : a[i] \in Frame
    OBVIOUS
  <1> QED
    BY <1>1 DEF Ids, Frame

LEMMA IdsConcat ==
  ASSUME NEW a \in Seq(Frame), NEW b \in Seq(Frame)
  PROVE  Ids(a \o b) = Ids(a) \cup Ids(b)
  <1>1. \A i \in DOMAIN a : i \in DOMAIN (a \o b) /\ (a \o b)[i] = a[i]
    OBVIOUS
  <1>2. \A i \in DOMAIN b : Len(a) + i \in DOMAIN (a \o b) /\ (a \o b)[Len(a) + i] = b[i]
    OBVIOUS
  <1>3. ASSUME NEW i \in DOMAIN (a \o b)
        PROVE  \/ i \in DOMAIN a /\ (a \o b)[i] = a[i]
               \/ i - Len(a) \in DOMAIN b /\ (a \o b)[i] = b[i - Len(a)]
    OBVIOUS
  <1>4. Ids(a \o b) \subseteq Ids(a) \cup Ids(b)
    BY <1>3 DEF Ids
  <1>5. Ids(a) \subseteq Ids(a \o b)
    BY <1>1 DEF Ids
  <1>6. Ids(b) \subseteq Ids(a \o b)
    BY <1>2 DEF Ids
  <1> QED
    BY <1>4, <1>5, <1>6

LEMMA RisingConcat ==
  ASSUME NEW a \in Seq(Frame), NEW b \in Seq(Frame),
         Rising(a), Rising(b), Before(Ids(a), Ids(b))
  PROVE  Rising(a \o b)
  <1> SUFFICES ASSUME NEW i \in DOMAIN (a \o b), NEW j \in DOMAIN (a \o b), i < j
               PROVE  (a \o b)[i].id < (a \o b)[j].id
    BY DEF Rising
  <1>1. ASSUME NEW k \in DOMAIN (a \o b)
        PROVE  \/ k <= Len(a) /\ k \in DOMAIN a /\ (a \o b)[k] = a[k]
               \/ k > Len(a) /\ k - Len(a) \in DOMAIN b /\ (a \o b)[k] = b[k - Len(a)]
    OBVIOUS
  <1>2. i \in Nat /\ j \in Nat /\ Len(a) \in Nat
    OBVIOUS
  <1>3. CASE j <= Len(a)
    <2>1. i \in DOMAIN a /\ j \in DOMAIN a /\ (a \o b)[i] = a[i] /\ (a \o b)[j] = a[j]
      BY <1>1, <1>2, <1>3
    <2> QED
      BY <2>1 DEF Rising
  <1>4. CASE i > Len(a)
    <2>1. /\ i - Len(a) \in DOMAIN b /\ (a \o b)[i] = b[i - Len(a)]
          /\ j - Len(a) \in DOMAIN b /\ (a \o b)[j] = b[j - Len(a)]
          /\ i - Len(a) < j - Len(a)
      BY <1>1, <1>2, <1>4
    <2> QED
      BY <2>1 DEF Rising
  <1>5. CASE i <= Len(a) /\ j > Len(a)
    <2>1. /\ i \in DOMAIN a /\ (a \o b)[i] = a[i]
          /\ j - Len(a) \in DOMAIN b /\ (a \o b)[j] = b[j - Len(a)]
      BY <1>1, <1>2, <1>5
    <2>2. a[i].id \in Ids(a) /\ b[j - Len(a)].id \in Ids(b)
      BY <2>1 DEF Ids
    <2> QED
      BY <2>1, <2>2 DEF Before
  <1> QED
    BY <1>2, <1>3, <1>4, <1>5

LEMMA JoinsInOrder ==
  ASSUME NEW a \in Seq(Frame), NEW b \in Seq(Frame),
         Rising(a), Rising(b), Before(Ids(a), Ids(b))
  PROVE  a \o b \in Seq(Frame) /\ Rising(a \o b) /\ Ids(a \o b) = Ids(a) \cup Ids(b)
  <1>1. a \o b \in Seq(Frame)
    OBVIOUS
  <1> QED
    BY <1>1, IdsConcat, RisingConcat

(* What rises as a whole rises in each part, and the parts are in order. *)
LEMMA RisingParts ==
  ASSUME NEW a \in Seq(Frame), NEW b \in Seq(Frame), Rising(a \o b)
  PROVE  Rising(a) /\ Rising(b) /\ Before(Ids(a), Ids(b))
  <1>1. \A i \in DOMAIN a : i \in DOMAIN (a \o b) /\ (a \o b)[i] = a[i]
    OBVIOUS
  <1>2. \A i \in DOMAIN b : Len(a) + i \in DOMAIN (a \o b) /\ (a \o b)[Len(a) + i] = b[i]
    OBVIOUS
  <1>3. Rising(a)
    BY <1>1 DEF Rising
  <1>4. Rising(b)
    <2> SUFFICES ASSUME NEW i \in DOMAIN b, NEW j \in DOMAIN b, i < j
                 PROVE  b[i].id < b[j].id
      BY DEF Rising
    <2>1. Len(a) + i < Len(a) + j
      OBVIOUS
    <2> QED
      BY <1>2, <2>1 DEF Rising
  <1>5. Before(Ids(a), Ids(b))
    <2> SUFFICES ASSUME NEW i \in DOMAIN a, NEW j \in DOMAIN b
                 PROVE  a[i].id < b[j].id
      BY DEF Before, Ids
    <2>1. i < Len(a) + j
      OBVIOUS
    <2> QED
      BY <1>1, <1>2, <2>1 DEF Rising
  <1> QED
    BY <1>3, <1>4, <1>5

(* The queue without its first frame. *)
LEMMA HeadAndTail ==
  ASSUME NEW q \in Seq(Frame), q # <<>>, Rising(q)
  PROVE  /\ Head(q) \in Frame /\ Tail(q) \in Seq(Frame) /\ Rising(Tail(q))
         /\ Ids(q) = {Head(q).id} \cup Ids(Tail(q))
         /\ Before({Head(q).id}, Ids(Tail(q)))
  <1>1. Head(q) \in Frame /\ Tail(q) \in Seq(Frame) /\ q = <<Head(q)>> \o Tail(q)
    <2>1. Head(q) \in Frame /\ Tail(q) \in Seq(Frame) /\ Len(Tail(q)) = Len(q) - 1
          /\ q[1] = Head(q) /\ \A i \in 1..Len(Tail(q)) : Tail(q)[i] = q[i + 1]
          /\ Len(q) \in Nat \ {0}
      BY HeadTailProperties
    <2>2. /\ <<Head(q)>> \in Seq(Frame) /\ Len(<<Head(q)>>) = 1 /\ <<Head(q)>>[1] = Head(q)
      BY <2>1
    <2>3. /\ <<Head(q)>> \o Tail(q) \in Seq(Frame)
          /\ Len(<<Head(q)>> \o Tail(q)) = Len(q)
      BY <2>1, <2>2
    <2>4. ASSUME NEW i \in 1..Len(q)
          PROVE  q[i] = (<<Head(q)>> \o Tail(q))[i]
      <3>1. CASE i = 1
        BY <2>1, <2>2, <3>1
      <3>2. CASE i # 1
        <4>1. i - 1 \in 1..Len(Tail(q)) /\ i > Len(<<Head(q)>>)
          BY <2>1, <2>2, <3>2
        <4>2. (<<Head(q)>> \o Tail(q))[i] = Tail(q)[i - 1]
          BY <2>1, <2>2, <2>3, <4>1
        <4> QED
          BY <2>1, <4>1, <4>2
      <3> QED
        BY <3>1, <3>2
    <2> QED
      BY <2>1, <2>3, <2>4, SeqEqual
  <1>2. Ids(<<Head(q)>>) = {Head(q).id} /\ <<Head(q)>> \in Seq(Frame)
    BY <1>1, IdsOfOne
  <1>3. Rising(<<Head(q)>> \o Tail(q))
    BY <1>1
  <1>4. Rising(Tail(q)) /\ Before(Ids(<<Head(q)>>), Ids(Tail(q)))
    BY <1>1, <1>2, <1>3, RisingParts
  <1>5. Ids(<<Head(q)>> \o Tail(q)) = Ids(<<Head(q)>>) \cup Ids(Tail(q))
    BY <1>1, <1>2, IdsConcat
  <1> QED
    BY <1>1, <1>2, <1>4, <1>5

(* How frames move along the line. *)

LEMMA LineSends ==
  ASSUME NEW d, NEW t, NEW c, NEW p, NEW q \in Seq(Frame), NEW n \in Nat,
         NEW f \in Frame, f.id = n,
         Ids(d) \cup Ids(t) \cup Ids(c) \cup Ids(p) \subseteq Nat,
         InLine(d, t, c, p, q, n)
  PROVE  InLine(d, t, c, p, Append(q, f), n + 1) /\ InLine(d, t, c, p, q, n + 1)
  <1>1. Ids(q) \subseteq Nat
    BY IdsAreNat
  <1>2. Append(q, f) = q \o <<f>>
    OBVIOUS
  <1>3. /\ Ids(<<f>>) = {n} /\ Rising(<<f>>) /\ <<f>> \in Seq(Frame)
    BY IdsOfOne
  <1>4. Ids(Append(q, f)) = Ids(q) \cup {n}
    BY <1>2, <1>3, IdsConcat
  <1>5. Before(Ids(q), {n})
    BY DEF InLine, Before
  <1>6. Rising(Append(q, f))
    BY <1>2, <1>3, <1>5, RisingConcat DEF InLine
  <1>7. Before(Ids(d) \cup Ids(t) \cup Ids(c) \cup Ids(p) \cup Ids(q) \cup {n}, {n + 1})
    BY <1>1 DEF InLine, Before
  <1> QED
    BY <1>4, <1>6, <1>7 DEF InLine, Before

LEMMA LineReceives ==
  ASSUME NEW d, NEW t, NEW c, NEW q \in Seq(Frame), NEW n, q # <<>>,
         InLine(d, t, c, <<>>, q, n)
  PROVE  /\ InLine(d, t, c, <<Head(q)>>, Tail(q), n)
         /\ InLine(d, t, c, <<>>, Tail(q), n)
  <1>1. /\ Head(q) \in Frame /\ Rising(Tail(q)) /\ Ids(q) = {Head(q).id} \cup Ids(Tail(q))
        /\ Before({Head(q).id}, Ids(Tail(q)))
    BY HeadAndTail DEF InLine
  <1>2. Ids(<<Head(q)>>) = {Head(q).id} /\ Rising(<<Head(q)>>)
    BY <1>1, IdsOfOne
  <1> QED
    BY <1>1, <1>2, IdsOfNone DEF InLine, Before

LEMMA LinePushes ==
  ASSUME NEW d, NEW t, NEW c, NEW p, NEW q, NEW n, InLine(d, t, c, p, q, n)
  PROVE  InLine(d, t, p, <<>>, q, n) /\ InLine(d, t, c, <<>>, q, n)
  BY IdsOfNone DEF InLine, Before

LEMMA LineTakes ==
  ASSUME NEW d, NEW c, NEW p, NEW q, NEW n, InLine(d, <<>>, c, p, q, n)
  PROVE  InLine(d, c, <<>>, p, q, n)
  BY IdsOfNone DEF InLine, Before

LEMMA LineLoses ==
  ASSUME NEW d, NEW t, NEW c, NEW p, NEW q, NEW n, InLine(d, t, c, p, q, n)
  PROVE  InLine(d, t, <<>>, p, q, n) /\ InLine(d, <<>>, c, p, q, n)
  BY IdsOfNone DEF InLine, Before

LEMMA LineWrites ==
  ASSUME NEW d \in Seq(Frame), NEW t \in Seq(Frame), NEW c, NEW p, NEW q, NEW n,
         InLine(d, t, c, p, q, n)
  PROVE  InLine(d \o t, <<>>, c, p, q, n)
  <1>1. Ids(d \o t) = Ids(d) \cup Ids(t)
    BY IdsConcat
  <1>2. Rising(d \o t)
    BY RisingConcat DEF InLine, Before
  <1> QED
    BY <1>1, <1>2, IdsOfNone DEF InLine, Before

(* How the system moves them. *)

LEMMA OrderTypes ==
  ASSUME TypeOK
  PROVE  /\ queue \in Seq(Frame) /\ channel \in Seq(Frame) /\ pushing \in Seq(Frame)
         /\ \A s \in Stream : delivered[s] \in Seq(Frame) /\ taken[s] \in Seq(Frame)
         /\ delivered \in [Stream -> Seq(Frame)] /\ taken \in [Stream -> Seq(Frame)]
         /\ frameId \in Nat /\ NextId \in Nat
  BY DEF TypeOK, RendererTypeOK, BridgeTypeOK, StreamsTypeOK, NextId

(* Ids of frames are below NextId: a step that keeps or raises it and      *)
(* leaves the frames alone keeps them in line.                             *)
LEMMA LineStays ==
  ASSUME NEW d \in Seq(Frame), NEW t \in Seq(Frame), NEW c \in Seq(Frame),
         NEW p \in Seq(Frame), NEW q \in Seq(Frame), NEW n \in Nat, NEW m \in Nat, n <= m,
         InLine(d, t, c, p, q, n)
  PROVE  InLine(d, t, c, p, q, m)
  <1>1. Ids(d) \cup Ids(t) \cup Ids(c) \cup Ids(p) \cup Ids(q) \subseteq Nat
    BY IdsAreNat
  <1>2. Before(Ids(d) \cup Ids(t) \cup Ids(c) \cup Ids(p) \cup Ids(q), {m})
    BY <1>1 DEF InLine, Before
  <1> QED
    BY <1>2 DEF InLine

LEMMA RendererOrder ==
  ASSUME TypeOK, OrderInv,
         \/ \E size \in Size : Resize(size)
         \/ TryCapture \/ OnReadback \/ OnDestroy
  PROVE  OrderInv'
  <1>1. UNCHANGED <<delivered, taken, channel, pushing>>
    BY DEF Resize, TryCapture, OnReadback, OnDestroy, bridgeVars, streamVars
  <1>2. ApartInv'
    BY <1>1 DEF OrderInv, ApartInv
  <1>3. CASE UNCHANGED <<queue, frameId, inFlight>>
    BY <1>1, <1>2, <1>3 DEF OrderInv, LineInv, NextId
  <1>4. CASE TryCapture /\ texture' # NoTexture /\ ~inFlight
    <2>1. UNCHANGED queue /\ NextId' = NextId
      BY <1>4 DEF TryCapture, NextId
    <2> QED
      BY <1>1, <1>2, <2>1 DEF OrderInv, LineInv
  <1>5. CASE OnReadback
    <2>1. inFlight /\ NextId = frameId /\ NextId' = frameId + 1 /\ frameId \in Nat
      <3>1. readbacks \in Seq(Size) /\ readbacks # <<>> /\ Len(readbacks) = (IF inFlight THEN 1 ELSE 0)
        BY <1>5 DEF TypeOK, RendererTypeOK, OnReadback
      <3>2. inFlight
        BY <3>1, EmptySeq
      <3> QED
        BY <1>5, <3>2, OrderTypes DEF OnReadback, NextId
    <2>2. PICK n \in Nat : n = NextId /\ NextId' = n + 1 /\ n = frameId
      BY <2>1
    <2>3. CASE UNCHANGED queue
      <3>1. ASSUME NEW s \in Stream
            PROVE  InLine(delivered[s], taken[s], channel, pushing, queue, n + 1)
        <4>1. InLine(delivered[s], taken[s], channel, pushing, queue, n)
          BY <2>2 DEF OrderInv, LineInv
        <4>2. n + 1 \in Nat /\ n <= n + 1
          OBVIOUS
        <4> QED
          BY <4>1, <4>2, LineStays, OrderTypes
      <3> QED
        BY <1>1, <1>2, <2>2, <2>3, <3>1 DEF OrderInv, LineInv
    <2>4. CASE queue' = Append(queue, FrameRead) /\ texture # NoTexture
      <3>1. FrameRead \in Frame /\ FrameRead.id = n
        <4>1. /\ readbacks \in Seq(Size) /\ readbacks # <<>>
              /\ texture \in Size /\ Head(readbacks) \in Size
          BY <1>5, <2>4 DEF TypeOK, RendererTypeOK, OnReadback
        <4> QED
          BY <2>1, <2>2, <4>1 DEF FrameRead, Frame
      <3>2. ASSUME NEW s \in Stream
            PROVE  InLine(delivered[s], taken[s], channel, pushing, queue', n + 1)
        <4>1. InLine(delivered[s], taken[s], channel, pushing, queue, n)
          BY <2>2 DEF OrderInv, LineInv
        <4>2. Ids(delivered[s]) \cup Ids(taken[s]) \cup Ids(channel) \cup Ids(pushing) \subseteq Nat
          BY IdsAreNat, OrderTypes
        <4>3. InLine(delivered[s], taken[s], channel, pushing, Append(queue, FrameRead), n + 1)
          BY <3>1, <4>1, <4>2, LineSends, OrderTypes
        <4> QED
          BY <2>4, <4>3
      <3> QED
        BY <1>1, <1>2, <2>2, <3>2 DEF OrderInv, LineInv
    <2> QED
      BY <1>5, <2>3, <2>4 DEF OnReadback, Send
  <1> QED
    BY <1>3, <1>4, <1>5 DEF Resize, TryCapture, OnDestroy

LEMMA BridgeOrder ==
  ASSUME TypeOK, OrderInv, OnFrameReceived \/ Push \/ DisposeReceiver \/ DisposeBridge
  PROVE  OrderInv'
  <1>1. UNCHANGED <<delivered, taken>> /\ NextId' = NextId
    BY DEF OnFrameReceived, Push, DisposeReceiver, DisposeBridge, rendererVars, streamVars, NextId
  <1>2. CASE DisposeReceiver \/ DisposeBridge
    <2>1. UNCHANGED <<queue, channel, pushing>>
      BY <1>2 DEF DisposeReceiver, DisposeBridge
    <2> QED
      BY <1>1, <2>1 DEF OrderInv, LineInv, ApartInv
  <1>3. CASE OnFrameReceived
    <2>1. /\ queue # <<>> /\ pushing = <<>> /\ queue' = Tail(queue)
          /\ pushing' \in {<<>>, <<Head(queue)>>} /\ channel' = channel
      BY <1>3 DEF OnFrameReceived
    <2>2. ASSUME NEW s \in Stream
          PROVE  InLine(delivered[s], taken[s], channel, pushing', Tail(queue), NextId)
      <3>1. InLine(delivered[s], taken[s], channel, <<>>, queue, NextId)
        BY <2>1 DEF OrderInv, LineInv
      <3>2. queue \in Seq(Frame) /\ queue # <<>>
        BY <2>1, OrderTypes
      <3>3. /\ InLine(delivered[s], taken[s], channel, <<Head(queue)>>, Tail(queue), NextId)
            /\ InLine(delivered[s], taken[s], channel, <<>>, Tail(queue), NextId)
        BY <3>1, <3>2, LineReceives
      <3> QED
        BY <2>1, <3>3
    <2>3. LineInv'
      BY <1>1, <2>1, <2>2 DEF LineInv
    <2> QED
      BY <1>1, <2>1, <2>3 DEF OrderInv, ApartInv
  <1>4. CASE Push
    <2>1. pushing' = <<>> /\ queue' = queue /\ channel' \in {channel, pushing}
      BY <1>4 DEF Push
    <2>2. ASSUME NEW s \in Stream
          PROVE  InLine(delivered[s], taken[s], channel', <<>>, queue, NextId)
      <3>1. InLine(delivered[s], taken[s], channel, pushing, queue, NextId)
        BY DEF OrderInv, LineInv
      <3> QED
        BY <2>1, <3>1, LinePushes
    <2>3. LineInv'
      BY <1>1, <2>1, <2>2 DEF LineInv
    <2>4. ASSUME NEW s \in Stream, NEW t \in Stream, s # t
          PROVE  (Ids(delivered[s]) \cup Ids(taken[s]))
                 \cap (Ids(delivered[t]) \cup Ids(taken[t]) \cup Ids(channel')) = {}
      <3>1. (Ids(delivered[s]) \cup Ids(taken[s]))
            \cap (Ids(delivered[t]) \cup Ids(taken[t]) \cup Ids(channel)) = {}
        BY <2>4 DEF OrderInv, ApartInv
      <3>2. (Ids(delivered[s]) \cup Ids(taken[s])) \cap Ids(pushing) = {}
        <4>1. Ids(delivered[s]) \cup Ids(taken[s]) \subseteq Nat
          BY OrderTypes, IdsAreNat
        <4>2. Before(Ids(delivered[s]) \cup Ids(taken[s]), Ids(pushing))
          BY DEF OrderInv, LineInv, InLine, Before
        <4> QED
          BY <4>1, <4>2 DEF Before
      <3> QED
        BY <2>1, <3>1, <3>2
    <2>5. ApartInv'
      BY <1>1, <2>4 DEF ApartInv
    <2> QED
      BY <2>3, <2>5 DEF OrderInv
  <1> QED
    BY <1>2, <1>3, <1>4

LEMMA StreamOrder ==
  ASSUME TypeOK, OrderInv, NEW s \in Stream,
         StreamFrames(s) \/ CaptureAsync(s) \/ WriteAsync(s) \/ Cancel(s)
  PROVE  OrderInv'
  <1>1. UNCHANGED <<queue, pushing>> /\ NextId' = NextId
    <2>1. UNCHANGED <<queue, pushing, inFlight, frameId>>
      BY DEF StreamFrames, CaptureAsync, WriteAsync, Cancel, rendererVars, bridgeVars
    <2> QED
      BY <2>1 DEF NextId
  <1>2. CASE UNCHANGED <<delivered, taken, channel>>
    BY <1>1, <1>2 DEF OrderInv, LineInv, ApartInv
  <1>3. CASE CaptureAsync(s) /\ channel # <<>>
    <2>1. /\ taken' = [taken EXCEPT ![s] = channel] /\ channel' = <<>> /\ delivered' = delivered
          /\ stream[s] = "reading"
      BY <1>3 DEF CaptureAsync
    <2>2. taken[s] = <<>>
      BY <2>1, NothingTaken DEF TypeOK
    <2>3. taken'[s] = channel /\ \A t \in Stream \ {s} : taken'[t] = taken[t]
      BY <2>1, OrderTypes
    <2>4. ASSUME NEW t \in Stream
          PROVE  InLine(delivered[t], taken'[t], <<>>, pushing, queue, NextId)
      <3>1. InLine(delivered[t], taken[t], channel, pushing, queue, NextId)
        BY DEF OrderInv, LineInv
      <3>2. CASE t = s
        BY <2>2, <2>3, <3>1, <3>2, LineTakes
      <3>3. CASE t # s
        BY <2>3, <3>1, <3>3, LineLoses
      <3> QED
        BY <3>2, <3>3
    <2>5. LineInv'
      BY <1>1, <2>1, <2>4 DEF LineInv
    <2>6. ASSUME NEW t \in Stream, NEW u \in Stream, t # u
          PROVE  (Ids(delivered[t]) \cup Ids(taken'[t]))
                 \cap (Ids(delivered[u]) \cup Ids(taken'[u]) \cup Ids(<<>>)) = {}
      <3>1. /\ (Ids(delivered[t]) \cup Ids(taken[t]))
               \cap (Ids(delivered[u]) \cup Ids(taken[u]) \cup Ids(channel)) = {}
            /\ (Ids(delivered[u]) \cup Ids(taken[u]))
               \cap (Ids(delivered[t]) \cup Ids(taken[t]) \cup Ids(channel)) = {}
        BY <2>6 DEF OrderInv, ApartInv
      <3>2. CASE t = s
        <4>1. taken'[t] = channel /\ taken'[u] = taken[u] /\ Ids(taken[t]) = {} /\ Ids(<<>>) = {}
          BY <2>2, <2>3, <2>6, <3>2, IdsOfNone
        <4> QED
          BY <3>1, <4>1
      <3>3. CASE u = s
        <4>1. taken'[u] = channel /\ taken'[t] = taken[t] /\ Ids(taken[u]) = {} /\ Ids(<<>>) = {}
          BY <2>2, <2>3, <2>6, <3>3, IdsOfNone
        <4> QED
          BY <3>1, <4>1
      <3>4. CASE t # s /\ u # s
        BY <2>3, <3>1, <3>4, IdsOfNone
      <3> QED
        BY <3>2, <3>3, <3>4
    <2>7. ApartInv'
      BY <2>1, <2>6 DEF ApartInv
    <2> QED
      BY <2>5, <2>7 DEF OrderInv
  <1>4. CASE WriteAsync(s) \/ Cancel(s)
    <2>1. /\ taken' = [taken EXCEPT ![s] = <<>>] /\ channel' = channel
          /\ \/ delivered' = delivered
             \/ delivered' = [delivered EXCEPT ![s] = @ \o taken[s]]
      BY <1>4 DEF WriteAsync, Cancel, bridgeVars
    <2>2. /\ taken'[s] = <<>> /\ delivered'[s] \in {delivered[s], delivered[s] \o taken[s]}
          /\ \A t \in Stream \ {s} : taken'[t] = taken[t] /\ delivered'[t] = delivered[t]
      BY <2>1, OrderTypes
    <2>3. Ids(delivered[s] \o taken[s]) = Ids(delivered[s]) \cup Ids(taken[s])
      BY OrderTypes, IdsConcat
    <2>4. ASSUME NEW t \in Stream
          PROVE  InLine(delivered'[t], taken'[t], channel, pushing, queue, NextId)
      <3>1. InLine(delivered[t], taken[t], channel, pushing, queue, NextId)
        BY DEF OrderInv, LineInv
      <3>2. CASE t # s
        BY <2>2, <3>1, <3>2
      <3>3. CASE t = s
        <4>1. InLine(delivered[s], <<>>, channel, pushing, queue, NextId)
          BY <3>1, <3>3, LineLoses
        <4>2. InLine(delivered[s] \o taken[s], <<>>, channel, pushing, queue, NextId)
          BY <3>1, <3>3, LineWrites, OrderTypes
        <4> QED
          BY <2>2, <3>3, <4>1, <4>2
      <3> QED
        BY <3>2, <3>3
    <2>5. LineInv'
      BY <1>1, <2>1, <2>4 DEF LineInv
    <2>6. ASSUME NEW t \in Stream
          PROVE  Ids(delivered'[t]) \cup Ids(taken'[t]) \subseteq Ids(delivered[t]) \cup Ids(taken[t])
      <3>1. CASE t # s
        BY <2>2, <3>1
      <3>2. CASE t = s
        BY <2>2, <2>3, <3>2, IdsOfNone
      <3> QED
        BY <3>1, <3>2
    <2>7. ASSUME NEW t \in Stream, NEW u \in Stream, t # u
          PROVE  (Ids(delivered'[t]) \cup Ids(taken'[t]))
                 \cap (Ids(delivered'[u]) \cup Ids(taken'[u]) \cup Ids(channel)) = {}
      <3>1. (Ids(delivered[t]) \cup Ids(taken[t]))
            \cap (Ids(delivered[u]) \cup Ids(taken[u]) \cup Ids(channel)) = {}
        BY <2>7 DEF OrderInv, ApartInv
      <3> QED
        BY <2>6, <3>1
    <2>8. ApartInv'
      BY <2>1, <2>7 DEF ApartInv
    <2> QED
      BY <2>5, <2>8 DEF OrderInv
  <1>5. CASE StreamFrames(s) \/ (CaptureAsync(s) /\ channel = <<>>)
    BY <1>2, <1>5 DEF StreamFrames, CaptureAsync, bridgeVars
  <1> QED
    BY <1>3, <1>4, <1>5

(* A stream's whole line, from what it has written to the queue. *)
LEMMA LineIsPipeline ==
  ASSUME TypeOK, OrderInv, NEW s \in Stream
  PROVE  /\ Pipeline(s) \in Seq(Frame) /\ Rising(Pipeline(s))
         /\ Before(Ids(Pipeline(s)), {NextId})
  <1>1. InLine(delivered[s], taken[s], channel, pushing, queue, NextId)
    BY DEF OrderInv, LineInv
  <1>2. /\ delivered[s] \in Seq(Frame) /\ taken[s] \in Seq(Frame)
        /\ channel \in Seq(Frame) /\ pushing \in Seq(Frame) /\ queue \in Seq(Frame)
    BY OrderTypes
  <1>3. /\ delivered[s] \o taken[s] \in Seq(Frame) /\ Rising(delivered[s] \o taken[s])
        /\ Ids(delivered[s] \o taken[s]) = Ids(delivered[s]) \cup Ids(taken[s])
    BY <1>1, <1>2, IdsConcat, RisingConcat DEF InLine, Before
  <1> DEFINE two == delivered[s] \o taken[s]
             three == two \o channel
             four == three \o pushing
  <1>4. two \in Seq(Frame) /\ Rising(two) /\ Ids(two) = Ids(delivered[s]) \cup Ids(taken[s])
    BY <1>3
  <1> HIDE DEF two
  <1>5. three \in Seq(Frame) /\ Rising(three) /\ Ids(three) = Ids(two) \cup Ids(channel)
    <2>1. Before(Ids(two), Ids(channel)) /\ Rising(channel)
      BY <1>1, <1>4 DEF InLine, Before
    <2> QED
      BY <1>2, <1>4, <2>1, JoinsInOrder
  <1> HIDE DEF three
  <1>6. four \in Seq(Frame) /\ Rising(four) /\ Ids(four) = Ids(three) \cup Ids(pushing)
    <2>1. Before(Ids(three), Ids(pushing)) /\ Rising(pushing)
      BY <1>1, <1>4, <1>5 DEF InLine, Before
    <2> QED
      BY <1>2, <1>5, <2>1, JoinsInOrder
  <1> HIDE DEF four
  <1>7. /\ four \o queue \in Seq(Frame) /\ Rising(four \o queue)
        /\ Ids(four \o queue) = Ids(four) \cup Ids(queue)
    <2>1. Before(Ids(four), Ids(queue)) /\ Rising(queue)
      BY <1>1, <1>4, <1>5, <1>6 DEF InLine, Before
    <2> QED
      BY <1>2, <1>6, <2>1, JoinsInOrder
  <1>8. Before(Ids(four \o queue), {NextId})
    BY <1>1, <1>4, <1>5, <1>6, <1>7 DEF InLine, Before
  <1>9. Pipeline(s) = four \o queue
    BY DEF Pipeline, two, three, four
  <1> QED
    BY <1>7, <1>8, <1>9

LEMMA OrderedOnceFollows == TypeOK /\ OrderInv => OrderedOnce
  <1> SUFFICES ASSUME TypeOK, OrderInv PROVE OrderedOnce
    OBVIOUS
  <1>1. InOrder
    <2> SUFFICES ASSUME NEW s \in Stream
                 PROVE  /\ Rising(Pipeline(s))
                        /\ \A i \in DOMAIN Pipeline(s) :
                             Pipeline(s)[i].id <= frameId /\ (inFlight => Pipeline(s)[i].id < frameId)
      BY DEF InOrder, Rising
    <2>1. /\ Pipeline(s) \in Seq(Frame) /\ Rising(Pipeline(s))
          /\ Before(Ids(Pipeline(s)), {NextId}) /\ frameId \in Nat
      BY LineIsPipeline, OrderTypes
    <2>2. ASSUME NEW i \in DOMAIN Pipeline(s)
          PROVE  Pipeline(s)[i].id <= frameId /\ (inFlight => Pipeline(s)[i].id < frameId)
      <3>1. Pipeline(s)[i].id \in Ids(Pipeline(s)) /\ Pipeline(s)[i].id \in Nat
        BY <2>1, IdsAreNat DEF Ids
      <3>2. Pipeline(s)[i].id < NextId
        BY <2>1, <3>1 DEF Before
      <3> QED
        BY <2>1, <3>1, <3>2 DEF NextId
    <2> QED
      BY <2>1, <2>2
  <1>2. SharedOnce
    <2> SUFFICES ASSUME NEW s \in Stream, NEW t \in Stream, s # t
                 PROVE  Ids(delivered[s] \o taken[s])
                        \cap Ids(delivered[t] \o taken[t] \o channel) = {}
      BY DEF SharedOnce
    <2>1. /\ delivered[s] \in Seq(Frame) /\ taken[s] \in Seq(Frame) /\ channel \in Seq(Frame)
          /\ delivered[t] \in Seq(Frame) /\ taken[t] \in Seq(Frame)
          /\ delivered[t] \o taken[t] \in Seq(Frame)
      BY OrderTypes
    <2>2. Ids(delivered[s] \o taken[s]) = Ids(delivered[s]) \cup Ids(taken[s])
      BY <2>1, IdsConcat
    <2>3. Ids(delivered[t] \o taken[t] \o channel)
            = Ids(delivered[t]) \cup Ids(taken[t]) \cup Ids(channel)
      BY <2>1, IdsConcat
    <2> QED
      BY <2>2, <2>3 DEF OrderInv, ApartInv
  <1> QED
    BY <1>1, <1>2 DEF OrderedOnce

(* Each stream writes frames in the order of their readbacks, none twice,  *)
(* and no frame that another stream got: through both processes, any       *)
(* number of streams on the one channel, drops, resizes and the shutdown.  *)
THEOREM FramesInOrder == Spec => []OrderedOnce
  <1>1. Init => OrderInv
    <2> SUFFICES ASSUME Init PROVE OrderInv
      OBVIOUS
    <2>1. /\ queue = <<>> /\ channel = <<>> /\ pushing = <<>>
          /\ \A s \in Stream : delivered[s] = <<>> /\ taken[s] = <<>>
      BY DEF Init
    <2>2. LineInv
      BY <2>1, IdsOfNone DEF LineInv, InLine, Before
    <2> QED
      BY <2>1, <2>2, IdsOfNone DEF OrderInv, ApartInv
  <1>2. TypeOK /\ OrderInv /\ [Next]_vars => OrderInv'
    <2>1. UNCHANGED vars /\ OrderInv => OrderInv'
      BY DEF vars, rendererVars, bridgeVars, streamVars,
             OrderInv, LineInv, ApartInv, NextId
    <2> QED
      BY <2>1, RendererOrder, BridgeOrder, StreamOrder DEF Next
  <1>3. TypeOK /\ OrderInv => OrderedOnce
    BY OrderedOnceFollows
  <1> QED
    BY <1>1, <1>2, <1>3, CameraTypeCorrect, PTL DEF Spec
=============================================================================
