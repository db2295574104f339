------------------------------- MODULE Camera -------------------------------
(***************************************************************************)
(* The camera pipeline.  In the renderer process FrameCapture reads the    *)
(* screen back from the GPU, one request at a time, and FrameSender puts   *)
(* header and pixels on a shared-memory queue.  In the engine process      *)
(* RendererFrameInterprocessReceiver checks what arrives and pushes it     *)
(* into the channel of PushedFrameCameraBridge, which keeps the latest     *)
(* frame only; every StreamFrames call of CameraService reads from that    *)
(* one channel.                                                            *)
(*                                                                         *)
(* The window may be resized at any moment, also while a readback is in    *)
(* flight.  Of a frame the model keeps its id, the size its header states  *)
(* and the size at which its pixels were read; a size is in pixels, of     *)
(* four bytes each.  Pacing by fps_limit is left out.                      *)
(***************************************************************************)
EXTENDS Naturals, Sequences

CONSTANTS
  Size,           \* window sizes: records of width and height
  NoTexture,      \* no capture texture
  Stream,         \* the StreamFrames calls of a run
  QueueCapacity,  \* frames that fit the shared-memory queue
  MaxFrames,      \* bound on the readbacks requested in a run
  MaxResizes      \* bound on the changes of window size in a run

ASSUME CameraAssumption ==
  /\ \A s \in Size : s.width \in Nat /\ s.height \in Nat
  /\ NoTexture \notin Size
  /\ QueueCapacity \in Nat /\ MaxFrames \in Nat /\ MaxResizes \in Nat

VARIABLES
  \* the renderer
  window,     \* size of the camera that draws the screen
  resizes,    \* changes of it so far
  torn,       \* history: the frames during whose readback it changed
  texture,    \* size of _captureRT
  readbacks,  \* sizes of the textures being read back, oldest first
  inFlight,   \* _inFlight
  frameId,    \* _frameId
  rendererUp, \* OnDestroy has not run
  queue,      \* the shared-memory queue
  \* the engine
  receiving,  \* the receiver is not disposed
  pushing,    \* the frame its callback is about to push, as a sequence
  channel,    \* the bridge's bounded channel
  completed,  \* its writer is completed: the bridge is disposed
  stream,     \* where each StreamFrames stands
  taken,      \* the frame each stream is writing, as a sequence
  delivered   \* the frames each stream has written

rendererVars == <<window, resizes, torn, texture, readbacks, inFlight, frameId, rendererUp>>
bridgeVars   == <<receiving, pushing, channel, completed>>
streamVars   == <<stream, taken, delivered>>
vars == <<rendererVars, queue, bridgeVars, streamVars>>

Frame == [id : Nat, header : Size, pixels : Size]

RendererTypeOK ==
  /\ window \in Size /\ resizes \in 0..MaxResizes
  /\ torn \subseteq 0..MaxFrames
  /\ texture \in Size \cup {NoTexture}
  /\ readbacks \in Seq(Size) /\ Len(readbacks) = (IF inFlight THEN 1 ELSE 0)
  /\ inFlight \in BOOLEAN
  /\ frameId \in 0..MaxFrames
  /\ rendererUp \in BOOLEAN

BridgeTypeOK ==
  /\ queue \in Seq(Frame) /\ Len(queue) <= QueueCapacity
  /\ receiving \in BOOLEAN /\ completed \in BOOLEAN
  /\ pushing \in Seq(Frame) /\ Len(pushing) <= 1
  /\ channel \in Seq(Frame) /\ Len(channel) <= 1

StreamsTypeOK ==
  /\ stream \in [Stream -> {"idle", "reading", "writing", "cancelled", "not_ready"}]
  /\ taken \in [Stream -> Seq(Frame)]
  /\ \A s \in Stream : Len(taken[s]) = (IF stream[s] = "writing" THEN 1 ELSE 0)
  /\ delivered \in [Stream -> Seq(Frame)]

TypeOK == RendererTypeOK /\ BridgeTypeOK /\ StreamsTypeOK

Init ==
  /\ window \in Size /\ resizes = 0 /\ torn = {}
  /\ texture = NoTexture
  /\ readbacks = <<>>
  /\ inFlight = FALSE
  /\ frameId = 0
  /\ rendererUp = TRUE
  /\ queue = <<>>
  /\ receiving = TRUE /\ completed = FALSE
  /\ pushing = <<>> /\ channel = <<>>
  /\ stream = [s \in Stream |-> "idle"]
  /\ taken = [s \in Stream |-> <<>>]
  /\ delivered = [s \in Stream |-> <<>>]

-----------------------------------------------------------------------------
(* The renderer: all of it on Unity's main thread.                         *)

Resize(size) ==
  /\ resizes < MaxResizes
  /\ size # window
  /\ window' = size
  /\ resizes' = resizes + 1
  /\ torn' = IF inFlight THEN torn \cup {frameId} ELSE torn
  /\ UNCHANGED <<texture, readbacks, inFlight, frameId, rendererUp, queue, bridgeVars, streamVars>>

(* EnsureCommandBufferAttached: a texture of another size than the window  *)
(* or of a camera that is gone is released and made anew; there may be no  *)
(* camera to attach to, and making the texture may fail.                   *)
Attach == texture' \in {window, NoTexture}

(* Mutant: a readback in flight does not keep the next one back.           *)
TryCaptureBusy ==
  /\ rendererUp
  /\ Attach
  /\ IF texture' = NoTexture
     THEN UNCHANGED <<readbacks, inFlight, frameId>>
     ELSE /\ frameId < MaxFrames
          /\ frameId' = frameId + 1
          /\ inFlight' = TRUE
          /\ readbacks' = Append(readbacks, texture')
  /\ UNCHANGED <<window, resizes, torn, rendererUp, queue, bridgeVars, streamVars>>

(* Mutant: the readback is requested before the texture is brought up to   *)
(* the window's size.                                                      *)
TryCaptureFirst ==
  /\ rendererUp
  /\ Attach
  /\ IF texture = NoTexture \/ inFlight
     THEN UNCHANGED <<readbacks, inFlight, frameId>>
     ELSE /\ frameId < MaxFrames
          /\ frameId' = frameId + 1
          /\ inFlight' = TRUE
          /\ readbacks' = Append(readbacks, texture)
  /\ UNCHANGED <<window, resizes, torn, rendererUp, queue, bridgeVars, streamVars>>

(* Each Update: an id is spent on every readback that is requested.        *)
TryCapture ==
  /\ rendererUp
  /\ Attach
  /\ IF texture' = NoTexture \/ inFlight
     THEN UNCHANGED <<readbacks, inFlight, frameId>>
     ELSE /\ frameId < MaxFrames
          /\ frameId' = frameId + 1
          /\ inFlight' = TRUE
          /\ readbacks' = Append(readbacks, texture')
  /\ UNCHANGED <<window, resizes, torn, rendererUp, queue, bridgeVars, streamVars>>

(* The header states the size of the texture of now, and not that of the   *)
(* texture the pixels were read from.                                      *)
FrameRead == [id |-> frameId, header |-> texture, pixels |-> Head(readbacks)]

(* FrameSender.Send: a full queue, or one that cannot be reached, makes    *)
(* the messenger throw, and the frame is gone.                             *)
Send(frame) ==
  \/ Len(queue) < QueueCapacity /\ queue' = Append(queue, frame)
  \/ UNCHANGED queue

(* Mutant: an error returns before the flag is lowered.                    *)
OnReadbackStuck ==
  /\ readbacks # <<>>
  /\ readbacks' = Tail(readbacks)
  /\ \/ UNCHANGED <<queue, inFlight>>
     \/ rendererUp /\ texture # NoTexture /\ Send(FrameRead) /\ inFlight' = FALSE
  /\ UNCHANGED <<window, resizes, torn, texture, frameId, rendererUp, bridgeVars, streamVars>>

(* The callback: nothing is sent after an error, after OnDestroy or while  *)
(* there is no texture; the flag is lowered whatever happens.              *)
OnReadback ==
  /\ readbacks # <<>>
  /\ readbacks' = Tail(readbacks)
  /\ inFlight' = FALSE
  /\ \/ UNCHANGED queue
     \/ rendererUp /\ texture # NoTexture /\ Send(FrameRead)
  /\ UNCHANGED <<window, resizes, torn, texture, frameId, rendererUp, bridgeVars, streamVars>>

OnDestroy ==
  /\ rendererUp
  /\ rendererUp' = FALSE
  /\ texture' = NoTexture
  /\ UNCHANGED <<window, resizes, torn, readbacks, inFlight, frameId, queue, bridgeVars, streamVars>>

-----------------------------------------------------------------------------
(* The engine: the messenger's thread, gRPC threads and the shutdown.      *)

Area(size) == size.width * size.height

(* TryParseFrame: as many bytes as the header's width and height ask for.  *)
TryParseFrame(frame) == Area(frame.header) = Area(frame.pixels)

(* One frame at a time; the rest of the callback is Push.                  *)
OnFrameReceived ==
  /\ receiving
  /\ queue # <<>> /\ pushing = <<>>
  /\ queue' = Tail(queue)
  /\ pushing' = IF TryParseFrame(Head(queue)) THEN <<Head(queue)>> ELSE <<>>
  /\ UNCHANGED <<rendererVars, receiving, channel, completed, streamVars>>

(* Push replaces the frame in the channel. It may come after DisposeBridge *)
(* if the receiver was disposed under it: then the frame is refused.       *)
Push ==
  /\ pushing # <<>>
  /\ pushing' = <<>>
  /\ channel' = IF completed THEN channel ELSE pushing
  /\ UNCHANGED <<rendererVars, queue, receiving, completed, streamVars>>

StreamFrames(s) ==
  /\ stream[s] = "idle"
  /\ stream' = [stream EXCEPT ![s] = "reading"]
  /\ UNCHANGED <<rendererVars, queue, bridgeVars, taken, delivered>>

(* Mutant: the latest frame stays for the next reader.                     *)
CaptureAsyncPeeking(s) ==
  /\ stream[s] = "reading"
  /\ \/ /\ channel # <<>>
        /\ stream' = [stream EXCEPT ![s] = "writing"]
        /\ taken' = [taken EXCEPT ![s] = channel]
     \/ /\ channel = <<>> /\ completed
        /\ stream' = [stream EXCEPT ![s] = "not_ready"]
        /\ UNCHANGED taken
  /\ UNCHANGED <<rendererVars, queue, bridgeVars, delivered>>

(* ReadAsync takes the frame; what a completed channel still holds is      *)
(* read before the reader learns that it is closed.                        *)
CaptureAsync(s) ==
  /\ stream[s] = "reading"
  /\ \/ /\ channel # <<>>
        /\ stream' = [stream EXCEPT ![s] = "writing"]
        /\ taken' = [taken EXCEPT ![s] = channel]
        /\ channel' = <<>>
     \/ /\ channel = <<>> /\ completed
        /\ stream' = [stream EXCEPT ![s] = "not_ready"]
        /\ UNCHANGED <<taken, channel>>
  /\ UNCHANGED <<rendererVars, queue, receiving, pushing, completed, delivered>>

(* WriteAsync returns once the client's window has room, then the loop     *)
(* goes on, after a delay if the client asked for one.                     *)
WriteAsync(s) ==
  /\ stream[s] = "writing"
  /\ stream' = [stream EXCEPT ![s] = "reading"]
  /\ delivered' = [delivered EXCEPT ![s] = @ \o taken[s]]
  /\ taken' = [taken EXCEPT ![s] = <<>>]
  /\ UNCHANGED <<rendererVars, queue, bridgeVars>>

(* The client cancels, or is gone as a frame is written, which is lost.    *)
Cancel(s) ==
  /\ stream[s] \in {"reading", "writing"}
  /\ stream' = [stream EXCEPT ![s] = "cancelled"]
  /\ taken' = [taken EXCEPT ![s] = <<>>]
  /\ UNCHANGED <<rendererVars, queue, bridgeVars, delivered>>

(* SafeShutdown stops the receiver first and the bridge second. *)
DisposeReceiver ==
  /\ receiving
  /\ receiving' = FALSE
  /\ UNCHANGED <<rendererVars, queue, pushing, channel, completed, streamVars>>

DisposeBridge ==
  /\ ~receiving /\ ~completed
  /\ completed' = TRUE
  /\ UNCHANGED <<rendererVars, queue, receiving, pushing, channel, streamVars>>

-----------------------------------------------------------------------------
Next ==
  \/ \E size \in Size : Resize(size)
  \/ TryCapture \/ OnReadback \/ OnDestroy
  \/ OnFrameReceived \/ Push \/ DisposeReceiver \/ DisposeBridge
  \/ \E s \in Stream : StreamFrames(s) \/ CaptureAsync(s) \/ WriteAsync(s) \/ Cancel(s)

Spec == Init /\ [][Next]_vars

(* The GPU answers every request, and a thread that waits on the channel   *)
(* wakes up.  Clients may stop reading, and the shutdown may never come.   *)
FairSpec ==
  /\ Spec
  /\ WF_vars(OnReadback)
  /\ \A s \in Stream : WF_vars(CaptureAsync(s))

-----------------------------------------------------------------------------
(* Properties.                                                             *)

(* Frames on their way to stream s, the farthest first. *)
Pipeline(s) == delivered[s] \o taken[s] \o channel \o pushing \o queue

(* Nothing on the way overtakes or repeats anything: each stream writes    *)
(* frames in the order of their readbacks, through two processes, resizes, *)
(* drops at every stage, other streams that read the same channel, and the *)
(* shutdown.  The ids are those of the readbacks; a client is told numbers *)
(* that StreamFrames counts afresh.                                        *)
InOrder ==
  \A s \in Stream :
    /\ \A i, j \in DOMAIN Pipeline(s) : i < j => Pipeline(s)[i].id < Pipeline(s)[j].id
    /\ \A i \in DOMAIN Pipeline(s) :
         Pipeline(s)[i].id <= frameId /\ (inFlight => Pipeline(s)[i].id < frameId)

Ids(frames) == {frames[i].id : i \in DOMAIN frames}

(* Streams share the frames: what one reads no other gets, nor twice.      *)
SharedOnce ==
  \A s, t \in Stream :
    s # t => Ids(delivered[s] \o taken[s]) \cap Ids(delivered[t] \o taken[t] \o channel) = {}

OrderedOnce == InOrder /\ SharedOnce

(* A client reshapes the pixels to the size the header states.  That size  *)
(* is read from a texture that may have been replaced since the readback   *)
(* was requested: a frame states another size than its pixels have only if *)
(* the window was resized during its very readback, so that one frame at   *)
(* most is spoilt by a resize, and those that get through to a client      *)
(* still have the bytes they ask for.                                      *)
HeaderTrue(frame) ==
  \/ frame.header = frame.pixels
  \/ frame.id \in torn /\ Area(frame.header) = Area(frame.pixels)

HeadersTrue ==
  \A s \in Stream : \A i \in DOMAIN delivered[s] : HeaderTrue(delivered[s][i])

(* A readback does not keep the next ones back for ever, whether it        *)
(* succeeds, fails, or finds its texture or the renderer gone.             *)
ReadbackReleases == inFlight ~> ~inFlight

(* A stream that waits for a frame when the bridge is disposed ends.       *)
StreamsWake ==
  \A s \in Stream : completed /\ stream[s] = "reading" ~> stream[s] # "reading"

CaptureGoesOn == ReadbackReleases /\ StreamsWake
=============================================================================
