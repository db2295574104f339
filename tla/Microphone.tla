----------------------------- MODULE Microphone -----------------------------
(***************************************************************************)
(* The Microphone modality: Python clients that push audio chunks on a     *)
(* StreamAudio stream, MicrophoneService on the gRPC threads, and          *)
(* FrooxEngineMicrophoneBridge with its virtual AudioInput, whose ring     *)
(* buffer the ticks of the shared Repeater drain into the engine.          *)
(*                                                                         *)
(* A sample is the number it got when it was appended; _buffer is kept     *)
(* slot by slot, since its index arithmetic is the point.  Its lock is not *)
(* the lock of the repeater, so a frame is appended in one step and the    *)
(* repeater looked at in another.                                          *)
(***************************************************************************)
EXTENDS Repeater, Sequences, FiniteSetsExt

CONSTANTS RingBufferCapacity,
          MaxTickSamples,       \* samples a tick takes at most
          FrameSize,            \* sizes of the chunks clients send
          MaxFrames             \* bound on the chunks sent in a run

ASSUME MicrophoneAssumption ==
  /\ RingBufferCapacity \in Nat \ {0}
  /\ MaxTickSamples \in Nat \ {0}
  /\ FrameSize \subseteq Nat
  /\ \E largest \in FrameSize : \A n \in FrameSize : n <= largest
  /\ MaxFrames \in Nat

Stream == Caller
Slot   == 0..(RingBufferCapacity - 1)

VARIABLES
  stream,         \* state of each StreamAudio stream
  wire,           \* chunk sizes a client has sent and the service not yet read
  submitting,     \* the chunk a thread has in SubmitFrame: its size and step
  sent,           \* chunks sent so far
  registered,     \* _audioInput is not null
  inputs,         \* AudioSystem.AudioInputs: the user's, the bridge's, another mod's
  override,       \* AudioSystem.OverrideAudioInputIndex, counted from 1; 0 is null
  assigned,       \* _assignedOverrideIndex
  undoing,        \* what Dispose undoes next: "override", "device", "nothing"
  chosen,         \* history: the input the override was last set for
  buffer,         \* _buffer
  readIndex, writeIndex, count,
  droppedSamples, \* _droppedSamples
  tick,           \* the TickStep in progress: what it took, or NoTick
  appended,       \* history: samples appended
  written,        \* history: samples written into the engine
  cleared,        \* history: samples a Reset discarded
  lastWritten     \* history: the last sample written

clientVars  == <<stream, wire, sent>>
deviceVars  == <<registered, inputs, override, assigned, undoing, chosen>>
ringVars    == <<buffer, readIndex, writeIndex, count, droppedSamples, appended, cleared>>
outputVars  == <<written, lastWritten>>
vars == <<worldVars, repeaterVars, clientVars, submitting, deviceVars, ringVars, tick, outputVars>>

NoTick  == [bound |-> NoWorld, taken |-> <<>>]
NoFrame == [at |-> "none", size |-> 0]

TypeOK ==
  /\ RepeaterTypeOK
  /\ stream \in [Stream -> {"open", "completing", "broken", "ended"}]
  /\ wire \in [Stream -> Seq(FrameSize)]
  /\ sent \in 0..MaxFrames
  /\ submitting \in [Stream -> [at : {"none", "append", "request"}, size : FrameSize \cup {0}]]
  /\ registered \in BOOLEAN
  /\ inputs \in Seq({"physical", "own", "other"})
  /\ {override, assigned} \subseteq Nat
  /\ undoing \in {"override", "device", "nothing"}
  /\ chosen \in {"none", "physical", "own", "other", "left"}
  /\ buffer \in [Slot -> Nat]
  /\ readIndex \in Slot /\ writeIndex \in Slot /\ count \in 0..RingBufferCapacity
  /\ {droppedSamples, appended, written, cleared, lastWritten} \subseteq Nat
  /\ tick.bound \in WorldRef /\ tick.taken \in Seq(Nat)

(* Without an AudioSystem, or when it refuses the device, the constructor  *)
(* stops before it looks at any world.                                     *)
Unregistered ==
  /\ \E w \in WorldRef : WorldsInit(w)
  /\ disposal = "no"
  /\ cachedWorld = NoWorld /\ repeaterWorld = NoWorld /\ running = FALSE
  /\ queued = [v \in World |-> 0]
  /\ starting = [t \in Thread |-> Idle]

(* The constructor adds its device to the user's and has the override      *)
(* point at it; setting it may fail.                                       *)
Init ==
  /\ \/ /\ registered = TRUE /\ RepeaterInit
        /\ inputs = <<"physical", "own">>
        /\ \/ override = 2 /\ chosen = "own"
           \/ override = 0 /\ chosen = "none"
     \/ /\ registered = FALSE /\ Unregistered
        /\ inputs = <<"physical">>
        /\ override = 0 /\ chosen = "none"
  /\ assigned = override
  /\ undoing = "override"
  /\ stream = [s \in Stream |-> "open"]
  /\ wire = [s \in Stream |-> <<>>]
  /\ submitting = [s \in Stream |-> NoFrame]
  /\ sent = 0
  /\ buffer = [i \in Slot |-> 0]
  /\ readIndex = 0 /\ writeIndex = 0 /\ count = 0
  /\ droppedSamples = 0 /\ appended = 0 /\ written = 0 /\ cleared = 0 /\ lastWritten = 0
  /\ tick = NoTick

-----------------------------------------------------------------------------
(* ResoniteIOAudioInput, under its own lock.                               *)

Ring == <<readIndex, writeIndex, count>>

(* Mutant: the chunk is cut at its end, so its oldest samples are kept.    *)
OverwriteOldest(n) ==
  /\ buffer' = [i \in Slot |-> appended + i + 1]
  /\ readIndex' = 0 /\ writeIndex' = 0 /\ count' = RingBufferCapacity
  /\ droppedSamples' = droppedSamples + count + (n - RingBufferCapacity)

(* A chunk as large as the whole buffer replaces it; a smaller one pushes  *)
(* out the oldest samples it has no room for and goes in around the end.   *)
Overwrite(n) ==
  /\ buffer' = [i \in Slot |-> appended + (n - RingBufferCapacity) + i + 1]
  /\ readIndex' = 0 /\ writeIndex' = 0 /\ count' = RingBufferCapacity
  /\ droppedSamples' = droppedSamples + count + (n - RingBufferCapacity)

(* Mutant: an overflow does not move the reader past the samples it lost.   *)
InsertUnmoved(n, overflow) ==
  /\ buffer' = [i \in Slot |->
       LET k == (i + RingBufferCapacity - writeIndex) % RingBufferCapacity
       IN IF k < n THEN appended + k + 1 ELSE buffer[i]]
  /\ UNCHANGED readIndex
  /\ writeIndex' = (writeIndex + n) % RingBufferCapacity
  /\ count' = count - overflow + n
  /\ droppedSamples' = droppedSamples + overflow

Insert(n, overflow) ==
  /\ buffer' = [i \in Slot |->
       LET k == (i + RingBufferCapacity - writeIndex) % RingBufferCapacity
       IN IF k < n THEN appended + k + 1 ELSE buffer[i]]
  /\ readIndex' = (readIndex + overflow) % RingBufferCapacity
  /\ writeIndex' = (writeIndex + n) % RingBufferCapacity
  /\ count' = count - overflow + n
  /\ droppedSamples' = droppedSamples + overflow

AppendSamples(n) ==
  /\ IF count + n <= RingBufferCapacity THEN Insert(n, 0)
     ELSE IF n >= RingBufferCapacity THEN Overwrite(n)
     ELSE Insert(n, count + n - RingBufferCapacity)
  /\ appended' = appended + n
  /\ UNCHANGED cleared

ResetRing ==
  /\ readIndex' = 0 /\ writeIndex' = 0 /\ count' = 0
  /\ cleared' = cleared + count
  /\ UNCHANGED <<buffer, droppedSamples, appended>>

Content == [i \in 1..count |-> buffer[(readIndex + i - 1) % RingBufferCapacity]]

(* The lock section of DrainAndWrite. *)
Drain(taken) ==
  /\ readIndex' = (readIndex + taken) % RingBufferCapacity
  /\ count' = count - taken
  /\ UNCHANGED <<buffer, writeIndex, droppedSamples, appended, cleared>>

-----------------------------------------------------------------------------
(* The client and the service.                                             *)

Send(s, n) ==
  /\ sent < MaxFrames
  /\ stream[s] = "open"
  /\ wire' = [wire EXCEPT ![s] = Append(@, n)]
  /\ sent' = sent + 1
  /\ UNCHANGED <<worldVars, repeaterVars, stream, submitting, deviceVars, ringVars, tick, outputVars>>

Exit(s) ==
  /\ stream[s] = "open"
  /\ stream' = [stream EXCEPT ![s] = "completing"]
  /\ UNCHANGED <<worldVars, repeaterVars, wire, sent, submitting, deviceVars, ringVars, tick, outputVars>>

Crash(s) ==
  /\ stream[s] \in {"open", "completing"}
  /\ stream' = [stream EXCEPT ![s] = "broken"]
  /\ UNCHANGED <<worldVars, repeaterVars, wire, sent, submitting, deviceVars, ringVars, tick, outputVars>>

Between(s) == submitting[s] = NoFrame /\ starting[s] = Idle

(* MoveNext returns a chunk, and SubmitFrame looks whether it has anything *)
(* to do with it.                                                          *)
ReceiveFrame(s) ==
  /\ stream[s] \in {"open", "completing", "broken"}
  /\ Between(s)
  /\ wire[s] # <<>>
  /\ wire' = [wire EXCEPT ![s] = Tail(@)]
  /\ submitting' = IF _disposed \/ ~registered \/ Head(wire[s]) = 0
                   THEN submitting
                   ELSE [submitting EXCEPT ![s] = [at |-> "append", size |-> Head(wire[s])]]
  /\ UNCHANGED <<worldVars, repeaterVars, stream, sent, deviceVars, ringVars, tick, outputVars>>

AppendFrame(s) ==
  /\ submitting[s].at = "append"
  /\ AppendSamples(submitting[s].size)
  /\ submitting' = [submitting EXCEPT ![s].at = "request"]
  /\ UNCHANGED <<worldVars, repeaterVars, clientVars, deviceVars, tick, outputVars>>

(* The lock section of SubmitFrame. *)
RequestTick(s) ==
  /\ submitting[s].at = "request"
  /\ submitting' = [submitting EXCEPT ![s] = NoFrame]
  /\ RequestStart(s)
  /\ UNCHANGED <<worldVars, disposal, cachedWorld, repeaterWorld, running, queued,
                 clientVars, deviceVars, ringVars, tick, outputVars>>

NotifyDisconnect(reason) ==
  IF _disposed \/ reason = "graceful" \/ ~registered THEN UNCHANGED ringVars ELSE ResetRing

(* How StreamAudio ends: see EndDrive of Locomotion. *)
EndStream(s, reason) ==
  /\ Between(s)
  /\ \/ reason = "graceful"  /\ stream[s] = "completing" /\ wire[s] = <<>>
     \/ reason = "cancelled" /\ stream[s] = "broken"
     \/ reason = "errored"   /\ stream[s] \in {"open", "completing"}
  /\ NotifyDisconnect(reason)
  /\ stream' = [stream EXCEPT ![s] = "ended"]
  /\ wire' = [wire EXCEPT ![s] = <<>>]
  /\ UNCHANGED <<worldVars, repeaterVars, sent, submitting, deviceVars, tick, outputVars>>

-----------------------------------------------------------------------------
(* TickStep.                                                               *)

StopTick(w) ==
  /\ tick = NoTick
  /\ TakeTick(w)
  /\ TickStops
  /\ Unbind
  /\ UNCHANGED <<worldVars, disposal, cachedWorld, starting, tick, clientVars, submitting,
                 deviceVars, ringVars, outputVars>>

BeginTick(w) ==
  /\ tick = NoTick
  /\ TakeTick(w)
  /\ ~TickStops
  /\ LET taken == IF count < MaxTickSamples THEN count ELSE MaxTickSamples IN
       /\ Drain(taken)
       /\ tick' = [bound |-> BoundWorld, taken |-> SubSeq(Content, 1, taken)]
  /\ UNCHANGED <<worldVars, disposal, cachedWorld, repeaterWorld, running, starting,
                 clientVars, submitting, deviceVars, outputVars>>

(* Mutant: a tick that took nothing does not reschedule itself.            *)
FinishTickUnscheduled ==
  /\ tick # NoTick
  /\ tick' = NoTick
  /\ written' = written + Len(tick.taken)
  /\ lastWritten' = IF tick.taken = <<>> THEN lastWritten ELSE tick.taken[Len(tick.taken)]
  /\ IF tick.taken = <<>> THEN KeepBound /\ UNCHANGED queued ELSE Reschedule(tick.bound)
  /\ UNCHANGED <<worldVars, disposal, cachedWorld, starting, clientVars, submitting,
                 deviceVars, ringVars>>

(* WriteSamples, outside the lock, and the reschedule. *)
FinishTick ==
  /\ tick # NoTick
  /\ tick' = NoTick
  /\ written' = written + Len(tick.taken)
  /\ lastWritten' = IF tick.taken = <<>> THEN lastWritten ELSE tick.taken[Len(tick.taken)]
  /\ Reschedule(tick.bound)
  /\ UNCHANGED <<worldVars, disposal, cachedWorld, starting, clientVars, submitting,
                 deviceVars, ringVars>>

-----------------------------------------------------------------------------
(* Dispose goes on where that of the repeater ends: it takes its override  *)
(* back, unless somebody else has set another one, and then the device.    *)
(* Either may throw, upon which the rest goes on.                          *)

RevertOverride ==
  /\ disposal = "done"
  /\ undoing = "override"
  /\ undoing' = "device"
  /\ IF assigned # 0 /\ override = assigned
     THEN \/ override' = 0 /\ chosen' = "none"
          \/ UNCHANGED override /\ chosen' = "left"
     ELSE UNCHANGED <<override, chosen>>
  /\ UNCHANGED <<worldVars, repeaterVars, clientVars, submitting, registered, inputs, assigned,
                 ringVars, tick, outputVars>>

(* List.Remove: what comes after the bridge's device moves up. *)
Remove ==
  \E p \in DOMAIN inputs :
    /\ inputs[p] = "own"
    /\ inputs' = SubSeq(inputs, 1, p - 1) \o SubSeq(inputs, p + 1, Len(inputs))

Listed == \E p \in DOMAIN inputs : inputs[p] = "own"

(* Mutant: the device goes before the override that points at it.          *)
RemoveDeviceFirst ==
  /\ disposal = "done"
  /\ Remove
  /\ ResetRing
  /\ UNCHANGED <<worldVars, repeaterVars, clientVars, submitting, registered, override, assigned,
                 undoing, chosen, tick, outputVars>>

RemoveDevice ==
  /\ disposal = "done"
  /\ undoing = "device"
  /\ undoing' = "nothing"
  /\ IF registered
     THEN \/ Remove /\ ResetRing
          \/ UNCHANGED <<inputs, ringVars>>
     ELSE UNCHANGED <<inputs, ringVars>>
  /\ UNCHANGED <<worldVars, repeaterVars, clientVars, submitting, registered, override, assigned,
                 chosen, tick, outputVars>>

(* The user's device, or one that another mod adds, becomes the default    *)
(* microphone instead of the bridge's.                                     *)
OtherOverride ==
  /\ chosen = "own"
  /\ \/ UNCHANGED inputs /\ override' = 1 /\ chosen' = "physical"
     \/ inputs' = Append(inputs, "other") /\ override' = Len(inputs) + 1 /\ chosen' = "other"
  /\ UNCHANGED <<worldVars, repeaterVars, clientVars, submitting, registered, assigned, undoing,
                 ringVars, tick, outputVars>>

Rest == <<clientVars, submitting, deviceVars, ringVars, tick, outputVars>>

Start(t)   == StartRepeater(t) /\ UNCHANGED Rest
Destroy(w) == DestroyWorld(w) /\ UNCHANGED Rest
Dispose    == (BeginDispose \/ ClearOnDispose) /\ UNCHANGED Rest

(* A bridge without a device has not subscribed to WorldFocused. *)
Refocus(w) ==
  /\ tick = NoTick
  /\ IF registered
     THEN FocusWorld(w)
     ELSE Focus(w) /\ UNCHANGED repeaterVars
  /\ UNCHANGED Rest

Next ==
  \/ \E s \in Stream, n \in FrameSize : Send(s, n)
  \/ \E s \in Stream : \/ Exit(s) \/ Crash(s)
                       \/ ReceiveFrame(s) \/ AppendFrame(s) \/ RequestTick(s)
  \/ \E s \in Stream, reason \in {"graceful", "cancelled", "errored"} : EndStream(s, reason)
  \/ \E t \in Thread : Start(t)
  \/ \E w \in World : StopTick(w) \/ BeginTick(w) \/ Destroy(w)
  \/ FinishTick
  \/ \E w \in WorldRef : Refocus(w)
  \/ Dispose \/ RevertOverride \/ RemoveDevice \/ OtherOverride

Spec == Init /\ [][Next]_vars

(* The engine updates its worlds, its threads go on, and a stream that has *)
(* been completed or broken comes to an end.                               *)
Fairness ==
  /\ \A t \in Thread : WF_vars(Start(t))
  /\ \A w \in World : WF_vars(StopTick(w) \/ BeginTick(w))
  /\ WF_vars(FinishTick)
  /\ \A s \in Stream :
       /\ WF_vars(ReceiveFrame(s)) /\ WF_vars(AppendFrame(s)) /\ WF_vars(RequestTick(s))
       /\ WF_vars(EndStream(s, "graceful")) /\ WF_vars(EndStream(s, "cancelled"))

FairSpec == Spec /\ Fairness

-----------------------------------------------------------------------------
(* Properties.                                                             *)

(* The override is an index and Dispose removes what it pointed at: no     *)
(* input takes the place of the one somebody chose for a microphone, and   *)
(* what somebody else chose stays chosen.  Two cases are exposed once the  *)
(* device is gone: its own override, if taking it back threw, and another  *)
(* mod's, if its device comes after the bridge's and so moves up by one.   *)
Exposed == ~Listed /\ chosen \in {"left", "other"}

OverrideKept ==
  /\ override # 0 /\ ~Exposed =>
       /\ override \in DOMAIN inputs
       /\ inputs[override] = IF chosen = "left" THEN "own" ELSE chosen
  /\ chosen \in {"physical", "other"} => override # 0

(* What is on its way into the engine: taken by the tick, then buffered.   *)
Pending == tick.taken \o Content

(* The engine hears samples in the order they were appended and each at    *)
(* most once, through every wrap-around, overflow and Reset of the ring,   *)
(* and however the chunks of concurrent streams and a tick that has let go *)
(* of the lock interleave.                                                 *)
InOrder ==
  \A i \in 1..Len(Pending) : Pending[i] > IF i = 1 THEN lastWritten ELSE Pending[i - 1]

(* Every appended sample is accounted for: written, on its way, counted by *)
(* DroppedSamples when the ring overflowed, or discarded by a Reset.       *)
Accounting ==
  appended = written + Len(Pending) + droppedSamples + cleared

SamplesKept == InOrder /\ Accounting

(* The ring buffer is a queue that drops its oldest samples, and holds the *)
(* newest ones there were room for.                                        *)
SampleQueue ==
  INSTANCE DropOldest WITH
    Capacity <- RingBufferCapacity,
    MaxOffer <- Max(FrameSize),
    queue    <- Content,
    offered  <- appended

ImplementsDropOldest == SampleQueue!Spec

(* Buffered samples leave the ring while the repeater that drains them is  *)
(* up and bound to an open world: it never idles with samples waiting.     *)
RepeaterAlive == running /\ repeaterWorld \in alive

SamplesDrain == count > 0 ~> count = 0 \/ ~RepeaterAlive
=============================================================================
