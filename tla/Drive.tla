-------------------------------- MODULE Drive --------------------------------
(***************************************************************************)
(* resoio drive: keys set the state that is held, the send loop of the same*)
(* event loop emits it whenever it has changed, and LocomotionClient passes*)
(* it on through a queue to the Drive stream.  The bridge, which holds what*)
(* it got last, is module Locomotion; here it is what the commands say.    *)
(***************************************************************************)
EXTENDS Naturals, Integers, Sequences, FiniteSets

CONSTANTS
  Axis,       \* move, look, sprint and crouch: what a key toggles
  OneWay,     \* those of them without an opposite: sprint, crouch
  MaxKeys     \* bound: keys that are pressed

ASSUME DriveAssumption == OneWay \subseteq Axis /\ MaxKeys \in Nat

MadeKey(kind, axis, sign) == [kind |-> kind, axis |-> axis, sign |-> sign]
SomeAxis == CHOOSE a \in Axis : TRUE

(* What _KeyParser makes of the bytes (an arrow is three of them).         *)
DriveKey ==
  {MadeKey("toggle", a, s) : a \in Axis \ OneWay, s \in {0 - 1, 1}}
  \cup {MadeKey("toggle", a, 1) : a \in OneWay}
  \cup {MadeKey(kind, SomeAxis, 1) : kind \in {"jump", "stop", "quit", "other"}}

VARIABLES
  drive,      \* the main task
  held,       \* _DriveState
  stream,     \* the Drive RPC of the client: its queue and its end
  avatar,     \* what the bridge holds
  pressed     \* keys that were pressed (bound), jumps asked for and sent

driveVars == <<drive, held, stream, avatar, pressed>>

Neutral == [axis |-> [a \in Axis |-> 0], jump |-> FALSE]
HeldStates == [axis : [Axis -> {0 - 1, 0, 1}], jump : BOOLEAN]

NotDriving == [at |-> "none", changed |-> FALSE, stopping |-> FALSE, cause |-> "none",
               status |-> "none", last |-> Neutral.axis]
NoStream == [open |-> FALSE, queue |-> <<>>, end |-> "none"]

DriveTypeOK ==
  /\ drive \in [at : {"none", "probe", "initial", "wait", "reset", "leave", "ended"},
                changed : BOOLEAN, stopping : BOOLEAN,
                cause : {"none", "quit", "failure", "interrupt"},
                status : {"none", "0", "1", "130"}, last : [Axis -> {0 - 1, 0, 1}]]
  /\ held \in HeldStates
  /\ stream.open \in BOOLEAN /\ stream.queue \in Seq(HeldStates)
  /\ Len(stream.queue) <= MaxKeys + 1
  /\ stream.end \in {"none", "graceful", "failed"}
  /\ avatar \in [Axis -> {0 - 1, 0, 1}]
  /\ pressed \in [keys : 0 .. MaxKeys, jumps : 0 .. MaxKeys, jumpsSent : Nat]

DriveInit ==
  /\ drive = NotDriving /\ held = Neutral /\ stream = NoStream /\ avatar = Neutral.axis
  /\ pressed = [keys |-> 0, jumps |-> 0, jumpsSent |-> 0]

-----------------------------------------------------------------------------
(* _apply_key                                                              *)

(* The opposite of a key that is held lets go; sprint and crouch switch.   *)
Toggled(h, key) ==
  [h EXCEPT !.axis[key.axis] = IF @ = 0 THEN key.sign ELSE 0]

Applied(h, key) ==
  CASE key.kind = "toggle" -> Toggled(h, key)
    [] key.kind = "jump"   -> [h EXCEPT !.jump = TRUE]
    [] key.kind = "stop"   -> Neutral
    [] OTHER -> h

Reading == drive.at \in {"initial", "wait", "reset", "leave"}

(* on_stdin, for one key; what follows a `q` in the same read is not read. *)
PressKey(key) ==
  /\ Reading /\ pressed.keys < MaxKeys
  /\ held' = Applied(held, key)
  /\ drive' = [drive EXCEPT !.changed = @ \/ key.kind # "other", !.stopping = @ \/ key.kind = "quit"]
  /\ pressed' = [pressed EXCEPT !.keys = @ + 1, !.jumps = IF key.kind = "jump" THEN @ + 1 ELSE @]
  /\ UNCHANGED <<stream, avatar>>

EndOfInput ==
  /\ Reading
  /\ drive' = [drive EXCEPT !.changed = TRUE, !.stopping = TRUE]
  /\ UNCHANGED <<held, stream, avatar, pressed>>

-----------------------------------------------------------------------------
(* _run_drive                                                              *)

RunDrive(no_wait) ==
  /\ drive.at = "none"
  /\ drive' = [drive EXCEPT !.at = IF no_wait THEN "initial" ELSE "probe"]
  /\ UNCHANGED <<held, stream, avatar, pressed>>

DriveEnds(status) == drive' = [drive EXCEPT !.at = "ended", !.status = status]

(* _wait_for_bridge_ready: a neutral command on a stream of its own.       *)
(* FAILED_PRECONDITION is tried again until the deadline.                  *)
ProbeBridge ==
  /\ drive.at = "probe"
  /\ \/ drive' = [drive EXCEPT !.at = "initial"]
     \/ DriveEnds("1")
  /\ UNCHANGED <<held, stream, avatar, pressed>>

(* Mutant: the jump stays pending.                                         *)
EmittedAgain(h) == h

(* emit with consume_jump.                                                 *)
Emitted(h) == [h EXCEPT !.jump = FALSE]

(* LocomotionClient.send: the first opens the stream, each enqueues.       *)
EmitState(d) ==
  /\ stream' = [stream EXCEPT !.open = TRUE,
                              !.queue = IF stream.end = "none" THEN Append(@, held) ELSE @]
  /\ held' = Emitted(held)
  /\ drive' = [d EXCEPT !.last = held.axis]
  /\ pressed' = [pressed EXCEPT !.jumpsSent = IF held.jump THEN @ + 1 ELSE @]
  /\ UNCHANGED avatar

(* The channel is opened, or that fails; then the state as it is.          *)
EmitInitial ==
  /\ drive.at = "initial"
  /\ \/ EmitState([drive EXCEPT !.at = IF drive.stopping THEN "reset" ELSE "wait"])
     \/ DriveEnds("1") /\ UNCHANGED <<held, stream, avatar, pressed>>

(* state_changed.clear() before the state is read.                         *)
Woken(d) == [d EXCEPT !.changed = FALSE]

EmitChange ==
  /\ drive.at = "wait" /\ drive.changed
  /\ \/ /\ drive.stopping
        /\ drive' = [Woken(drive) EXCEPT !.at = "reset", !.cause = "quit"]
        /\ UNCHANGED <<held, stream, avatar, pressed>>
     \/ ~drive.stopping /\ EmitState(Woken(drive))

(* client.reset(), a call beside the stream; a status is only printed.     *)
ResetAvatar ==
  /\ drive.at = "reset"
  /\ \/ avatar' = Neutral.axis /\ drive' = [drive EXCEPT !.at = "leave", !.cause = "quit"]
     \/ UNCHANGED avatar /\ drive' = [drive EXCEPT !.at = "leave", !.cause = "quit"]
     \/ UNCHANGED avatar /\ drive' = [drive EXCEPT !.at = "leave", !.cause = "failure"]
  /\ UNCHANGED <<held, stream, pressed>>

(* Ctrl-C cancels the main task, not the task of the stream.               *)
InterruptDrive ==
  /\ \/ drive.at = "probe" /\ DriveEnds("130") /\ UNCHANGED avatar
     \/ /\ drive.at \in {"initial", "wait", "reset"}
        /\ drive' = [drive EXCEPT !.at = "leave", !.cause = "interrupt"]
        /\ avatar' \in IF drive.at = "reset" THEN {avatar, Neutral.axis} ELSE {avatar}
  /\ UNCHANGED <<held, stream, pressed>>

-----------------------------------------------------------------------------
(* LocomotionClient                                                        *)

(* _queue_iter: the stream takes one command after the other.              *)
SendQueued ==
  /\ stream.queue # <<>> /\ stream.end = "none"
  /\ avatar' = Head(stream.queue).axis
  /\ stream' = [stream EXCEPT !.queue = Tail(@)]
  /\ UNCHANGED <<drive, held, pressed>>

(* The stream fails and the bridge resets; nobody notices yet.             *)
StreamFails ==
  /\ stream.open /\ stream.end = "none"
  /\ stream' = [stream EXCEPT !.end = "failed", !.queue = <<>>]
  /\ avatar' = Neutral.axis
  /\ UNCHANGED <<drive, held, pressed>>

(* The sentinel is behind all commands.                                    *)
Drained == stream.queue = <<>>

(* __aexit__: the stream ends gracefully, which the bridge leaves as it is,*)
(* or its failure is raised.                                               *)
LeaveClient ==
  /\ drive.at = "leave"
  /\ stream.open /\ stream.end = "none" => Drained
  /\ stream' = [stream EXCEPT !.end = IF stream.open /\ @ = "none" THEN "graceful" ELSE @]
  /\ DriveEnds(CASE drive.cause = "interrupt" -> IF stream.end = "failed" THEN "1" ELSE "130"
                 [] drive.cause = "failure" -> "1"
                 [] OTHER -> IF stream.end = "failed" THEN "1" ELSE "0")
  /\ UNCHANGED <<held, avatar, pressed>>

DriveProgress ==
  ProbeBridge \/ EmitInitial \/ EmitChange \/ ResetAvatar \/ LeaveClient

DriveNext ==
  \/ \E no_wait \in BOOLEAN : RunDrive(no_wait)
  \/ ProbeBridge \/ EmitInitial \/ EmitChange \/ ResetAvatar \/ LeaveClient
  \/ \E key \in DriveKey : PressKey(key)
  \/ EndOfInput \/ InterruptDrive
  \/ SendQueued \/ StreamFails

DriveSpec == DriveInit /\ [][DriveNext]_driveVars

(* The loop wakes, calls are answered and the stream takes its commands.   *)
DriveFairness == WF_driveVars(DriveProgress) /\ WF_driveVars(SendQueued)

DriveFairSpec == DriveSpec /\ DriveFairness

-----------------------------------------------------------------------------
(* Properties.                                                             *)

(* The loop does not sleep on a state that was not emitted, and no press of*)
(* the space bar is emitted twice.                                         *)
KeysEmitted ==
  /\ drive.at = "wait" /\ ~drive.changed => drive.last = held.axis /\ ~held.jump
  /\ pressed.jumpsSent <= pressed.jumps

(* A drive that says it went well has had everything it emitted applied.   *)
AllSent ==
  drive.status = "0" => stream.end = "graceful" /\ stream.queue = <<>>

(* What was emitted reaches the bridge unless the stream fails, and `q` or *)
(* the end of the input ends the command.                                  *)
DriveReaches ==
  /\ (stream.queue # <<>>) ~> (stream.queue = <<>>)
  /\ (drive.at = "wait" /\ drive.stopping) ~> drive.at = "ended"
=============================================================================
