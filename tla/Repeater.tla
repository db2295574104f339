------------------------------ MODULE Repeater ------------------------------
(***************************************************************************)
(* The self-rescheduling tick that the Locomotion and the Microphone       *)
(* bridge of the mod run on the engine's update thread.  Both classes      *)
(* carry the same fields (_cachedWorld, _repeaterWorld, _repeaterRunning,  *)
(* _disposed) and the same private methods, so the machinery is stated     *)
(* once, from FrooxEngineLocomotionBridge, and both components extend it.  *)
(*                                                                         *)
(* Threads: callers are gRPC threads that hand the bridge a command or an  *)
(* audio frame; one engine thread runs world updates and focus events; a   *)
(* shutdown thread disposes the bridge.  A step below is what one thread   *)
(* does between two points where another can intervene: a lock section, or *)
(* a call into the engine made outside the lock.                           *)
(***************************************************************************)
EXTENDS Worlds

CONSTANTS Caller,   \* the gRPC threads that call into the bridge
          Engine    \* the engine's update thread

ASSUME RepeaterAssumption == Engine \notin Caller

VARIABLES
  disposal,       \* progress of Dispose: "no", "flagged" (_disposed set), "done"
  cachedWorld,    \* _cachedWorld
  repeaterWorld,  \* _repeaterWorld
  running,        \* _repeaterRunning
  queued,         \* TickSteps waiting in each world's update queue
  starting        \* how far each thread is in EnsureRepeaterStarted

repeaterVars == <<disposal, cachedWorld, repeaterWorld, running, queued, starting>>

Thread    == Caller \cup {Engine}
StartStep == {"ensure", "schedule", "failed"}
Idle      == [step |-> "idle", world |-> NoWorld]
At(s, w)  == [step |-> s, world |-> w]

RepeaterTypeOK ==
  /\ WorldsTypeOK
  /\ disposal \in {"no", "flagged", "done"}
  /\ cachedWorld \in WorldRef
  /\ repeaterWorld \in WorldRef
  /\ running \in BOOLEAN
  /\ queued \in [World -> Nat]
  /\ starting \in [Thread -> {Idle} \cup [step : StartStep, world : World]]

_disposed == disposal # "no"

(* The constructor's snapshot of the focused world, and the tick it        *)
(* schedules there; it runs before any RPC can reach the bridge.           *)
RepeaterInit ==
  \E w \in WorldRef :
    /\ WorldsInit(w)
    /\ disposal = "no"
    /\ cachedWorld = w
    /\ repeaterWorld = w
    /\ running = (w # NoWorld)
    /\ queued = [v \in World |-> IF v = w THEN 1 ELSE 0]
    /\ starting = [t \in Thread |-> Idle]

-----------------------------------------------------------------------------
(* EnsureRepeaterStarted, in the steps its callers can be interrupted at.  *)

Bind(w)   == repeaterWorld' = w       /\ running' = TRUE
Unbind    == repeaterWorld' = NoWorld /\ running' = FALSE
KeepBound == UNCHANGED <<repeaterWorld, running>>

MarkRepeaterStopped(w) == IF repeaterWorld = w THEN Unbind ELSE KeepBound

(* The read "worldToStart = _repeaterRunning ? null : _cachedWorld" that   *)
(* ends the lock section of SetState and SubmitFrame.                      *)
RequestStart(t) ==
  starting' = IF running \/ cachedWorld = NoWorld
              THEN starting
              ELSE [starting EXCEPT ![t] = At("ensure", cachedWorld)]

(* Mutant: the lock section does not look at _disposed again.              *)
EnsureUndisposed(t) ==
  /\ starting[t].step = "ensure"
  /\ IF starting[t].world \in alive /\ ~running
     THEN /\ Bind(starting[t].world)
          /\ starting' = [starting EXCEPT ![t] = At("schedule", starting[t].world)]
     ELSE /\ KeepBound
          /\ starting' = [starting EXCEPT ![t] = Idle]
  /\ UNCHANGED <<worldVars, disposal, cachedWorld, queued>>

(* The IsDisposed test and the lock section of EnsureRepeaterStarted.      *)
Ensure(t) ==
  /\ starting[t].step = "ensure"
  /\ IF starting[t].world \in alive /\ ~_disposed /\ ~running
     THEN /\ Bind(starting[t].world)
          /\ starting' = [starting EXCEPT ![t] = At("schedule", starting[t].world)]
     ELSE /\ KeepBound
          /\ starting' = [starting EXCEPT ![t] = Idle]
  /\ UNCHANGED <<worldVars, disposal, cachedWorld, queued>>

(* RunInUpdates, outside the lock.  A world disposed since the test either *)
(* drops the callback with its queue or throws.                            *)
Schedule(t) ==
  /\ starting[t].step = "schedule"
  /\ LET w == starting[t].world IN
     \/ /\ starting' = [starting EXCEPT ![t] = Idle]
        /\ queued' = IF w \in alive THEN [queued EXCEPT ![w] = @ + 1] ELSE queued
     \/ /\ w \notin alive
        /\ starting' = [starting EXCEPT ![t] = At("failed", w)]
        /\ UNCHANGED queued
  /\ UNCHANGED <<worldVars, disposal, cachedWorld, repeaterWorld, running>>

(* The catch block: whatever is bound by now is unbound.                   *)
ScheduleFailed(t) ==
  /\ starting[t].step = "failed"
  /\ Unbind
  /\ starting' = [starting EXCEPT ![t] = Idle]
  /\ UNCHANGED <<worldVars, disposal, cachedWorld, queued>>

StartRepeater(t) == Ensure(t) \/ Schedule(t) \/ ScheduleFailed(t)

-----------------------------------------------------------------------------
(* TickStep.  Its component adds what it does between the two halves.      *)

(* A world update takes one queued TickStep; only the engine thread runs   *)
(* them, one after the other.                                              *)
TakeTick(w) ==
  /\ starting[Engine] = Idle
  /\ w \in alive
  /\ queued[w] > 0
  /\ queued' = [queued EXCEPT ![w] = @ - 1]

(* The world TickStep goes on with: what is bound, not where it runs.      *)
BoundWorld == IF _disposed THEN NoWorld ELSE repeaterWorld

(* A tick that ends in its first half: disposed, nothing bound, or bound   *)
(* to a disposed world.                                                    *)
TickStops == BoundWorld \notin alive

(* The last test of TickStep and its reschedule on the bound world.        *)
Reschedule(bound) ==
  IF _disposed \/ bound \notin alive
  THEN MarkRepeaterStopped(bound) /\ UNCHANGED queued
  ELSE KeepBound /\ queued' = [queued EXCEPT ![bound] = @ + 1]

-----------------------------------------------------------------------------
(* Worlds, focus and disposal.                                             *)

(* Mutant: the flag is not lowered when the repeater moves to a new world. *)
OnWorldFocusedRunning(w) ==
  IF _disposed
  THEN UNCHANGED <<cachedWorld, repeaterWorld, running, starting>>
  ELSE /\ cachedWorld' = w
       /\ UNCHANGED running
       /\ IF w # NoWorld /\ repeaterWorld # w
          THEN /\ repeaterWorld' = w
               /\ starting' = [starting EXCEPT ![Engine] = At("ensure", w)]
          ELSE UNCHANGED <<repeaterWorld, starting>>

(* OnWorldFocused up to its EnsureRepeaterStarted call.                    *)
OnWorldFocused(w) ==
  IF _disposed
  THEN UNCHANGED <<cachedWorld, repeaterWorld, running, starting>>
  ELSE /\ cachedWorld' = w
       /\ IF w # NoWorld /\ repeaterWorld # w
          THEN /\ Unbind
               /\ starting' = [starting EXCEPT ![Engine] = At("ensure", w)]
          ELSE KeepBound /\ UNCHANGED starting

FocusWorld(w) ==
  /\ starting[Engine] = Idle
  /\ Focus(w)
  /\ OnWorldFocused(w)
  /\ UNCHANGED <<disposal, queued>>

(* A world is disposed, its update queue with it.                          *)
DestroyWorld(w) ==
  /\ Close(w)
  /\ queued' = [queued EXCEPT ![w] = 0]
  /\ UNCHANGED <<disposal, cachedWorld, repeaterWorld, running, starting>>

(* Dispose raises the flag first and clears the fields under the lock      *)
(* after it has unsubscribed.                                              *)
BeginDispose ==
  /\ disposal = "no"
  /\ disposal' = "flagged"
  /\ UNCHANGED <<worldVars, cachedWorld, repeaterWorld, running, queued, starting>>

ClearOnDispose ==
  /\ disposal = "flagged"
  /\ disposal' = "done"
  /\ cachedWorld' = NoWorld
  /\ Unbind
  /\ UNCHANGED <<worldVars, queued, starting>>

=============================================================================
