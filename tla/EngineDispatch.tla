--------------------------- MODULE EngineDispatch ---------------------------
(***************************************************************************)
(* A unary RPC whose bridge marshals a closure to the engine thread        *)
(* (EngineDispatch.RunOnEngineAsync) and awaits its result.  The gRPC      *)
(* thread resolves the focused world, posts the closure to that world and  *)
(* waits on a TaskCompletionSource; the engine runs the closure in a later *)
(* update of that world; the call's cancellation completes the source      *)
(* without taking the closure back.  A disposed world takes nothing and    *)
(* forgets what it has.                                                    *)
(***************************************************************************)
EXTENDS Worlds, Sequences

CONSTANTS Call,       \* the calls clients make in a run, each once
          Impatient   \* those of them whose client may give up: a bound on the run

ASSUME DispatchAssumption == Impatient \subseteq Call

VARIABLES
  rpc,     \* where each call stands
  target,  \* the world each call was dispatched to
  inbox    \* closures waiting in each world, in the order they were posted

dispatchVars == <<rpc, target, inbox>>

(* What BridgeFault makes of the outcome: a result, FailedPrecondition for *)
(* a world or a hand that is not there yet, Internal for an engine call    *)
(* that throws in the closure, or the client's own cancel.                 *)
Outcome == {"ok", "not_ready", "failed", "cancelled"}

DispatchTypeOK ==
  /\ rpc \in [Call -> {"idle", "resolved", "awaiting"} \cup Outcome]
  /\ target \in [Call -> WorldRef]
  /\ inbox \in [World -> Seq(Call)]

DispatchInit ==
  /\ rpc = [c \in Call |-> "idle"]
  /\ target = [c \in Call |-> NoWorld]
  /\ inbox = [w \in World |-> <<>>]

(* ResolveWorld on the gRPC thread. *)
ResolveWorld(c) ==
  /\ rpc[c] = "idle"
  /\ IF focused = NoWorld
     THEN /\ rpc' = [rpc EXCEPT ![c] = "not_ready"]
          /\ UNCHANGED target
     ELSE /\ rpc' = [rpc EXCEPT ![c] = "resolved"]
          /\ target' = [target EXCEPT ![c] = focused]
  /\ UNCHANGED <<worldVars, inbox>>

(* RunSynchronously on the world resolved a moment ago. *)
RunOnEngine(c) ==
  /\ rpc[c] = "resolved"
  /\ rpc' = [rpc EXCEPT ![c] = "awaiting"]
  /\ inbox' = IF target[c] \in alive
              THEN [inbox EXCEPT ![target[c]] = Append(@, c)]
              ELSE inbox
  /\ UNCHANGED <<worldVars, target>>

(* The client gives up or its deadline passes: ct is cancelled. *)
CancelCall(c) ==
  /\ c \in Impatient
  /\ rpc[c] = "awaiting"
  /\ rpc' = [rpc EXCEPT ![c] = "cancelled"]
  /\ UNCHANGED <<worldVars, target, inbox>>

(* A world update takes the next closure. *)
TakeClosure(w, c) ==
  /\ w \in alive
  /\ inbox[w] # <<>>
  /\ c = Head(inbox[w])
  /\ inbox' = [inbox EXCEPT ![w] = Tail(@)]
  /\ UNCHANGED target

(* TrySetResult and TrySetException: the first to complete the call wins. *)
TrySet(c, outcome) ==
  rpc' = IF rpc[c] = "awaiting" THEN [rpc EXCEPT ![c] = outcome] ELSE rpc

(* The closures of a world that is disposed go with it. *)
CloseInbox(w) == inbox' = [inbox EXCEPT ![w] = <<>>] /\ UNCHANGED <<rpc, target>>
=============================================================================
