----------------------------- MODULE SingleTick -----------------------------
(***************************************************************************)
(* What a repeater on the engine thread promises: there is one live tick   *)
(* at most, only the live one gets to inject anything, and once it has     *)
(* stopped, or was told to, only a new start brings one back.              *)
(***************************************************************************)
CONSTANT Button

VARIABLES
  phase,      \* the live tick: "none", "waiting" for an update or "running"
  injecting   \* the buttons a tick in progress is about to inject

vars == <<phase, injecting>>

Init == phase = "none" /\ injecting = {}

Start ==
  /\ phase = "none"
  /\ phase' = "waiting"
  /\ UNCHANGED injecting

(* The live tick runs and has something to inject. *)
Begin(B) ==
  /\ phase = "waiting"
  /\ phase' = "running"
  /\ injecting = {}
  /\ injecting' = B

(* It injects and waits for the next update, or was the last one. *)
Inject ==
  /\ injecting # {}
  /\ injecting' = {}
  /\ \/ phase = "running" /\ phase' \in {"waiting", "none"}
     \/ phase = "none" /\ phase' = "none"

(* It finds nothing to do, is superseded, or its world is disposed. *)
Stop ==
  /\ phase' = "none"
  /\ UNCHANGED injecting

Next ==
  \/ Start
  \/ \E B \in SUBSET Button : B # {} /\ Begin(B)
  \/ Inject
  \/ Stop

Spec == Init /\ [][Next]_vars
=============================================================================
