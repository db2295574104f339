----------------------------- MODULE Locomotion -----------------------------
(***************************************************************************)
(* The Locomotion modality end to end: the Python clients that queue       *)
(* commands on a Drive stream, LocomotionService.Drive and Reset on the    *)
(* gRPC threads, and FrooxEngineLocomotionBridge, which holds the last     *)
(* commanded state and writes it into the engine's inputs on every tick of *)
(* its repeater.                                                           *)
(*                                                                         *)
(* The fields of LocomotionInput are abstracted to the groups a reset      *)
(* names.  What a tick writes into the engine is its snapshot; the slots   *)
(* it goes to live for one frame and are not kept here.                    *)
(***************************************************************************)
EXTENDS Repeater, Sequences

CONSTANTS Group,      \* the reset groups of held values: Move, Look, Crouch
          Jump,       \* the fourth reset flag, a pulse and not a held value
          Value,      \* the values a group can be commanded to
          Neutral,    \* the neutral one
          Commands,   \* the commands clients send
          MaxCalls    \* bound on the calls clients make in a run

Stream  == Caller
Flag    == Group \cup {Jump}
Held    == [Group -> Value]
Partial == UNION {[G -> Value] : G \in SUBSET Group}
Command == [sets : Partial, jump : BOOLEAN]

ASSUME LocomotionAssumption ==
  /\ Jump \notin Group
  /\ Neutral \in Value
  /\ Commands \subseteq Command
  /\ MaxCalls \in Nat

VARIABLES
  latest,        \* _latest, without its Jump
  jumpPending,   \* _jumpPending
  pendingReset,  \* _pendingResetFlags
  tick,          \* the TickStep in progress: its snapshot, or NoTick
  stream,        \* state of each Drive stream
  wire,          \* commands a client has sent and the service not yet read
  calls,         \* client calls made so far
  fresh,         \* history: the flags commanded since their last reset
  jumpsSent,     \* history: jump commands the bridge accepted
  jumpsFired     \* history: pulses written into the engine

bridgeVars  == <<latest, jumpPending, pendingReset>>
clientVars  == <<stream, wire, calls>>
historyVars == <<fresh, jumpsSent, jumpsFired>>
vars == <<worldVars, repeaterVars, bridgeVars, tick, clientVars, historyVars>>

NeutralState == [g \in Group |-> Neutral]
NoTick       == [bound |-> NoWorld, held |-> NeutralState, jump |-> FALSE]

BridgeTypeOK ==
  /\ latest \in Held
  /\ jumpPending \in BOOLEAN
  /\ pendingReset \subseteq Flag
  /\ tick \in [bound : WorldRef, held : Held, jump : BOOLEAN]

ClientTypeOK ==
  /\ stream \in [Stream -> {"closed", "open", "completing", "broken", "ended"}]
  /\ wire \in [Stream -> Seq(Commands)]
  /\ calls \in 0..MaxCalls

HistoryTypeOK ==
  /\ fresh \subseteq Flag
  /\ jumpsSent \in Nat
  /\ jumpsFired \in Nat

TypeOK == RepeaterTypeOK /\ BridgeTypeOK /\ ClientTypeOK /\ HistoryTypeOK

Init ==
  /\ RepeaterInit
  /\ latest = NeutralState
  /\ jumpPending = FALSE
  /\ pendingReset = {}
  /\ tick = NoTick
  /\ stream = [s \in Stream |-> "closed"]
  /\ wire = [s \in Stream |-> <<>>]
  /\ calls = 0
  /\ fresh = {}
  /\ jumpsSent = 0
  /\ jumpsFired = 0

-----------------------------------------------------------------------------
(* The client.  send() opens the stream lazily and only queues; leaving    *)
(* the context queues the end of stream; a crash breaks the transport with *)
(* commands still on it.                                                   *)

Send(s, c) ==
  /\ calls < MaxCalls
  /\ stream[s] \in {"closed", "open"}
  /\ stream' = [stream EXCEPT ![s] = "open"]
  /\ wire' = [wire EXCEPT ![s] = Append(@, c)]
  /\ calls' = calls + 1
  /\ UNCHANGED <<worldVars, repeaterVars, bridgeVars, tick, historyVars>>

Exit(s) ==
  /\ stream[s] = "open"
  /\ stream' = [stream EXCEPT ![s] = "completing"]
  /\ UNCHANGED <<worldVars, repeaterVars, bridgeVars, tick, wire, calls, historyVars>>

Crash(s) ==
  /\ stream[s] \in {"open", "completing"}
  /\ stream' = [stream EXCEPT ![s] = "broken"]
  /\ UNCHANGED <<worldVars, repeaterVars, bridgeVars, tick, wire, calls, historyVars>>

-----------------------------------------------------------------------------
(* The service, and the bridge calls it makes on its gRPC thread.          *)

MergeInto(c, state) ==
  [g \in Group |-> IF g \in DOMAIN c.sets THEN c.sets[g] ELSE state[g]]

ApplyReset(flags, state) ==
  [g \in Group |-> IF g \in flags THEN Neutral ELSE state[g]]

(* The lock section of SetState. *)
SetState(s, c) ==
  IF _disposed
  THEN UNCHANGED <<latest, jumpPending, starting, fresh, jumpsSent>>
  ELSE /\ latest' = MergeInto(c, latest)
       /\ jumpPending' = (jumpPending \/ c.jump)
       /\ RequestStart(s)
       /\ fresh' = fresh \cup DOMAIN c.sets \cup (IF c.jump THEN {Jump} ELSE {})
       /\ jumpsSent' = IF c.jump THEN jumpsSent + 1 ELSE jumpsSent

(* One turn of the Drive loop: MoveNext returns a command.  The thread is  *)
(* still in its last SetState until starting[s] is Idle again.             *)
DriveCommand(s) ==
  /\ stream[s] \in {"open", "completing", "broken"}
  /\ starting[s] = Idle
  /\ wire[s] # <<>>
  /\ wire' = [wire EXCEPT ![s] = Tail(@)]
  /\ SetState(s, Head(wire[s]))
  /\ UNCHANGED <<worldVars, disposal, cachedWorld, repeaterWorld, running, queued,
                 pendingReset, tick, stream, calls, jumpsFired>>

ResetBridge(flags) ==
  IF _disposed
  THEN UNCHANGED <<pendingReset, fresh>>
  ELSE /\ pendingReset' = pendingReset \cup flags
       /\ fresh' = fresh \ flags

(* Mutant: a cancelled stream is taken for one that ended gracefully.      *)
NotifyDisconnectIgnored(reason) ==
  IF reason = "errored" THEN ResetBridge(Flag) ELSE UNCHANGED <<pendingReset, fresh>>

NotifyDisconnect(reason) ==
  IF reason = "graceful" THEN UNCHANGED <<pendingReset, fresh>> ELSE ResetBridge(Flag)

(* How Drive ends: MoveNext returns false, the transport broke (cancelled) *)
(* or the request stream faulted for another reason (errored).             *)
EndDrive(s, reason) ==
  /\ starting[s] = Idle
  /\ \/ reason = "graceful"  /\ stream[s] = "completing" /\ wire[s] = <<>>
     \/ reason = "cancelled" /\ stream[s] = "broken"
     \/ reason = "errored"   /\ stream[s] \in {"open", "completing"}
  /\ NotifyDisconnect(reason)
  /\ stream' = [stream EXCEPT ![s] = "ended"]
  /\ wire' = [wire EXCEPT ![s] = <<>>]
  /\ UNCHANGED <<worldVars, repeaterVars, latest, jumpPending, tick, calls,
                 jumpsSent, jumpsFired>>

(* The Reset RPC; a request that names nothing means everything.           *)
Reset(request) ==
  /\ calls < MaxCalls
  /\ calls' = calls + 1
  /\ ResetBridge(IF request = {} THEN Flag ELSE request)
  /\ UNCHANGED <<worldVars, repeaterVars, latest, jumpPending, tick, stream, wire,
                 jumpsSent, jumpsFired>>

-----------------------------------------------------------------------------
(* TickStep.                                                               *)

(* Mutant: the reset goes into the snapshot but not into the held state.   *)
ConsumeUnsaved ==
  /\ UNCHANGED latest
  /\ jumpPending' = FALSE
  /\ pendingReset' = {}

(* A tick that finds the bridge disposed or unbound touches no command     *)
(* state; one bound to a disposed world has consumed the reset and the     *)
(* jump by the time it finds out.                                          *)
Consume ==
  /\ latest' = ApplyReset(pendingReset, latest)
  /\ jumpPending' = FALSE
  /\ pendingReset' = {}

StopTick(w) ==
  /\ tick = NoTick
  /\ TakeTick(w)
  /\ TickStops
  /\ Unbind
  /\ IF BoundWorld = NoWorld THEN UNCHANGED bridgeVars ELSE Consume
  /\ UNCHANGED <<worldVars, disposal, cachedWorld, starting, tick, clientVars, historyVars>>

BeginTick(w) ==
  /\ tick = NoTick
  /\ TakeTick(w)
  /\ ~TickStops
  /\ Consume
  /\ tick' = [bound |-> BoundWorld, held |-> ApplyReset(pendingReset, latest),
              jump |-> jumpPending /\ Jump \notin pendingReset]
  /\ UNCHANGED <<worldVars, disposal, cachedWorld, repeaterWorld, running, starting,
                 clientVars, historyVars>>

EndTick ==
  /\ tick # NoTick
  /\ tick' = NoTick
  /\ Reschedule(tick.bound)
  /\ UNCHANGED <<worldVars, disposal, cachedWorld, starting, latest, pendingReset,
                 clientVars, fresh, jumpsSent>>

(* Mutant: the pulse is latched again although the engine took it.         *)
ApplyToEngineRelatched ==
  /\ EndTick
  /\ jumpsFired' = IF tick.jump THEN jumpsFired + 1 ELSE jumpsFired
  /\ jumpPending' = (jumpPending \/ tick.jump)

(* ApplyToEngine writes the snapshot into the input slots of the module.   *)
ApplyToEngine ==
  /\ EndTick
  /\ jumpsFired' = IF tick.jump THEN jumpsFired + 1 ELSE jumpsFired
  /\ UNCHANGED jumpPending

(* The early return of ApplyToEngine: the module's inputs are null.        *)
InputsMissing ==
  /\ EndTick
  /\ UNCHANGED <<jumpPending, jumpsFired>>

(* No smooth locomotion module is active: the pulse is latched again.      *)
NotSmooth ==
  /\ EndTick
  /\ jumpPending' = (jumpPending \/ tick.jump)
  /\ UNCHANGED jumpsFired

FinishTick == ApplyToEngine \/ InputsMissing \/ NotSmooth

-----------------------------------------------------------------------------
Rest == <<bridgeVars, tick, clientVars, historyVars>>

Start(t)   == StartRepeater(t) /\ UNCHANGED Rest
Refocus(w) == tick = NoTick /\ FocusWorld(w) /\ UNCHANGED Rest
Destroy(w) == DestroyWorld(w) /\ UNCHANGED Rest
Dispose    == (BeginDispose \/ ClearOnDispose) /\ UNCHANGED Rest

Next ==
  \/ \E s \in Stream, c \in Commands : Send(s, c)
  \/ \E s \in Stream : Exit(s) \/ Crash(s) \/ DriveCommand(s)
  \/ \E s \in Stream, reason \in {"graceful", "cancelled", "errored"} : EndDrive(s, reason)
  \/ \E request \in SUBSET Flag : Reset(request)
  \/ \E t \in Thread : Start(t)
  \/ \E w \in World : StopTick(w) \/ BeginTick(w) \/ Destroy(w)
  \/ FinishTick
  \/ \E w \in WorldRef : Refocus(w)
  \/ Dispose

Spec == Init /\ [][Next]_vars

(* Threads that are running keep running, every world that waits for an    *)
(* update gets one, and the server notices a transport that broke or ended.*)
(* Nothing obliges a client to call, a world to close or a user to refocus.*)
Fairness ==
  /\ \A t \in Thread : WF_vars(Start(t))
  /\ \A w \in World : WF_vars(StopTick(w) \/ BeginTick(w))
  /\ WF_vars(FinishTick)
  /\ \A s \in Stream : WF_vars(DriveCommand(s)) /\ WF_vars(EndDrive(s, "cancelled"))

FairSpec == Spec /\ Fairness

-----------------------------------------------------------------------------
(* Properties.                                                             *)

(* The next tick of the repeater bound to w is on its way: running now,    *)
(* queued in w, or about to be queued there by the thread that bound it.   *)
TickComing(w) ==
  \/ tick.bound = w
  \/ queued[w] > 0
  \/ \E t \in Thread : starting[t] = At("schedule", w)

(* _repeaterRunning is never left standing without a tick to come on the   *)
(* bound world, unless that world was disposed.  A bridge that broke this  *)
(* would ignore every later command, since SetState restarts the repeater  *)
(* only when the flag is down.                                             *)
ChainNotLost ==
  running => repeaterWorld # NoWorld /\ (repeaterWorld \in alive => TickComing(repeaterWorld))

(* The strengthening that makes ChainNotLost inductive: the bridge refers  *)
(* only to worlds that have been opened, so that a world that opens is not *)
(* one a repeater is already bound to.                                     *)
OnlyOpened ==
  /\ repeaterWorld \in opened \cup {NoWorld}
  /\ cachedWorld \in opened \cup {NoWorld}
  /\ \A t \in Thread : starting[t].world \in opened \cup {NoWorld}

ChainInv == OnlyOpened /\ ChainNotLost

(* A group that no command has set since the last reset naming it, be it a *)
(* Reset call or the safety reset of a broken stream, is neutral in the    *)
(* held state and in the tick in progress, or its reset is still pending;  *)
(* likewise no jump pulse survives.  The reset is deferred to a tick and   *)
(* races commands of other streams, ticks, and the tick's second latch of  *)
(* an unconsumed pulse.                                                    *)
ResetHolds ==
  /\ \A g \in Group \ fresh :
       g \in pendingReset \/ (latest[g] = Neutral /\ tick.held[g] = Neutral)
  /\ Jump \in fresh \cup pendingReset \/ ~(jumpPending \/ tick.jump)

(* The engine never jumps more often than clients asked it to, whichever   *)
(* ticks, relatches and commands interleave: a pulse is consumed once.     *)
PulseOnce ==
  jumpsFired + (IF jumpPending THEN 1 ELSE 0) + (IF tick.jump THEN 1 ELSE 0) <= jumpsSent

(* Dispose is final: once it has returned the repeater stays down and no   *)
(* tick sets out for the engine, although ticks are still queued and gRPC  *)
(* threads still call.  One that was on its way may still get there.       *)
DisposeIsFinal ==
  [][disposal = "done" => ~running' /\ (tick = NoTick => tick' = NoTick)]_vars

(* After a client crash the bridge comes to hold a neutral state, if its   *)
(* repeater survives: the server notices the broken stream, requests the   *)
(* reset, and a tick applies it.                                           *)
RepeaterAlive    == running /\ repeaterWorld \in alive
CrashNeutralises ==
  \A s \in Stream :
    stream[s] = "broken" ~> (latest = NeutralState /\ ~jumpPending) \/ ~RepeaterAlive

=============================================================================
