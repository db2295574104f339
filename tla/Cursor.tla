------------------------------- MODULE Cursor -------------------------------
(***************************************************************************)
(* The Cursor modality: SetPosition holds the engine's cursor by a cursor  *)
(* lock registered in the focused world, until Release.  The lock stays in *)
(* the world it was registered in when the focus moves on; the next hold   *)
(* queues its removal there and does not wait for it.  A Harmony postfix   *)
(* hides the bridge's lock from the renderer, so that the pointer of the   *)
(* operating system stays free.                                            *)
(*                                                                         *)
(* The fields of FrooxEngineCursorBridge are written by closures of the    *)
(* engine thread, and by Dispose on the shutdown thread with nothing to    *)
(* order the two.  Positions are left out.                                 *)
(***************************************************************************)
EXTENDS EngineDispatch

CONSTANT Unregister   \* the closure of QueueUnregister, which no client waits for

Rpc == Call \ {Unregister}

ASSUME CursorAssumption ==
  /\ Unregister \in Call
  /\ \A c \in Rpc : c.op \in {"set", "release"}

VARIABLES
  patched,    \* _patched: the postfix is in place
  held,       \* _held
  lockWorld,  \* _lockWorld; _lock is null exactly when it is
  locked,     \* engine: worlds in which the bridge's lock is registered
  holding,    \* the world of the ApplyHold in progress, or NoHold
  disposal,   \* progress of Dispose: "no", "unheld", "queued", "done"
  doomed,     \* history: a lock went in where its removal was still queued
  late        \* history: a hold was applied while or after Dispose ran

lockVars  == <<held, lockWorld, locked, holding>>
otherVars == <<patched, disposal, doomed, late>>
vars == <<worldVars, dispatchVars, lockVars, otherVars>>

NoHold == [world |-> NoWorld, call |-> Unregister]

TypeOK ==
  /\ WorldsTypeOK
  /\ DispatchTypeOK
  /\ patched \in BOOLEAN /\ held \in BOOLEAN
  /\ lockWorld \in WorldRef
  /\ locked \subseteq World
  /\ holding \in [world : WorldRef, call : Call]
  /\ disposal \in {"no", "unheld", "queued", "done"}
  /\ doomed \in BOOLEAN /\ late \in BOOLEAN

_disposed  == disposal # "no"
EngineIdle == holding = NoHold

(* The constructor may fail to find the engine's internals or to patch.    *)
Init ==
  /\ \E w \in WorldRef : WorldsInit(w)
  /\ DispatchInit
  /\ patched \in BOOLEAN
  /\ held = FALSE
  /\ lockWorld = NoWorld
  /\ locked = {}
  /\ holding = NoHold
  /\ disposal = "no"
  /\ doomed = FALSE
  /\ late = FALSE

-----------------------------------------------------------------------------
(* A call comes in.                                                        *)

(* EnsureHoldAvailable refuses before anything is dispatched. *)
HoldUnavailable(c) ==
  /\ rpc[c] = "idle"
  /\ ~patched
  /\ rpc' = [rpc EXCEPT ![c] = "not_ready"]
  /\ UNCHANGED <<target, inbox, worldVars, lockVars, otherVars>>

Dispatch(c) ==
  /\ \/ patched /\ ResolveWorld(c)
     \/ RunOnEngine(c)
     \/ CancelCall(c)
  /\ UNCHANGED <<lockVars, otherVars>>

-----------------------------------------------------------------------------
(* The closures, on the engine thread.                                     *)

(* QueueUnregister: the removal waits in the queue of its world. *)
Leaving(w) == \E i \in DOMAIN inbox[w] : inbox[w][i] = Unregister

PostUnregister(w) == [inbox EXCEPT ![w] = Append(@, Unregister)]

(* No focused world any more, or no window resolution: nothing is done. *)
NotReadyBody(w, c) ==
  /\ EngineIdle
  /\ TakeClosure(w, c)
  /\ c.op = "set"
  /\ TrySet(c, "not_ready")
  /\ UNCHANGED <<worldVars, lockVars, otherVars>>

(* ApplyHold while the focused world is held: only the position changes.   *)
MoveHold(w, c) ==
  /\ EngineIdle
  /\ TakeClosure(w, c)
  /\ c.op = "set"
  /\ focused # NoWorld
  /\ held /\ lockWorld = focused
  /\ TrySet(c, "ok")
  /\ UNCHANGED <<worldVars, lockVars, otherVars>>

(* Mutant: the removal is queued in the world that is to be locked.        *)
ApplyHoldElsewhere(w, c) ==
  /\ EngineIdle
  /\ w \in alive /\ inbox[w] # <<>> /\ c = Head(inbox[w])
  /\ c.op = "set"
  /\ focused # NoWorld
  /\ ~(held /\ lockWorld = focused)
  /\ LET rest == [inbox EXCEPT ![w] = Tail(@)] IN
       inbox' = IF lockWorld # focused /\ lockWorld \in alive
                THEN [rest EXCEPT ![focused] = Append(@, Unregister)]
                ELSE rest
  /\ locked' = locked \cup {focused}
  /\ holding' = [world |-> focused, call |-> c]
  /\ doomed' = (doomed \/ Leaving(focused))
  /\ late' = (late \/ _disposed)
  /\ UNCHANGED <<rpc, target, worldVars, held, lockWorld, patched, disposal>>

(* ApplyHold otherwise: the removal of a lock left in another world is     *)
(* queued there, and the lock is registered anew ...                       *)
ApplyHold(w, c) ==
  /\ EngineIdle
  /\ w \in alive /\ inbox[w] # <<>> /\ c = Head(inbox[w])
  /\ c.op = "set"
  /\ focused # NoWorld
  /\ ~(held /\ lockWorld = focused)
  /\ LET rest == [inbox EXCEPT ![w] = Tail(@)] IN
       inbox' = IF lockWorld # focused /\ lockWorld \in alive
                THEN [rest EXCEPT ![lockWorld] = Append(@, Unregister)]
                ELSE rest
  /\ locked' = locked \cup {focused}
  /\ holding' = [world |-> focused, call |-> c]
  /\ doomed' = (doomed \/ Leaving(focused))
  /\ late' = (late \/ _disposed)
  /\ UNCHANGED <<rpc, target, worldVars, held, lockWorld, patched, disposal>>

(* ... and then entered into the fields, whatever Dispose did meanwhile.   *)
(* The call goes on to poll ReadState until the cursor has moved, which    *)
(* changes nothing: a poll that fails or is cancelled leaves the hold.     *)
EnterHold ==
  /\ holding # NoHold
  /\ lockWorld' = holding.world
  /\ held' = TRUE
  /\ holding' = NoHold
  /\ TrySet(holding.call, "ok")
  /\ late' = (late \/ _disposed)
  /\ UNCHANGED <<target, inbox, worldVars, locked, patched, disposal, doomed>>

(* ReleaseAsync lets go of the lock in whichever world it is, and then     *)
(* reads the state of the focused one, which may fail: too late to undo.   *)
ReleaseAsync(w, c) ==
  /\ EngineIdle
  /\ TakeClosure(w, c)
  /\ c.op = "release"
  /\ held' = FALSE
  /\ lockWorld' = NoWorld
  /\ locked' = locked \ {lockWorld}
  /\ \/ focused # NoWorld /\ TrySet(c, "ok")
     \/ TrySet(c, "not_ready")
  /\ UNCHANGED <<worldVars, holding, otherVars>>

(* The removal queued in w: it asks for no more than the world. *)
TryUnregister(w) ==
  /\ EngineIdle
  /\ TakeClosure(w, Unregister)
  /\ locked' = locked \ {w}
  /\ UNCHANGED <<rpc, worldVars, held, lockWorld, holding, otherVars>>

-----------------------------------------------------------------------------
(* Dispose, on the shutdown thread, and the engine's worlds.               *)

Unhold ==
  /\ disposal = "no"
  /\ held' = FALSE
  /\ disposal' = "unheld"
  /\ late' = (late \/ holding # NoHold)
  /\ UNCHANGED <<worldVars, dispatchVars, lockWorld, locked, holding, patched, doomed>>

(* Mutant: the lock is left to the engine when the focus is elsewhere.     *)
QueueUnregisterFocused ==
  /\ disposal = "unheld"
  /\ disposal' = "queued"
  /\ inbox' = IF lockWorld \in alive /\ lockWorld = focused
              THEN PostUnregister(lockWorld) ELSE inbox
  /\ UNCHANGED <<rpc, target, worldVars, lockVars, patched, doomed, late>>

QueueUnregister ==
  /\ disposal = "unheld"
  /\ disposal' = "queued"
  /\ inbox' = IF lockWorld \in alive THEN PostUnregister(lockWorld) ELSE inbox
  /\ UNCHANGED <<rpc, target, worldVars, lockVars, patched, doomed, late>>

UnpatchSelf ==
  /\ disposal = "queued"
  /\ disposal' = "done"
  /\ patched' = FALSE
  /\ UNCHANGED <<worldVars, dispatchVars, lockVars, doomed, late>>

Refocus(w) ==
  /\ EngineIdle
  /\ Focus(w)
  /\ UNCHANGED <<dispatchVars, lockVars, otherVars>>

CloseWorld(w) ==
  /\ Close(w)
  /\ CloseInbox(w)
  /\ locked' = locked \ {w}
  /\ UNCHANGED <<held, lockWorld, holding, otherVars>>

-----------------------------------------------------------------------------
RunClosure(w) ==
  \/ \E c \in Rpc : NotReadyBody(w, c) \/ MoveHold(w, c) \/ ApplyHold(w, c) \/ ReleaseAsync(w, c)
  \/ TryUnregister(w)

Next ==
  \/ \E c \in Rpc : HoldUnavailable(c) \/ Dispatch(c)
  \/ \E w \in World : RunClosure(w) \/ CloseWorld(w)
  \/ EnterHold
  \/ \E w \in WorldRef : Refocus(w)
  \/ Unhold \/ QueueUnregister \/ UnpatchSelf

Spec == Init /\ [][Next]_vars

-----------------------------------------------------------------------------
(* Properties.                                                             *)

(* OnCollectOutputStatePostfix hides the lock of w from the renderer, so   *)
(* that the system's pointer stays free.                                   *)
Hidden(w) == patched /\ held /\ lockWorld = w

(* Between two closures every lock in the engine is hidden, or on its way  *)
(* out: the pointer of the system is never taken for long, although holds, *)
(* releases and removals wait in several worlds and the focus moves about. *)
LocksHidden ==
  EngineIdle /\ ~_disposed => \A w \in locked : Leaving(w) \/ Hidden(w)

(* What a response says of the hold: the state read for the focused world. *)
ReadState == held /\ lockWorld = focused /\ lockWorld \in alive

(* A hold that is reported is in effect, unless its lock went in while the *)
(* removal of an earlier one was queued in the same world.  A world takes  *)
(* its closures in order, and so a removal never overtakes a later hold.   *)
HeldIsLocked == ReadState /\ ~doomed /\ ~late => lockWorld \in locked

(* Dispose leaves no lock behind, in whichever world it is, unless a hold  *)
(* was being applied as it ran or was applied after it.                    *)
DisposeReleases ==
  disposal \in {"queued", "done"} /\ ~late => ~held /\ \A w \in locked : Leaving(w)

(* The invariant from which these follow, in four parts.  Every lock is    *)
(* leaving but the one that stands: it is in the fields, or going in;      *)
Standing == IF EngineIdle THEN lockWorld ELSE holding.world

LocksTracked ==
  /\ locked \subseteq alive
  /\ focused \in alive \cup {NoWorld}
  /\ Standing \in opened \cup {NoWorld}
  /\ \A w \in locked : Leaving(w) \/ w = Standing

(* the fields agree with each other, and nothing gets past a bridge that   *)
(* is not patched, until Dispose;                                          *)
FieldsAgree ==
  ~_disposed =>
    /\ lockWorld # NoWorld => held
    /\ patched \/ (inbox = [w \in World |-> <<>>] /\ locked = {} /\ EngineIdle
                     /\ \A c \in Rpc : rpc[c] \notin {"resolved", "awaiting"})

(* Dispose finds no hold in progress and lets none stand, unless one is    *)
(* late;                                                                   *)
NotLate == ~late /\ _disposed => EngineIdle /\ ~held

(* and a lock that is not doomed stays: no removal is queued behind it.    *)
LockStays ==
  ~doomed /\ ~late =>
    /\ \A w \in alive : w = Standing /\ (EngineIdle => held) => w \in locked /\ ~Leaving(w)
    /\ EngineIdle \/ ~ReadState

CursorInv == LocksTracked /\ FieldsAgree /\ NotLate /\ LockStays
=============================================================================
