-------------------------- MODULE LocomotionProofs --------------------------
(***************************************************************************)
(* Theorems about Locomotion for every set of worlds, streams, groups and  *)
(* commands, and every bound on calls and focus changes.                   *)
(***************************************************************************)
EXTENDS Locomotion, TLAPS

USE WorldsAssumption, RepeaterAssumption, LocomotionAssumption

-----------------------------------------------------------------------------
(* The repeater it extends: the type of its variables, step by step.      *)

LEMMA IdleType ==
  /\ Idle \in {Idle} \cup [step : StartStep, world : World]
  /\ \A s \in StartStep, w \in World :
       At(s, w) \in {Idle} \cup [step : StartStep, world : World]
  BY DEF Idle, At

LEMMA RepeaterInitType == RepeaterInit => RepeaterTypeOK
  <1> SUFFICES ASSUME RepeaterInit PROVE RepeaterTypeOK
    OBVIOUS
  <1>1. PICK w \in WorldRef :
          /\ focused = w /\ focusChanges = 0 /\ opened = {w} \cap World /\ alive = opened
          /\ disposal = "no" /\ cachedWorld = w /\ repeaterWorld = w
          /\ running = (w # NoWorld)
          /\ queued = [v \in World |-> IF v = w THEN 1 ELSE 0]
          /\ starting = [t \in Thread |-> Idle]
    BY DEF RepeaterInit, WorldsInit
  <1> QED
    BY <1>1, IdleType DEF RepeaterTypeOK, WorldsTypeOK, WorldRef

LEMMA RepeaterUnchanged == RepeaterTypeOK /\ UNCHANGED <<worldVars, repeaterVars>> => RepeaterTypeOK'
  BY DEF RepeaterTypeOK, WorldsTypeOK, worldVars, repeaterVars

(* What a binding becomes stays well typed.                                *)
LEMMA BindingType ==
  ASSUME RepeaterTypeOK, NEW w \in World, Unbind \/ KeepBound \/ Bind(w)
  PROVE  repeaterWorld' \in WorldRef /\ running' \in BOOLEAN
  <1>1. CASE Unbind
    BY <1>1 DEF Unbind, WorldRef
  <1>2. CASE KeepBound
    BY <1>2 DEF KeepBound, RepeaterTypeOK, WorldsTypeOK
  <1>3. CASE Bind(w)
    BY <1>3 DEF Bind, WorldRef
  <1> QED
    BY <1>1, <1>2, <1>3

(* What a call hands over to EnsureRepeaterStarted. *)
LEMMA RequestStartType ==
  ASSUME RepeaterTypeOK, NEW t \in Thread, RequestStart(t)
  PROVE  starting' \in [Thread -> {Idle} \cup [step : StartStep, world : World]]
  BY DEF RequestStart, RepeaterTypeOK, WorldsTypeOK, WorldRef, At, StartStep

(* The second half of a tick. *)
LEMMA RescheduleType ==
  ASSUME RepeaterTypeOK, NEW bound \in WorldRef, Reschedule(bound)
  PROVE  repeaterWorld' \in WorldRef /\ running' \in BOOLEAN /\ queued' \in [World -> Nat]
  <1>1. queued' \in [World -> Nat]
    BY DEF Reschedule, RepeaterTypeOK, WorldsTypeOK
  <1>2. Unbind \/ KeepBound
    BY DEF Reschedule, MarkRepeaterStopped
  <1>3. CASE Unbind
    BY <1>1, <1>3 DEF Unbind, WorldRef
  <1>4. CASE KeepBound
    BY <1>1, <1>4 DEF KeepBound, RepeaterTypeOK, WorldsTypeOK
  <1> QED
    BY <1>2, <1>3, <1>4

(* EnsureRepeaterStarted, the worlds and Dispose. *)
LEMMA StartType ==
  ASSUME RepeaterTypeOK, NEW t \in Thread, StartRepeater(t)
  PROVE  RepeaterTypeOK'
  <1>1. CASE Ensure(t)
    <2>1. starting[t].world \in World
      BY <1>1 DEF Ensure, RepeaterTypeOK, WorldsTypeOK, Idle
    <2> QED
      BY <1>1, <2>1, IdleType, BindingType
      DEF Ensure, RepeaterTypeOK, WorldsTypeOK, worldVars, StartStep
  <1>2. CASE Schedule(t)
    <2>1. starting[t].world \in World
      BY <1>2 DEF Schedule, RepeaterTypeOK, WorldsTypeOK, Idle
    <2> QED
      BY <1>2, <2>1, IdleType DEF Schedule, RepeaterTypeOK, WorldsTypeOK, worldVars, At, StartStep
  <1>3. CASE ScheduleFailed(t)
    BY <1>3, IdleType DEF ScheduleFailed, Unbind, RepeaterTypeOK, WorldsTypeOK, worldVars, WorldRef
  <1> QED
    BY <1>1, <1>2, <1>3 DEF StartRepeater

LEMMA FocusType ==
  ASSUME RepeaterTypeOK, NEW w \in WorldRef, FocusWorld(w)
  PROVE  RepeaterTypeOK'
  <1>1. /\ cachedWorld' \in WorldRef /\ repeaterWorld' \in WorldRef /\ running' \in BOOLEAN
        /\ starting' \in [Thread -> {Idle} \cup [step : StartStep, world : World]]
    <2>1. CASE _disposed
      BY <2>1 DEF FocusWorld, Focus, OnWorldFocused, RepeaterTypeOK, WorldsTypeOK
    <2>2. CASE ~_disposed
      <3>1. cachedWorld' \in WorldRef
        BY <2>2 DEF FocusWorld, Focus, OnWorldFocused
      <3>2. starting' \in [Thread -> {Idle} \cup [step : StartStep, world : World]]
        BY <2>2, IdleType DEF FocusWorld, Focus, OnWorldFocused, RepeaterTypeOK, WorldsTypeOK, WorldRef, StartStep, Thread
      <3>3. Unbind \/ KeepBound
        BY <2>2 DEF FocusWorld, Focus, OnWorldFocused
      <3>4. repeaterWorld' \in WorldRef /\ running' \in BOOLEAN
        BY <3>3 DEF Unbind, KeepBound, RepeaterTypeOK, WorldsTypeOK, WorldRef
      <3> QED
        BY <3>1, <3>2, <3>4
    <2> QED
      BY <2>1, <2>2
  <1>2. /\ alive' \subseteq opened' /\ opened' \subseteq World /\ focused' \in WorldRef
        /\ focusChanges' \in 0..MaxFocus
    BY DEF FocusWorld, Focus, RepeaterTypeOK, WorldsTypeOK
  <1>3. disposal' \in {"no", "flagged", "done"} /\ queued' \in [World -> Nat]
    BY DEF FocusWorld, Focus, RepeaterTypeOK, WorldsTypeOK
  <1> QED
    BY <1>1, <1>2, <1>3 DEF RepeaterTypeOK, WorldsTypeOK

LEMMA DestroyType ==
  ASSUME RepeaterTypeOK, NEW w \in World, DestroyWorld(w)
  PROVE  RepeaterTypeOK'
  BY DEF DestroyWorld, Close, RepeaterTypeOK, WorldsTypeOK, WorldRef

LEMMA DisposeType ==
  ASSUME RepeaterTypeOK, BeginDispose \/ ClearOnDispose
  PROVE  RepeaterTypeOK'
  BY DEF BeginDispose, ClearOnDispose, Unbind, RepeaterTypeOK, WorldsTypeOK, worldVars, WorldRef

-----------------------------------------------------------------------------
(* Type correctness.                                                       *)

LEMMA NeutralStateType == NeutralState \in Held
  BY DEF NeutralState, Held

(* The functions of the held state stay within it.                         *)
LEMMA MergeType ==
  ASSUME NEW c \in Command, NEW state \in Held
  PROVE  MergeInto(c, state) \in Held
  <1> c.sets \in Partial
    BY DEF Command
  <1>1. PICK G \in SUBSET Group : c.sets \in [G -> Value]
    BY DEF Partial
  <1> QED
    BY <1>1 DEF MergeInto, Held

LEMMA ApplyResetType ==
  ASSUME NEW flags, NEW state \in Held
  PROVE  ApplyReset(flags, state) \in Held
  BY DEF ApplyReset, Held

LEMMA InitType == Init => TypeOK
  <1> SUFFICES ASSUME Init PROVE TypeOK
    OBVIOUS
  <1>2. RepeaterTypeOK
    BY RepeaterInitType DEF Init
  <1>3. BridgeTypeOK
    BY NeutralStateType DEF Init, BridgeTypeOK, NoTick, WorldRef
  <1>4. ClientTypeOK
    BY DEF Init, ClientTypeOK
  <1>5. HistoryTypeOK
    BY DEF Init, HistoryTypeOK
  <1> QED
    BY <1>2, <1>3, <1>4, <1>5 DEF TypeOK

(* What each action leaves alone stays well typed.                         *)
LEMMA UnchangedType ==
  /\ RepeaterTypeOK /\ UNCHANGED <<worldVars, repeaterVars>> => RepeaterTypeOK'
  /\ BridgeTypeOK /\ UNCHANGED <<bridgeVars, tick>> => BridgeTypeOK'
  /\ ClientTypeOK /\ UNCHANGED clientVars => ClientTypeOK'
  /\ HistoryTypeOK /\ UNCHANGED historyVars => HistoryTypeOK'
  <1>1. RepeaterTypeOK /\ UNCHANGED <<worldVars, repeaterVars>> => RepeaterTypeOK'
    BY RepeaterUnchanged
  <1>2. BridgeTypeOK /\ UNCHANGED <<bridgeVars, tick>> => BridgeTypeOK'
    BY DEF BridgeTypeOK, bridgeVars
  <1>3. ClientTypeOK /\ UNCHANGED clientVars => ClientTypeOK'
    BY DEF ClientTypeOK, clientVars
  <1>4. HistoryTypeOK /\ UNCHANGED historyVars => HistoryTypeOK'
    BY DEF HistoryTypeOK, historyVars
  <1> QED
    BY <1>1, <1>2, <1>3, <1>4

(* The client's calls.                                                     *)
LEMMA SendType ==
  ASSUME TypeOK, NEW s \in Stream, NEW c \in Commands, Send(s, c)
  PROVE  TypeOK'
  <1>1. RepeaterTypeOK' /\ BridgeTypeOK' /\ HistoryTypeOK'
    BY UnchangedType DEF TypeOK, Send
  <1>2. ClientTypeOK'
    BY DEF TypeOK, ClientTypeOK, Send
  <1> QED
    BY <1>1, <1>2 DEF TypeOK

(* The service's steps.                                                    *)
LEMMA DriveCommandType ==
  ASSUME TypeOK, NEW s \in Stream, DriveCommand(s)
  PROVE  TypeOK'
  <1> DEFINE c == Head(wire[s])
  <1>1. wire[s] \in Seq(Commands) /\ wire[s] # <<>>
    BY DEF DriveCommand, TypeOK, ClientTypeOK
  <1>2. c \in Commands /\ Tail(wire[s]) \in Seq(Commands)
    BY <1>1
  <1>3. c \in Command /\ c.jump \in BOOLEAN /\ DOMAIN c.sets \subseteq Group
    BY <1>2 DEF Command, Partial
  <1>4. starting' \in [Thread -> {Idle} \cup [step : StartStep, world : World]]
    BY RequestStartType DEF DriveCommand, SetState, TypeOK, RepeaterTypeOK, WorldsTypeOK, Thread, Stream
  <1>5. RepeaterTypeOK'
    BY <1>4 DEF DriveCommand, TypeOK, RepeaterTypeOK, WorldsTypeOK, worldVars
  <1>6. latest' \in Held
    BY <1>3, MergeType DEF DriveCommand, SetState, TypeOK, BridgeTypeOK
  <1>7. BridgeTypeOK'
    BY <1>3, <1>6 DEF DriveCommand, SetState, TypeOK, BridgeTypeOK
  <1>8. ClientTypeOK'
    BY <1>2 DEF DriveCommand, TypeOK, ClientTypeOK
  <1>9. HistoryTypeOK'
    BY <1>3 DEF DriveCommand, SetState, TypeOK, HistoryTypeOK, Flag
  <1> QED
    BY <1>5, <1>7, <1>8, <1>9 DEF TypeOK

LEMMA EndDriveType ==
  ASSUME TypeOK, NEW s \in Stream, NEW reason \in {"graceful", "cancelled", "errored"},
         EndDrive(s, reason)
  PROVE  TypeOK'
  <1>1. RepeaterTypeOK'
    BY UnchangedType DEF EndDrive, TypeOK
  <1>2. BridgeTypeOK' /\ HistoryTypeOK'
    BY DEF EndDrive, NotifyDisconnect, ResetBridge, TypeOK, BridgeTypeOK, HistoryTypeOK
  <1>3. ClientTypeOK'
    BY DEF EndDrive, TypeOK, ClientTypeOK
  <1> QED
    BY <1>1, <1>2, <1>3 DEF TypeOK

LEMMA ResetType ==
  ASSUME TypeOK, NEW request \in SUBSET Flag, Reset(request)
  PROVE  TypeOK'
  <1>1. RepeaterTypeOK'
    BY UnchangedType DEF Reset, TypeOK
  <1>2. BridgeTypeOK' /\ HistoryTypeOK'
    BY DEF Reset, ResetBridge, TypeOK, BridgeTypeOK, HistoryTypeOK
  <1>3. ClientTypeOK'
    BY DEF Reset, TypeOK, ClientTypeOK
  <1> QED
    BY <1>1, <1>2, <1>3 DEF TypeOK

(* The ticks.                                                              *)
LEMMA ConsumeType ==
  ASSUME TypeOK, Consume
  PROVE  latest' \in Held /\ jumpPending' \in BOOLEAN /\ pendingReset' \subseteq Flag
  BY ApplyResetType DEF Consume, TypeOK, BridgeTypeOK

LEMMA StopTickType ==
  ASSUME TypeOK, NEW w \in World, StopTick(w)
  PROVE  TypeOK'
  <1>1. RepeaterTypeOK'
    BY BindingType DEF StopTick, TakeTick, TypeOK, RepeaterTypeOK, WorldsTypeOK, worldVars
  <1>2. BridgeTypeOK'
    BY ConsumeType DEF StopTick, bridgeVars, TypeOK, BridgeTypeOK
  <1>3. ClientTypeOK' /\ HistoryTypeOK'
    BY UnchangedType DEF StopTick, TypeOK
  <1> QED
    BY <1>1, <1>2, <1>3 DEF TypeOK

LEMMA BeginTickType ==
  ASSUME TypeOK, NEW w \in World, BeginTick(w)
  PROVE  TypeOK'
  <1>1. RepeaterTypeOK'
    BY DEF BeginTick, TakeTick, TypeOK, RepeaterTypeOK, WorldsTypeOK, worldVars
  <1>2. ApplyReset(pendingReset, latest) \in Held
    BY ApplyResetType DEF TypeOK, BridgeTypeOK
  <1>3. BoundWorld \in WorldRef
    BY DEF BoundWorld, TypeOK, RepeaterTypeOK, WorldsTypeOK, WorldRef
  <1>4. BridgeTypeOK'
    BY <1>2, <1>3, ConsumeType DEF BeginTick, TypeOK, BridgeTypeOK
  <1>5. ClientTypeOK' /\ HistoryTypeOK'
    BY UnchangedType DEF BeginTick, TypeOK
  <1> QED
    BY <1>1, <1>4, <1>5 DEF TypeOK

LEMMA FinishTickType ==
  ASSUME TypeOK, FinishTick
  PROVE  TypeOK'
  <1>1. EndTick
    BY DEF FinishTick, ApplyToEngine, InputsMissing, NotSmooth
  <1>2. tick.bound \in WorldRef /\ tick.jump \in BOOLEAN
    BY DEF TypeOK, BridgeTypeOK
  <1>3. Reschedule(tick.bound)
    BY <1>1 DEF EndTick
  <1>4. RepeaterTypeOK'
    BY <1>1, <1>2, <1>3, RescheduleType DEF EndTick, TypeOK, RepeaterTypeOK, WorldsTypeOK, worldVars
  <1>5. NoTick \in [bound : WorldRef, held : Held, jump : BOOLEAN]
    BY NeutralStateType DEF NoTick, WorldRef
  <1>6. BridgeTypeOK'
    BY <1>1, <1>2, <1>5
    DEF FinishTick, ApplyToEngine, InputsMissing, NotSmooth, EndTick, TypeOK, BridgeTypeOK
  <1>7. ClientTypeOK'
    BY <1>1, UnchangedType DEF EndTick, TypeOK
  <1>8. HistoryTypeOK'
    BY <1>1 DEF FinishTick, ApplyToEngine, InputsMissing, NotSmooth, EndTick,
                TypeOK, HistoryTypeOK
  <1> QED
    BY <1>4, <1>6, <1>7, <1>8 DEF TypeOK

(* What the engine and Dispose do.                                         *)
LEMMA EngineType ==
  ASSUME TypeOK,
         \/ \E t \in Thread : Start(t)
         \/ \E w \in World : Destroy(w)
         \/ \E w \in WorldRef : Refocus(w)
         \/ Dispose
  PROVE  TypeOK'
  <1>1. UNCHANGED Rest
    BY DEF Start, Destroy, Refocus, Dispose
  <1>2. BridgeTypeOK' /\ ClientTypeOK' /\ HistoryTypeOK'
    BY <1>1, UnchangedType DEF Rest, TypeOK
  <1>3. RepeaterTypeOK'
    BY StartType, FocusType, DestroyType, DisposeType
    DEF TypeOK, Start, Destroy, Refocus, Dispose
  <1> QED
    BY <1>2, <1>3 DEF TypeOK

LEMMA NextType == TypeOK /\ [Next]_vars => TypeOK'
  <1> SUFFICES ASSUME TypeOK, [Next]_vars PROVE TypeOK'
    OBVIOUS
  <1>1. CASE \E s \in Stream, c \in Commands : Send(s, c)
    BY <1>1, SendType
  <1>2. CASE \E s \in Stream : Exit(s) \/ Crash(s)
    <2>1. RepeaterTypeOK' /\ BridgeTypeOK' /\ HistoryTypeOK'
      BY <1>2, UnchangedType DEF TypeOK, Exit, Crash
    <2>2. ClientTypeOK'
      BY <1>2 DEF TypeOK, ClientTypeOK, Exit, Crash
    <2> QED
      BY <2>1, <2>2 DEF TypeOK
  <1>3. CASE \E s \in Stream : DriveCommand(s)
    BY <1>3, DriveCommandType
  <1>4. CASE \E s \in Stream, reason \in {"graceful", "cancelled", "errored"} :
               EndDrive(s, reason)
    BY <1>4, EndDriveType
  <1>5. CASE \E request \in SUBSET Flag : Reset(request)
    BY <1>5, ResetType
  <1>6. CASE \E w \in World : StopTick(w) \/ BeginTick(w)
    BY <1>6, StopTickType, BeginTickType
  <1>7. CASE FinishTick
    BY <1>7, FinishTickType
  <1>8. CASE \/ \E t \in Thread : Start(t)
             \/ \E w \in World : Destroy(w)
             \/ \E w \in WorldRef : Refocus(w)
             \/ Dispose
    BY <1>8, EngineType
  <1>9. CASE UNCHANGED vars
    BY <1>9, UnchangedType DEF vars, TypeOK
  <1> QED
    BY <1>1, <1>2, <1>3, <1>4, <1>5, <1>6, <1>7, <1>8, <1>9 DEF Next

(* Every reachable state is well typed. *)
THEOREM TypeCorrect == Spec => []TypeOK
  <1>1. Init => TypeOK
    BY InitType
  <1>2. TypeOK /\ [Next]_vars => TypeOK'
    BY NextType
  <1> QED
    BY <1>1, <1>2, PTL DEF Spec

-----------------------------------------------------------------------------
(* The repeater is never lost.                                             *)

(* Only the step that binds a world, the tick that leaves its queue and    *)
(* the thread that schedules can take away a tick to come.                 *)
LEMMA ChainUnchanged ==
  ASSUME ChainInv, UNCHANGED <<alive, opened, cachedWorld, repeaterWorld, running,
                               queued, starting, tick>>
  PROVE  ChainInv'
  BY DEF ChainInv, OnlyOpened, ChainNotLost, TickComing

LEMMA ChainInit == Init => ChainInv
  <1> SUFFICES ASSUME Init PROVE ChainInv
    OBVIOUS
  <1>1. PICK w \in WorldRef :
          /\ opened = {w} \cap World /\ alive = opened
          /\ cachedWorld = w /\ repeaterWorld = w
          /\ running = (w # NoWorld)
          /\ queued = [v \in World |-> IF v = w THEN 1 ELSE 0]
          /\ starting = [t \in Thread |-> Idle]
    BY DEF Init, RepeaterInit, WorldsInit
  <1>2. OnlyOpened
    BY <1>1 DEF OnlyOpened, WorldRef, Idle
  <1>3. ChainNotLost
    <2> SUFFICES ASSUME running PROVE repeaterWorld # NoWorld /\ queued[repeaterWorld] > 0
      BY DEF ChainNotLost, TickComing
    <2>1. w \in World /\ w # NoWorld
      BY <1>1 DEF WorldRef
    <2>2. queued[w] = 1
      BY <1>1, <2>1
    <2> QED
      BY <1>1, <2>1, <2>2
  <1> QED
    BY <1>2, <1>3 DEF ChainInv

LEMMA ChainDrive ==
  ASSUME TypeOK, ChainInv, NEW s \in Stream, DriveCommand(s)
  PROVE  ChainInv'
  <1>1. UNCHANGED <<alive, opened, cachedWorld, repeaterWorld, running, queued, tick>>
    BY DEF DriveCommand, worldVars
  <1>2. s \in Thread /\ starting[s] = Idle
    BY DEF DriveCommand, Stream, Thread
  <1>3. \/ starting' = starting
        \/ /\ starting' = [starting EXCEPT ![s] = At("ensure", cachedWorld)]
           /\ cachedWorld # NoWorld
    BY DEF DriveCommand, SetState, RequestStart
  <1>4. OnlyOpened'
    BY <1>1, <1>2, <1>3 DEF ChainInv, OnlyOpened, At, TypeOK, RepeaterTypeOK, WorldsTypeOK
  <1>5. ChainNotLost'
    BY <1>1, <1>2, <1>3 DEF ChainInv, ChainNotLost, TickComing, At, Idle, TypeOK, RepeaterTypeOK, WorldsTypeOK
  <1> QED
    BY <1>4, <1>5 DEF ChainInv

LEMMA ChainStart ==
  ASSUME TypeOK, ChainInv, NEW t \in Thread, Start(t)
  PROVE  ChainInv'
  <1> USE DEF TypeOK, RepeaterTypeOK, WorldsTypeOK
  <1>0. UNCHANGED <<alive, opened, cachedWorld, tick>>
    BY DEF Start, StartRepeater, Ensure, Schedule, ScheduleFailed, Rest, worldVars
  <1>1. CASE Ensure(t)
    <2>1. OnlyOpened'
      BY <1>0, <1>1 DEF ChainInv, OnlyOpened, Ensure, Bind, KeepBound, At, Idle
    <2>2. CASE starting[t].world \in alive /\ ~_disposed /\ ~running
      <3>1. starting'[t] = At("schedule", repeaterWorld') /\ repeaterWorld' \in World
        BY <1>1, <2>2 DEF Ensure, Bind
      <3> QED
        BY <2>1, <3>1 DEF ChainInv, ChainNotLost, TickComing
    <2>3. CASE ~(starting[t].world \in alive /\ ~_disposed /\ ~running)
      <3>1. UNCHANGED <<repeaterWorld, running, queued>>
        BY <1>1, <2>3 DEF Ensure, KeepBound
      <3>2. \A u \in Thread : starting[u].step = "schedule" => starting'[u] = starting[u]
        BY <1>1, <2>3 DEF Ensure
      <3> QED
        BY <1>0, <2>1, <3>1, <3>2 DEF ChainInv, ChainNotLost, TickComing, At
    <2> QED
      BY <2>2, <2>3
  <1>2. CASE Schedule(t)
    <2> DEFINE w == starting[t].world
    <2>1. UNCHANGED <<repeaterWorld, running>> /\ w \in World
      BY <1>2 DEF Schedule, Idle
    <2>2. OnlyOpened'
      BY <1>0, <1>2, <2>1 DEF ChainInv, OnlyOpened, Schedule, At, Idle
    <2>3. \A u \in Thread : u # t => starting'[u] = starting[u]
      BY <1>2 DEF Schedule
    <2>4. \A v \in World : queued'[v] >= queued[v] /\ (v = w /\ w \in alive => queued'[v] > 0)
      BY <1>2, <2>1 DEF Schedule
    <2>5. starting[t] = At("schedule", w)
      BY <1>2 DEF Schedule, At, Idle
    <2>6. ASSUME NEW v \in alive, TickComing(v)
          PROVE  TickComing(v)'
      <3> v \in World /\ queued[v] \in Nat /\ queued'[v] >= queued[v]
        BY <2>4
      <3>1. CASE tick.bound = v
        BY <1>0, <3>1 DEF TickComing
      <3>2. CASE queued[v] > 0
        <4>1. queued'[v] > 0
          BY <1>2, <2>1, <3>2 DEF Schedule
        <4> QED
          BY <4>1 DEF TickComing
      <3>3. CASE \E u \in Thread : starting[u] = At("schedule", v)
        <4>1. PICK u \in Thread : starting[u] = At("schedule", v)
          BY <3>3
        <4>2. CASE u = t
          <5>1. v = w
            BY <2>5, <4>1, <4>2 DEF At
          <5> QED
            BY <2>4, <5>1 DEF TickComing
        <4>3. CASE u # t
          BY <2>3, <4>1, <4>3 DEF TickComing, At
        <4> QED
          BY <4>2, <4>3
      <3> QED
        BY <2>6, <3>1, <3>2, <3>3 DEF TickComing
    <2>7. ChainNotLost'
      <3> SUFFICES ASSUME running'
                   PROVE  /\ repeaterWorld' # NoWorld
                          /\ repeaterWorld' \in alive' => TickComing(repeaterWorld)'
        BY DEF ChainNotLost, TickComing
      <3>1. running /\ repeaterWorld # NoWorld /\ (repeaterWorld \in alive => TickComing(repeaterWorld))
        BY <2>1 DEF ChainInv, ChainNotLost
      <3> QED
        BY <1>0, <2>1, <2>6, <3>1
    <2> QED
      BY <2>2, <2>7 DEF ChainInv
  <1>3. CASE ScheduleFailed(t)
    <2>1. OnlyOpened'
      BY <1>0, <1>3 DEF ChainInv, OnlyOpened, ScheduleFailed, Unbind, Idle
    <2> QED
      BY <1>3, <2>1 DEF ChainInv, ChainNotLost, ScheduleFailed, Unbind
  <1> QED
    BY <1>1, <1>2, <1>3 DEF Start, StartRepeater

(* A tick that ends leaves nothing bound.                                  *)
LEMMA ChainUnbind ==
  ASSUME TypeOK, ChainInv, Unbind, UNCHANGED <<opened, cachedWorld, starting>>
  PROVE  ChainInv'
  BY DEF Unbind, ChainInv, OnlyOpened, ChainNotLost

(* A tick that goes on is the tick to come of the world it is bound to.    *)
LEMMA ChainBeginTick ==
  ASSUME TypeOK, ChainInv, NEW w \in World, BeginTick(w)
  PROVE  ChainInv'
  <1>1. UNCHANGED <<alive, opened, cachedWorld, repeaterWorld, running, starting>>
    BY DEF BeginTick, worldVars
  <1>2. OnlyOpened'
    BY <1>1 DEF ChainInv, OnlyOpened
  <1>3. BoundWorld = repeaterWorld
    BY DEF BeginTick, TickStops, BoundWorld, TypeOK, RepeaterTypeOK, WorldsTypeOK
  <1>4. TickComing(repeaterWorld)'
    BY <1>1, <1>3 DEF BeginTick, TickComing
  <1>5. ChainNotLost'
    BY <1>1, <1>4 DEF ChainInv, ChainNotLost
  <1> QED
    BY <1>2, <1>5 DEF ChainInv

LEMMA ChainFinishTick ==
  ASSUME TypeOK, ChainInv, FinishTick
  PROVE  ChainInv'
  <1> DEFINE bound == tick.bound
  <1> USE DEF TypeOK, RepeaterTypeOK, WorldsTypeOK
  <1>1. EndTick
    BY DEF FinishTick, ApplyToEngine, InputsMissing, NotSmooth
  <1>2. UNCHANGED <<alive, opened, cachedWorld, starting>> /\ Reschedule(bound)
    BY <1>1 DEF EndTick, worldVars
  <1>3. CASE Unbind
    BY <1>2, <1>3, ChainUnbind
  <1>4. CASE KeepBound
    <2>1. OnlyOpened'
      BY <1>2, <1>4 DEF ChainInv, OnlyOpened, KeepBound
    <2>2. UNCHANGED <<repeaterWorld, running>>
      BY <1>4 DEF KeepBound
    <2>3. CASE _disposed \/ bound \notin alive
      <3>1. queued' = queued
        BY <1>2, <2>3 DEF Reschedule
      <3>2. CASE repeaterWorld = bound
        <4>1. Unbind
          BY <1>2, <2>3, <3>2 DEF Reschedule, MarkRepeaterStopped
        <4> QED
          BY <1>2, <4>1, ChainUnbind
      <3>3. CASE repeaterWorld # bound
        <4>1. TickComing(repeaterWorld) => TickComing(repeaterWorld)'
          BY <1>2, <2>2, <3>1, <3>3 DEF TickComing
        <4> QED
          BY <1>2, <2>1, <2>2, <4>1 DEF ChainInv, ChainNotLost
      <3> QED
        BY <3>2, <3>3
    <2>4. CASE ~_disposed /\ bound \in alive
      <3>1. bound \in World /\ queued' = [queued EXCEPT ![bound] = @ + 1]
        BY <1>2, <2>4 DEF Reschedule
      <3>2. CASE repeaterWorld = bound
        <4>1. queued'[bound] > 0
          BY <3>1
        <4> QED
          BY <1>2, <2>1, <2>2, <3>2, <4>1 DEF ChainInv, ChainNotLost, TickComing
      <3>3. CASE repeaterWorld # bound
        <4>1. queued'[repeaterWorld] = queued[repeaterWorld] \/ repeaterWorld \notin World
          BY <3>1, <3>3
        <4>2. repeaterWorld \in World /\ TickComing(repeaterWorld) => TickComing(repeaterWorld)'
          BY <1>2, <2>2, <3>3, <4>1 DEF TickComing
        <4> QED
          BY <1>2, <2>1, <2>2, <4>2 DEF ChainInv, ChainNotLost
      <3> QED
        BY <3>2, <3>3
    <2> QED
      BY <2>3, <2>4
  <1> QED
    BY <1>2, <1>3, <1>4 DEF Reschedule, MarkRepeaterStopped

(* A world that gets the focus is new to the bridge or was alive before,   *)
(* so that a repeater which stays bound keeps its tick to come.            *)
LEMMA ChainRefocus ==
  ASSUME TypeOK, ChainInv, NEW w \in WorldRef, Refocus(w)
  PROVE  ChainInv'
  <1> USE DEF TypeOK, RepeaterTypeOK, WorldsTypeOK
  <1>1. /\ opened' = opened \cup ({w} \cap World) /\ alive' = alive \cup ({w} \cap World)
        /\ w \in alive \cup (World \ opened) \cup {NoWorld}
        /\ UNCHANGED <<queued, tick>> /\ OnWorldFocused(w)
    BY DEF Refocus, FocusWorld, Focus, Rest
  <1>2. w \in opened' \cup {NoWorld} /\ opened \subseteq opened'
    BY <1>1 DEF WorldRef
  <1>3. CASE Unbind
    <2>1. cachedWorld' \in opened' \cup {NoWorld}
      BY <1>1, <1>2 DEF OnWorldFocused, ChainInv, OnlyOpened
    <2>2. \/ starting' = starting
          \/ starting' = [starting EXCEPT ![Engine] = At("ensure", w)]
      BY <1>1 DEF OnWorldFocused
    <2>3. ASSUME NEW t \in Thread
          PROVE  starting'[t].world \in opened' \cup {NoWorld}
      BY <1>2, <2>2 DEF ChainInv, OnlyOpened, At
    <2> QED
      BY <1>3, <2>1, <2>3 DEF Unbind, ChainInv, OnlyOpened, ChainNotLost
  <1>4. CASE KeepBound /\ UNCHANGED starting
    <2>1. UNCHANGED <<repeaterWorld, running, starting, queued, tick>>
      BY <1>1, <1>4 DEF KeepBound
    <2>2. cachedWorld' \in opened' \cup {NoWorld}
      BY <1>1, <1>2 DEF OnWorldFocused, ChainInv, OnlyOpened
    <2>3. OnlyOpened'
      BY <1>2, <2>1, <2>2 DEF ChainInv, OnlyOpened
    <2>4. repeaterWorld \in alive' => repeaterWorld \in alive
      BY <1>1 DEF ChainInv, OnlyOpened
    <2>5. TickComing(repeaterWorld) => TickComing(repeaterWorld)'
      BY <2>1 DEF TickComing
    <2> QED
      BY <2>1, <2>3, <2>4, <2>5 DEF ChainInv, ChainNotLost
  <1> QED
    BY <1>1, <1>3, <1>4 DEF OnWorldFocused, KeepBound

LEMMA ChainDestroy ==
  ASSUME TypeOK, ChainInv, NEW w \in World, Destroy(w)
  PROVE  ChainInv'
  <1>1. /\ UNCHANGED <<opened, cachedWorld, repeaterWorld, running, starting, tick>>
        /\ alive' = alive \ {w} /\ queued' = [queued EXCEPT ![w] = 0]
    BY DEF Destroy, DestroyWorld, Close, Rest
  <1>2. OnlyOpened'
    BY <1>1 DEF ChainInv, OnlyOpened
  <1>3. ASSUME repeaterWorld \in alive', TickComing(repeaterWorld)
        PROVE  TickComing(repeaterWorld)'
    <2>1. queued'[repeaterWorld] = queued[repeaterWorld]
      BY <1>1, <1>3 DEF TypeOK, RepeaterTypeOK, WorldsTypeOK
    <2> QED
      BY <1>1, <1>3, <2>1 DEF TickComing
  <1>4. repeaterWorld \in alive' => repeaterWorld \in alive
    BY <1>1
  <1> QED
    BY <1>1, <1>2, <1>3, <1>4 DEF ChainInv, ChainNotLost

LEMMA ChainDispose ==
  ASSUME TypeOK, ChainInv, Dispose
  PROVE  ChainInv'
  <1>1. CASE BeginDispose
    BY <1>1, ChainUnchanged DEF Dispose, BeginDispose, worldVars, Rest
  <1>2. CASE ClearOnDispose
    BY <1>2 DEF ClearOnDispose, Unbind, worldVars, ChainInv, OnlyOpened, ChainNotLost
  <1> QED
    BY <1>1, <1>2 DEF Dispose

LEMMA ChainNext == TypeOK /\ ChainInv /\ [Next]_vars => ChainInv'
  <1> SUFFICES ASSUME TypeOK, ChainInv, [Next]_vars PROVE ChainInv'
    OBVIOUS
  <1>1. CASE \/ \E s \in Stream, c \in Commands : Send(s, c)
             \/ \E s \in Stream : Exit(s) \/ Crash(s)
             \/ \E s \in Stream, reason \in {"graceful", "cancelled", "errored"} :
                  EndDrive(s, reason)
             \/ \E request \in SUBSET Flag : Reset(request)
             \/ UNCHANGED vars
    <2>1. UNCHANGED <<alive, opened, cachedWorld, repeaterWorld, running, queued, starting, tick>>
      BY <1>1 DEF Send, Exit, Crash, EndDrive, Reset, vars, worldVars, repeaterVars
    <2> QED
      BY <2>1, ChainUnchanged
  <1>2. CASE \E s \in Stream : DriveCommand(s)
    BY <1>2, ChainDrive
  <1>3. CASE \E t \in Thread : Start(t)
    BY <1>3, ChainStart
  <1>4. CASE \E w \in World : StopTick(w)
    <2>1. Unbind /\ UNCHANGED <<opened, cachedWorld, starting>>
      BY <1>4 DEF StopTick, worldVars
    <2> QED
      BY <2>1, ChainUnbind
  <1>5. CASE \E w \in World : BeginTick(w)
    BY <1>5, ChainBeginTick
  <1>6. CASE FinishTick
    BY <1>6, ChainFinishTick
  <1>7. CASE \E w \in WorldRef : Refocus(w)
    BY <1>7, ChainRefocus
  <1>8. CASE \E w \in World : Destroy(w)
    BY <1>8, ChainDestroy
  <1>9. CASE Dispose
    BY <1>9, ChainDispose
  <1> QED
    BY <1>1, <1>2, <1>3, <1>4, <1>5, <1>6, <1>7, <1>8, <1>9 DEF Next

(* The bridge never believes in a repeater that has no tick to come on a   *)
(* living world, for any number of worlds, threads and changes of focus.   *)
THEOREM RepeaterNeverLost == Spec => []ChainNotLost
  <1>1. Init => TypeOK /\ ChainInv
    BY InitType, ChainInit
  <1>2. TypeOK /\ ChainInv /\ [Next]_vars => TypeOK' /\ ChainInv'
    BY NextType, ChainNext
  <1>3. ChainInv => ChainNotLost
    BY DEF ChainInv
  <1> QED
    BY <1>1, <1>2, <1>3, PTL DEF Spec

-----------------------------------------------------------------------------
(* A reset holds until the next command.                                   *)

(* A pulse is Boolean valued: its half of the invariant is a predicate of  *)
(* its own, so that the two halves can be proved apart.                    *)
HeldReset  == \A g \in Group \ fresh :
                g \in pendingReset \/ (latest[g] = Neutral /\ tick.held[g] = Neutral)
PulseReset == Jump \in fresh \cup pendingReset \/ ~(jumpPending \/ tick.jump)

LEMMA ResetSplit == ResetHolds <=> HeldReset /\ PulseReset
  BY DEF ResetHolds, HeldReset, PulseReset

LEMMA ResetInit == Init => ResetHolds
  BY DEF Init, ResetHolds, NeutralState, NoTick

LEMMA ResetUnchanged ==
  ASSUME ResetHolds, UNCHANGED <<bridgeVars, tick, fresh>>
  PROVE  ResetHolds'
  BY DEF ResetHolds, bridgeVars

LEMMA ResetDrive ==
  ASSUME TypeOK, ResetHolds, NEW s \in Stream, DriveCommand(s)
  PROVE  ResetHolds'
  <1> DEFINE c == Head(wire[s])
  <1>1. UNCHANGED <<pendingReset, tick>> /\ SetState(s, c)
    BY DEF DriveCommand
  <1>2. CASE _disposed
    BY <1>1, <1>2, ResetUnchanged DEF SetState, bridgeVars
  <1>3. CASE ~_disposed
    <2>1. /\ latest' = MergeInto(c, latest)
          /\ jumpPending' = (jumpPending \/ c.jump)
          /\ fresh' = fresh \cup DOMAIN c.sets \cup (IF c.jump THEN {Jump} ELSE {})
      BY <1>1, <1>3 DEF SetState
    <2>2. HeldReset'
      <3> SUFFICES ASSUME NEW g \in Group \ fresh', g \notin pendingReset'
                   PROVE  latest'[g] = Neutral /\ tick'.held[g] = Neutral
        BY DEF HeldReset
      <3>1. g \in Group \ fresh /\ g \notin DOMAIN c.sets /\ g \notin pendingReset
        BY <1>1, <2>1
      <3>2. latest[g] = Neutral /\ tick.held[g] = Neutral
        BY <3>1 DEF ResetHolds
      <3> QED
        BY <1>1, <2>1, <3>1, <3>2 DEF MergeInto
    <2>3. PulseReset'
      <3>1. CASE c.jump
        BY <2>1, <3>1 DEF PulseReset
      <3>2. CASE ~c.jump
        <4>1. jumpPending' <=> jumpPending
          BY <2>1, <3>2
        <4>2. fresh \subseteq fresh'
          BY <2>1
        <4> QED
          BY <1>1, <4>1, <4>2, ResetSplit DEF PulseReset
      <3> QED
        BY <3>1, <3>2
    <2> QED
      BY <2>2, <2>3 DEF ResetHolds, HeldReset, PulseReset
  <1> QED
    BY <1>2, <1>3

(* What ends a stream or a Reset call adds to the pending flags at least   *)
(* what it removes from the commanded ones.                                *)
LEMMA ResetRequest ==
  ASSUME ResetHolds, NEW flags, ResetBridge(flags), UNCHANGED <<latest, jumpPending, tick>>
  PROVE  ResetHolds'
  BY DEF ResetHolds, ResetBridge

LEMMA ResetConsume ==
  ASSUME TypeOK, ResetHolds, Consume, UNCHANGED fresh,
         \/ tick' = NoTick
         \/ /\ tick'.held = ApplyReset(pendingReset, latest)
            /\ tick'.jump = (jumpPending /\ Jump \notin pendingReset)
  PROVE  ResetHolds'
  <1>1. ASSUME NEW g \in Group \ fresh
        PROVE  latest'[g] = Neutral /\ ApplyReset(pendingReset, latest)[g] = Neutral
    BY DEF Consume, ApplyReset, ResetHolds
  <1>2. HeldReset'
    BY <1>1 DEF HeldReset, NoTick, NeutralState
  <1>3. ~jumpPending'
    BY DEF Consume
  <1>4. Jump \in fresh \/ ~tick'.jump
    <2>1. CASE tick' = NoTick
      BY <2>1 DEF NoTick
    <2>2. CASE tick'.jump = (jumpPending /\ Jump \notin pendingReset)
      BY <2>2 DEF ResetHolds
    <2> QED
      BY <2>1, <2>2
  <1>5. PulseReset'
    BY <1>3, <1>4 DEF PulseReset
  <1> QED
    BY <1>2, <1>5 DEF ResetHolds, HeldReset, PulseReset

LEMMA ResetFinishTick ==
  ASSUME TypeOK, ResetHolds, FinishTick
  PROVE  ResetHolds'
  <1>1. /\ UNCHANGED <<latest, pendingReset, fresh>> /\ tick' = NoTick
        /\ jumpPending' = jumpPending \/ jumpPending' = (jumpPending \/ tick.jump)
    BY DEF FinishTick, ApplyToEngine, InputsMissing, NotSmooth, EndTick
  <1>2. HeldReset'
    BY <1>1 DEF HeldReset, ResetHolds, NoTick, NeutralState
  <1>3. ~tick'.jump
    BY <1>1 DEF NoTick
  <1>4. jumpPending' => jumpPending \/ tick.jump
    BY <1>1
  <1>5. PulseReset'
    BY <1>1, <1>3, <1>4 DEF PulseReset, ResetHolds
  <1> QED
    BY <1>2, <1>5 DEF ResetHolds, HeldReset, PulseReset

LEMMA ResetNext == TypeOK /\ ResetHolds /\ [Next]_vars => ResetHolds'
  <1> SUFFICES ASSUME TypeOK, ResetHolds, [Next]_vars PROVE ResetHolds'
    OBVIOUS
  <1>1. CASE \/ \E s \in Stream, c \in Commands : Send(s, c)
             \/ \E s \in Stream : Exit(s) \/ Crash(s)
             \/ \E t \in Thread : Start(t)
             \/ \E w \in World : Destroy(w)
             \/ \E w \in WorldRef : Refocus(w)
             \/ Dispose
             \/ UNCHANGED vars
    <2>1. UNCHANGED <<bridgeVars, tick, fresh>>
      BY <1>1 DEF Send, Exit, Crash, Start, Destroy, Refocus, Dispose, Rest, vars, historyVars
    <2> QED
      BY <2>1, ResetUnchanged
  <1>2. CASE \E s \in Stream : DriveCommand(s)
    BY <1>2, ResetDrive
  <1>3. CASE \E s \in Stream, reason \in {"graceful", "cancelled", "errored"} :
               EndDrive(s, reason)
    <2>1. UNCHANGED <<latest, jumpPending, tick>>
      BY <1>3 DEF EndDrive
    <2>2. UNCHANGED <<pendingReset, fresh>> \/ ResetBridge(Flag)
      BY <1>3 DEF EndDrive, NotifyDisconnect
    <2> QED
      BY <2>1, <2>2, ResetRequest, ResetUnchanged DEF bridgeVars
  <1>4. CASE \E request \in SUBSET Flag : Reset(request)
    <2>1. PICK request \in SUBSET Flag : Reset(request)
      BY <1>4
    <2> QED
      BY <2>1, ResetRequest DEF Reset
  <1>5. CASE \E w \in World : StopTick(w)
    <2>1. tick' = NoTick /\ UNCHANGED <<tick, fresh>> /\ (UNCHANGED bridgeVars \/ Consume)
      BY <1>5 DEF StopTick, historyVars
    <2> QED
      BY <2>1, ResetConsume, ResetUnchanged
  <1>6. CASE \E w \in World : BeginTick(w)
    <2>1. /\ Consume /\ UNCHANGED fresh
          /\ tick'.held = ApplyReset(pendingReset, latest)
          /\ tick'.jump = (jumpPending /\ Jump \notin pendingReset)
      BY <1>6 DEF BeginTick, historyVars
    <2> QED
      BY <2>1, ResetConsume
  <1>7. CASE FinishTick
    BY <1>7, ResetFinishTick
  <1> QED
    BY <1>1, <1>2, <1>3, <1>4, <1>5, <1>6, <1>7 DEF Next

(* A group stays neutral from its reset to the next command that sets it,  *)
(* or its reset is still to be applied, whatever the streams and ticks do. *)
THEOREM ResetStands == Spec => []ResetHolds
  <1>1. TypeOK /\ ResetHolds /\ [Next]_vars => TypeOK' /\ ResetHolds'
    BY NextType, ResetNext
  <1> QED
    BY <1>1, InitType, ResetInit, PTL DEF Spec

-----------------------------------------------------------------------------
(* A jump command is fired once at most.                                   *)

LEMMA PulseInit == Init => PulseOnce
  BY DEF Init, PulseOnce, NoTick

LEMMA PulseUnchanged ==
  ASSUME PulseOnce, UNCHANGED <<jumpPending, tick, jumpsSent, jumpsFired>>
  PROVE  PulseOnce'
  BY DEF PulseOnce

(* What the invariant needs of a step: pulses only move from a command to  *)
(* the latch, from the latch to a tick, and from there to the engine or    *)
(* back to the latch, where they merge with what it holds.                 *)
LEMMA PulseMoves ==
  ASSUME TypeOK, PulseOnce,
         \/ jumpsSent' = jumpsSent /\ UNCHANGED <<jumpsFired, tick>> /\ (jumpPending' => jumpPending)
         \/ jumpsSent' = jumpsSent + 1 /\ UNCHANGED <<jumpsFired, tick>>
         \/ /\ tick = NoTick /\ ~jumpPending' /\ (tick'.jump => jumpPending)
            /\ UNCHANGED <<jumpsSent, jumpsFired>>
         \/ /\ ~tick'.jump /\ jumpPending' = jumpPending /\ UNCHANGED jumpsSent
            /\ jumpsFired' = IF tick.jump THEN jumpsFired + 1 ELSE jumpsFired
         \/ /\ ~tick'.jump /\ (jumpPending' => jumpPending \/ tick.jump)
            /\ UNCHANGED <<jumpsSent, jumpsFired>>
  PROVE  PulseOnce'
  BY DEF TypeOK, HistoryTypeOK, PulseOnce, NoTick

LEMMA PulseDrive ==
  ASSUME TypeOK, PulseOnce, NEW s \in Stream, DriveCommand(s)
  PROVE  PulseOnce'
  <1> DEFINE c == Head(wire[s])
  <1>1. UNCHANGED <<jumpsFired, tick>> /\ SetState(s, c)
    BY DEF DriveCommand
  <1>2. CASE _disposed
    BY <1>1, <1>2, PulseUnchanged DEF SetState
  <1>3. CASE ~_disposed /\ c.jump
    BY <1>1, <1>3, PulseMoves DEF SetState
  <1>4. CASE ~_disposed /\ ~c.jump
    <2>1. jumpsSent' = jumpsSent /\ jumpPending' = (jumpPending \/ c.jump)
      BY <1>1, <1>4 DEF SetState
    <2>2. jumpPending' => jumpPending
      BY <1>4, <2>1
    <2> QED
      BY <1>1, <2>1, <2>2, PulseMoves
  <1> QED
    BY <1>2, <1>3, <1>4

LEMMA PulseBeginTick ==
  ASSUME TypeOK, PulseOnce, NEW w \in World, BeginTick(w)
  PROVE  PulseOnce'
  <1>1. tick = NoTick /\ ~jumpPending' /\ UNCHANGED <<jumpsSent, jumpsFired>>
    BY DEF BeginTick, Consume, historyVars
  <1>2. tick'.jump => jumpPending
    BY DEF BeginTick
  <1> QED
    BY <1>1, <1>2, PulseMoves

LEMMA PulseFinishTick ==
  ASSUME TypeOK, PulseOnce, FinishTick
  PROVE  PulseOnce'
  <1>1. ~tick'.jump /\ UNCHANGED jumpsSent
    BY DEF FinishTick, ApplyToEngine, InputsMissing, NotSmooth, EndTick, NoTick
  <1>2. CASE ApplyToEngine
    BY <1>1, <1>2, PulseMoves DEF ApplyToEngine
  <1>3. CASE InputsMissing \/ NotSmooth
    <2>1. UNCHANGED jumpsFired
      BY <1>3 DEF InputsMissing, NotSmooth
    <2>2. jumpPending' => jumpPending \/ tick.jump
      BY <1>3 DEF InputsMissing, NotSmooth
    <2> QED
      BY <1>1, <2>1, <2>2, PulseMoves
  <1> QED
    BY <1>2, <1>3 DEF FinishTick

LEMMA PulseNext == TypeOK /\ PulseOnce /\ [Next]_vars => PulseOnce'
  <1> SUFFICES ASSUME TypeOK, PulseOnce, [Next]_vars PROVE PulseOnce'
    OBVIOUS
  <1>1. CASE \/ \E s \in Stream, c \in Commands : Send(s, c)
             \/ \E s \in Stream : Exit(s) \/ Crash(s)
             \/ \E s \in Stream, reason \in {"graceful", "cancelled", "errored"} :
                  EndDrive(s, reason)
             \/ \E request \in SUBSET Flag : Reset(request)
             \/ \E t \in Thread : Start(t)
             \/ \E w \in World : Destroy(w)
             \/ \E w \in WorldRef : Refocus(w)
             \/ Dispose
             \/ UNCHANGED vars
    <2>1. UNCHANGED <<jumpPending, tick, jumpsSent, jumpsFired>>
      BY <1>1 DEF Send, Exit, Crash, EndDrive, Reset, Start, Destroy, Refocus, Dispose,
                  Rest, vars, bridgeVars, historyVars
    <2> QED
      BY <2>1, PulseUnchanged
  <1>2. CASE \E s \in Stream : DriveCommand(s)
    BY <1>2, PulseDrive
  <1>3. CASE \E w \in World : StopTick(w)
    <2>1. /\ UNCHANGED <<tick, jumpsSent, jumpsFired>>
          /\ jumpPending' = jumpPending \/ jumpPending' = FALSE
      BY <1>3 DEF StopTick, Consume, bridgeVars, historyVars
    <2>2. jumpPending' => jumpPending
      BY <2>1
    <2> QED
      BY <2>1, <2>2, PulseMoves
  <1>4. CASE \E w \in World : BeginTick(w)
    BY <1>4, PulseBeginTick
  <1>5. CASE FinishTick
    BY <1>5, PulseFinishTick
  <1> QED
    BY <1>1, <1>2, <1>3, <1>4, <1>5 DEF Next

(* However ticks and commands interleave, the engine jumps no more often   *)
(* than it was told to.                                                    *)
THEOREM PulseFiresOnce == Spec => []PulseOnce
  <1>1. TypeOK /\ PulseOnce /\ [Next]_vars => TypeOK' /\ PulseOnce'
    BY NextType, PulseNext
  <1> QED
    BY <1>1, InitType, PulseInit, PTL DEF Spec

-----------------------------------------------------------------------------
(* Dispose is final.                                                       *)

(* What Dispose leaves behind: nothing bound, so that no tick finds a      *)
(* world to go on with, and no thread can bind one again.                  *)
Cleared == disposal = "done" => ~running /\ repeaterWorld = NoWorld

LEMMA ClearedInit == Init => Cleared
  BY DEF Init, RepeaterInit, WorldsInit, Cleared

LEMMA ClearedStart ==
  ASSUME TypeOK, Cleared, NEW t \in Thread, Start(t)
  PROVE  Cleared'
  <1>1. disposal' = disposal
    BY DEF Start, StartRepeater, Ensure, Schedule, ScheduleFailed
  <1>2. CASE disposal = "done"
    <2>1. KeepBound \/ Unbind
      BY <1>2 DEF Start, StartRepeater, Ensure, Schedule, ScheduleFailed, _disposed, KeepBound
    <2> QED
      BY <1>1, <1>2, <2>1 DEF Cleared, KeepBound, Unbind
  <1>3. CASE disposal # "done"
    BY <1>1, <1>3 DEF Cleared
  <1> QED
    BY <1>2, <1>3

LEMMA ClearedFinishTick ==
  ASSUME TypeOK, Cleared, FinishTick
  PROVE  Cleared'
  <1>1. disposal' = disposal /\ Reschedule(tick.bound)
    BY DEF FinishTick, ApplyToEngine, InputsMissing, NotSmooth, EndTick
  <1>2. KeepBound \/ Unbind
    BY <1>1 DEF Reschedule, MarkRepeaterStopped
  <1> QED
    BY <1>1, <1>2 DEF Cleared, KeepBound, Unbind

LEMMA ClearedNext == TypeOK /\ Cleared /\ [Next]_vars => Cleared'
  <1> SUFFICES ASSUME TypeOK, Cleared, [Next]_vars PROVE Cleared'
    OBVIOUS
  <1>1. CASE \/ \E s \in Stream, c \in Commands : Send(s, c)
             \/ \E s \in Stream : Exit(s) \/ Crash(s) \/ DriveCommand(s)
             \/ \E s \in Stream, reason \in {"graceful", "cancelled", "errored"} :
                  EndDrive(s, reason)
             \/ \E request \in SUBSET Flag : Reset(request)
             \/ \E w \in World : BeginTick(w) \/ Destroy(w)
             \/ UNCHANGED vars
    <2>1. UNCHANGED <<disposal, running, repeaterWorld>>
      BY <1>1 DEF Send, Exit, Crash, DriveCommand, EndDrive, Reset, BeginTick, Destroy,
                  DestroyWorld, Close, vars, repeaterVars
    <2> QED
      BY <2>1 DEF Cleared
  <1>2. CASE \E t \in Thread : Start(t)
    BY <1>2, ClearedStart
  <1>3. CASE \E w \in World : StopTick(w)
    BY <1>3 DEF StopTick, Unbind, Cleared
  <1>4. CASE FinishTick
    BY <1>4, ClearedFinishTick
  <1>5. CASE \E w \in WorldRef : Refocus(w)
    BY <1>5 DEF Refocus, FocusWorld, Focus, OnWorldFocused, _disposed, Cleared
  <1>6. CASE Dispose
    BY <1>6 DEF Dispose, BeginDispose, ClearOnDispose, Unbind, Cleared
  <1> QED
    BY <1>1, <1>2, <1>3, <1>4, <1>5, <1>6 DEF Next

(* No step after Dispose takes a tick as far as the engine.                *)
LEMMA NoTickAfterDispose ==
  ASSUME TypeOK, Cleared, [Next]_vars, disposal = "done", tick = NoTick
  PROVE  tick' = NoTick
  <1>1. ASSUME NEW w \in World, BeginTick(w)
        PROVE  FALSE
    <2>1. BoundWorld = NoWorld
      BY DEF BoundWorld, _disposed
    <2>2. BoundWorld \in alive
      BY <1>1 DEF BeginTick, TickStops
    <2> QED
      BY <2>1, <2>2 DEF TypeOK, RepeaterTypeOK, WorldsTypeOK
  <1>2. CASE FinishTick
    BY <1>2 DEF FinishTick, ApplyToEngine, InputsMissing, NotSmooth, EndTick
  <1>3. CASE \/ \E s \in Stream, c \in Commands : Send(s, c)
             \/ \E s \in Stream : Exit(s) \/ Crash(s) \/ DriveCommand(s)
             \/ \E s \in Stream, reason \in {"graceful", "cancelled", "errored"} :
                  EndDrive(s, reason)
             \/ \E request \in SUBSET Flag : Reset(request)
             \/ \E t \in Thread : Start(t)
             \/ \E w \in World : StopTick(w) \/ Destroy(w)
             \/ \E w \in WorldRef : Refocus(w)
             \/ Dispose
             \/ UNCHANGED vars
    BY <1>3 DEF Send, Exit, Crash, DriveCommand, EndDrive, Reset, Start, StopTick,
                Destroy, Refocus, Dispose, Rest, vars
  <1> QED
    BY <1>1, <1>2, <1>3 DEF Next

(* After Dispose has returned nothing restarts the repeater and no tick    *)
(* sets out for the engine, whatever was queued; one that was on its way   *)
(* may still get there.                                                    *)
THEOREM DisposeFinal == Spec => DisposeIsFinal
  <1>1. TypeOK /\ Cleared /\ [Next]_vars => TypeOK' /\ Cleared'
    BY NextType, ClearedNext
  <1>2. TypeOK /\ Cleared /\ [Next]_vars
          => [disposal = "done" => ~running' /\ (tick = NoTick => tick' = NoTick)]_vars
    <2> SUFFICES ASSUME TypeOK, Cleared, [Next]_vars, disposal = "done"
                 PROVE  ~running' /\ (tick = NoTick => tick' = NoTick)
      OBVIOUS
    <2>1. disposal' = "done"
      BY DEF Next, Send, Exit, Crash, DriveCommand, EndDrive, Reset, Start, StartRepeater,
             Ensure, Schedule, ScheduleFailed, StopTick, BeginTick, Destroy, DestroyWorld, Close,
             FinishTick, ApplyToEngine, InputsMissing, NotSmooth, EndTick, Refocus, FocusWorld, Focus,
             Dispose, BeginDispose, ClearOnDispose, vars, repeaterVars
    <2>2. ~running'
      BY <2>1, ClearedNext DEF Cleared
    <2> QED
      BY <2>2, NoTickAfterDispose
  <1> QED
    BY <1>1, <1>2, InitType, ClearedInit, PTL DEF Spec, DisposeIsFinal

=============================================================================
