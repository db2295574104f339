---------------------------- MODULE GrabberProofs ----------------------------
(***************************************************************************)
(* Theorems about Grabber for every set of worlds, hands, buttons, objects *)
(* and calls, and every bound on changes of focus.                         *)
(***************************************************************************)
EXTENDS Grabber, FiniteSetTheorems, TLAPS

USE WorldsAssumption, DispatchAssumption, GrabberAssumption

-----------------------------------------------------------------------------
(* What a queue contains after something is put into it or taken out.      *)

In(x, s) == \E i \in DOMAIN s : s[i] = x
AtMostOnce(x, s) == \A i, j \in DOMAIN s : s[i] = x /\ s[j] = x => i = j

LEMMA Appending ==
  ASSUME NEW S, NEW s \in Seq(S), NEW e \in S
  PROVE  /\ Append(s, e) \in Seq(S)
         /\ \A x : In(x, Append(s, e)) <=> In(x, s) \/ x = e
         /\ \A x : AtMostOnce(x, s) /\ (x = e => ~In(x, s)) => AtMostOnce(x, Append(s, e))
  <1>1. /\ Append(s, e) \in Seq(S)
        /\ DOMAIN s = 1..Len(s)
        /\ DOMAIN Append(s, e) = 1..(Len(s) + 1)
        /\ Len(s) \in Nat
        /\ Append(s, e)[Len(s) + 1] = e
        /\ \A i \in 1..Len(s) : Append(s, e)[i] = s[i]
    OBVIOUS
  <1>2. \A i \in 1..(Len(s) + 1) : i \in 1..Len(s) \/ i = Len(s) + 1
    BY <1>1
  <1>3. \A i \in 1..Len(s) : i \in 1..(Len(s) + 1)
    BY <1>1
  <1>4. Len(s) + 1 \in 1..(Len(s) + 1)
    BY <1>1
  <1> DEFINE n == Len(s) + 1
             dom == 1..Len(s)
             longer == 1..(Len(s) + 1)
  <1>5. /\ \A i \in longer : i \in dom \/ i = n
        /\ \A i \in dom : i \in longer
        /\ n \in longer
        /\ DOMAIN s = dom /\ DOMAIN Append(s, e) = longer
        /\ Append(s, e)[n] = e /\ \A i \in dom : Append(s, e)[i] = s[i]
    BY <1>1, <1>2, <1>3, <1>4
  <1> HIDE DEF n, dom, longer
  <1>6. \A x : In(x, Append(s, e)) <=> In(x, s) \/ x = e
    BY <1>5 DEF In
  <1>7. ASSUME NEW x, AtMostOnce(x, s), x = e => ~In(x, s)
        PROVE  AtMostOnce(x, Append(s, e))
    BY <1>5, <1>7 DEF In, AtMostOnce
  <1> QED
    BY <1>1, <1>6, <1>7

LEMMA TakingOut ==
  ASSUME NEW S, NEW s \in Seq(S), s # <<>>
  PROVE  /\ Tail(s) \in Seq(S) /\ Head(s) \in S /\ In(Head(s), s)
         /\ \A x : In(x, s) <=> In(x, Tail(s)) \/ x = Head(s)
         /\ \A x : AtMostOnce(x, s) => AtMostOnce(x, Tail(s)) /\ (x = Head(s) => ~In(x, Tail(s)))
  <1>1. /\ Tail(s) \in Seq(S)
        /\ Head(s) \in S
        /\ Head(s) = s[1]
        /\ DOMAIN s = 1..Len(s)
        /\ DOMAIN Tail(s) = 1..(Len(s) - 1)
        /\ Len(s) \in Nat /\ Len(s) >= 1
        /\ \A i \in 1..(Len(s) - 1) : Tail(s)[i] = s[i + 1]
    OBVIOUS
  <1>2. 1 \in DOMAIN s
    BY <1>1
  <1>3. \A i \in DOMAIN Tail(s) : i + 1 \in DOMAIN s /\ i + 1 # 1 /\ Tail(s)[i] = s[i + 1]
    BY <1>1
  <1>4. \A i \in DOMAIN s : i # 1 => i - 1 \in DOMAIN Tail(s) /\ Tail(s)[i - 1] = s[i]
    BY <1>1
  <1>5. \A x : In(x, s) <=> In(x, Tail(s)) \/ x = Head(s)
    <2>1. ASSUME NEW x, In(x, s), x # Head(s)
          PROVE  In(x, Tail(s))
      BY <1>1, <1>4, <2>1 DEF In
    <2>2. ASSUME NEW x, In(x, Tail(s))
          PROVE  In(x, s)
      BY <1>3, <2>2 DEF In
    <2>3. In(Head(s), s)
      BY <1>1, <1>2 DEF In
    <2> QED
      BY <2>1, <2>2, <2>3
  <1>6. ASSUME NEW x, AtMostOnce(x, s)
        PROVE  AtMostOnce(x, Tail(s)) /\ (x = Head(s) => ~In(x, Tail(s)))
    <2>1. x = Head(s) => ~In(x, Tail(s))
      BY <1>1, <1>2, <1>3, <1>6 DEF In, AtMostOnce
    <2>2. ASSUME NEW i \in DOMAIN Tail(s), NEW j \in DOMAIN Tail(s), Tail(s)[i] = x, Tail(s)[j] = x
          PROVE  i = j
      <3>1. i + 1 = j + 1
        BY <1>3, <1>6, <2>2 DEF AtMostOnce
      <3>2. i \in Nat /\ j \in Nat
        BY <1>1
      <3> QED
        BY <3>1, <3>2
    <2> QED
      BY <2>1, <2>2 DEF AtMostOnce
  <1> QED
    BY <1>1, <1>5, <1>6

-----------------------------------------------------------------------------
(* Type correctness.                                                       *)

HoldTypeOK ==
  /\ held \subseteq Input
  /\ running \in BOOLEAN
  /\ holdGeneration \in Nat
  /\ disposal \in {"no", "flagged", "done"}
  /\ usedIn \in [Input -> WorldRef]

TickType == [gen : Nat, held : SUBSET Input, world : WorldRef]
StepType == [at : {"idle", "ensure", "schedule"}, world : WorldRef, gen : Nat,
             call : Call \cup {NoCall}]

EngineTypeOK ==
  /\ ticks \in [World -> Seq(Nat)]
  /\ tick \in TickType
  /\ step \in StepType

ObjectTypeOK ==
  /\ grabbed \subseteq Grabbed
  /\ equipped \subseteq [world : World, hand : Hand, object : Tool]
  /\ pins \subseteq Pin

LEMMA TypeParts ==
  TypeOK <=> WorldsTypeOK /\ DispatchTypeOK /\ HoldTypeOK /\ EngineTypeOK /\ ObjectTypeOK
  BY DEF TypeOK, HoldTypeOK, EngineTypeOK, ObjectTypeOK, TickType, StepType

LEMMA TypePartsNext ==
  (WorldsTypeOK /\ DispatchTypeOK /\ HoldTypeOK /\ EngineTypeOK /\ ObjectTypeOK)' => TypeOK'
  BY TypeParts, PTL

LEMMA NothingType == NoTick \in TickType /\ Idle \in StepType
  BY DEF NoTick, Idle, TickType, StepType, WorldRef

LEMMA SelectorType ==
  ASSUME NEW c \in Call
  PROVE  /\ ResolveSelector(c.hand) \in Hand
         /\ InputOf(c) \in Input
  BY DEF ResolveSelector, InputOf, Input

(* What a step leaves alone keeps its type. *)
LEMMA WorldsKeepType == ASSUME WorldsTypeOK, UNCHANGED worldVars PROVE WorldsTypeOK'
  BY DEF WorldsTypeOK, worldVars
LEMMA DispatchKeepsType == ASSUME DispatchTypeOK, UNCHANGED dispatchVars PROVE DispatchTypeOK'
  BY DEF DispatchTypeOK, dispatchVars
LEMMA HoldKeepsType == ASSUME HoldTypeOK, UNCHANGED <<holdVars, usedIn>> PROVE HoldTypeOK'
  BY DEF HoldTypeOK, holdVars
LEMMA EngineKeepsType == ASSUME EngineTypeOK, UNCHANGED engineVars PROVE EngineTypeOK'
  BY DEF EngineTypeOK, engineVars
LEMMA ObjectsKeepType == ASSUME ObjectTypeOK, UNCHANGED objectVars PROVE ObjectTypeOK'
  BY DEF ObjectTypeOK, objectVars

LEMMA GrabberInitType == Init => TypeOK
  <1> SUFFICES ASSUME Init PROVE TypeOK
    OBVIOUS
  <1>1. PICK w \in WorldRef : WorldsInit(w)
    BY DEF Init
  <1>2. WorldsTypeOK
    BY <1>1 DEF WorldsInit, WorldsTypeOK, WorldRef
  <1>3. <<>> \in Seq(Call) /\ <<>> \in Seq(Nat)
    OBVIOUS
  <1>4. DispatchTypeOK
    BY <1>3 DEF Init, DispatchInit, DispatchTypeOK, WorldRef
  <1>5. HoldTypeOK
    BY DEF Init, HoldTypeOK, WorldRef
  <1>6. EngineTypeOK
    BY <1>3, NothingType DEF Init, EngineTypeOK
  <1>7. ObjectTypeOK
    BY DEF Init, ObjectTypeOK
  <1> QED
    BY <1>2, <1>4, <1>5, <1>6, <1>7, TypeParts

LEMMA RpcType ==
  ASSUME DispatchTypeOK, NEW c \in Call, NEW outcome \in Outcome, TrySet(c, outcome)
  PROVE  rpc' \in [Call -> {"idle", "resolved", "awaiting"} \cup Outcome]
  BY DEF DispatchTypeOK, TrySet

LEMMA DispatchType ==
  ASSUME TypeOK, NEW c \in Call, Dispatch(c)
  PROVE  TypeOK'
  <1>1. WorldsTypeOK /\ DispatchTypeOK /\ HoldTypeOK /\ EngineTypeOK /\ ObjectTypeOK
    BY TypeParts
  <1>2. DispatchTypeOK'
    <2>1. CASE ResolveWorld(c)
      BY <1>1, <2>1 DEF DispatchTypeOK, WorldsTypeOK, ResolveWorld, Outcome, WorldRef
    <2>2. CASE RunOnEngine(c)
      <3>1. ASSUME target[c] \in alive
            PROVE  inbox' \in [World -> Seq(Call)]
        <4>1. target[c] \in World /\ inbox[target[c]] \in Seq(Call)
          BY <1>1, <3>1 DEF DispatchTypeOK, WorldsTypeOK
        <4>2. Append(inbox[target[c]], c) \in Seq(Call)
          BY <4>1, Appending
        <4> QED
          BY <1>1, <2>2, <3>1, <4>1, <4>2 DEF DispatchTypeOK, RunOnEngine
      <3> QED
        BY <1>1, <2>2, <3>1 DEF DispatchTypeOK, RunOnEngine
    <2>3. CASE CancelCall(c)
      BY <1>1, <2>3 DEF DispatchTypeOK, CancelCall, Outcome
    <2> QED
      BY <2>1, <2>2, <2>3 DEF Dispatch
  <1>3. WorldsTypeOK' /\ HoldTypeOK' /\ EngineTypeOK' /\ ObjectTypeOK'
    BY <1>1, WorldsKeepType, HoldKeepsType, EngineKeepsType, ObjectsKeepType
    DEF Dispatch, ResolveWorld, RunOnEngine, CancelCall
  <1> QED
    BY <1>2, <1>3, TypePartsNext

LEMMA TakenType ==
  ASSUME DispatchTypeOK, NEW w \in World, NEW c, TakeClosure(w, c)
  PROVE  inbox' \in [World -> Seq(Call)] /\ target' \in [Call -> WorldRef]
  <1>1. inbox[w] \in Seq(Call) /\ inbox[w] # <<>>
    BY DEF DispatchTypeOK, TakeClosure
  <1>2. Tail(inbox[w]) \in Seq(Call)
    BY <1>1, TakingOut
  <1> QED
    BY <1>2 DEF DispatchTypeOK, TakeClosure

(* Objects of the hand of a call, in the world that has the focus. *)
LEMMA ObjectsType ==
  ASSUME TypeOK, NEW w \in World, NEW c \in Call,
         GrabAsync(w, c) \/ ReleaseAsync(w, c) \/ EquipAsync(w, c) \/ DequipAsync(w, c)
  PROVE  ObjectTypeOK'
  <1>1. /\ grabbed \subseteq Grabbed /\ pins \subseteq Pin
        /\ equipped \subseteq [world : World, hand : Hand, object : Tool]
        /\ focused \in World
    BY DEF TypeOK, WorldsTypeOK, WorldRef, Body, GrabAsync, ReleaseAsync, EquipAsync, DequipAsync
  <1>2. ResolveSelector(c.hand) \in Hand
    BY SelectorType
  <1> HIDE DEF ResolveSelector
  <1>3. CASE GrabAsync(w, c)
    <2> DEFINE taken(S) == {[world |-> focused, hand |-> ResolveSelector(c.hand), object |-> o] : o \in S}
               pinned(S) == {[world |-> focused, hand |-> ResolveSelector(c.hand), object |-> o,
                              left |-> PinUpdates] : o \in S}
    <2>0. PICK S \in SUBSET Grabbable(c) : \E P \in SUBSET S :
            /\ grabbed' = {g \in grabbed : g.object \notin S} \cup taken(S)
            /\ pins' = pins \cup pinned(P)
      BY <1>3 DEF GrabAsync
    <2>1. PICK P \in SUBSET S :
            /\ grabbed' = {g \in grabbed : g.object \notin S} \cup taken(S)
            /\ pins' = pins \cup pinned(P)
      BY <2>0
    <2>2. S \subseteq Object
      BY DEF Grabbable
    <2>3. taken(S) \subseteq Grabbed
      BY <1>1, <1>2, <2>2 DEF Grabbed
    <2>4. pinned(P) \subseteq Pin
      <3>1. PinUpdates \in 1..PinUpdates
        OBVIOUS
      <3> QED
        BY <1>1, <1>2, <2>2, <3>1 DEF Pin
    <2>5. grabbed' \subseteq Grabbed /\ pins' \subseteq Pin
      <3> HIDE DEF taken, pinned
      <3> QED
        BY <1>1, <2>1, <2>3, <2>4
    <2> QED
      BY <1>1, <1>3, <2>5 DEF GrabAsync, ObjectTypeOK
  <1>4. CASE ReleaseAsync(w, c)
    BY <1>1, <1>4 DEF ReleaseAsync, ObjectTypeOK
  <1>5. CASE EquipAsync(w, c)
    <2>1. ASSUME NEW g \in InHand(c), NEW outcome, g.object \in Tool, HandOver(g, outcome)
          PROVE  grabbed' \subseteq Grabbed
                 /\ equipped' \subseteq [world : World, hand : Hand, object : Tool]
      <3>1. g.world \in World /\ g.hand \in Hand
        BY <1>1 DEF InHand, Grabbed
      <3>2. PutOn(g) \subseteq [world : World, hand : Hand, object : Tool]
        BY <1>1, <2>1, <3>1 DEF PutOn, TakenOff
      <3> QED
        BY <1>1, <2>1, <3>2 DEF HandOver, TakenOff
    <2>2. UNCHANGED pins
      BY <1>5 DEF EquipAsync
    <2> QED
      BY <1>1, <1>5, <2>1, <2>2 DEF EquipAsync, ObjectTypeOK
  <1>6. CASE DequipAsync(w, c)
    BY <1>1, <1>6 DEF DequipAsync, ObjectTypeOK
  <1> QED
    BY <1>3, <1>4, <1>5, <1>6

LEMMA BodyType ==
  ASSUME TypeOK, NEW w \in World, NEW c \in Call, NotReadyBody(w, c) \/ RunBody(w, c)
  PROVE  TypeOK'
  <1>1. WorldsTypeOK /\ DispatchTypeOK /\ HoldTypeOK /\ EngineTypeOK /\ ObjectTypeOK
    BY TypeParts
  <1>2. /\ UNCHANGED worldVars /\ TakeClosure(w, c)
        /\ \/ UNCHANGED rpc
           \/ TrySet(c, "ok") \/ TrySet(c, "not_ready") \/ TrySet(c, "failed")
    BY DEF NotReadyBody, RunBody, Body, UseAsync, UnuseAsync, GrabAsync, ReleaseAsync, EquipAsync, DequipAsync
  <1>3. DispatchTypeOK'
    <2>1. rpc' \in [Call -> {"idle", "resolved", "awaiting"} \cup Outcome]
      <3>1. "ok" \in Outcome /\ "not_ready" \in Outcome /\ "failed" \in Outcome
        BY DEF Outcome
      <3> QED
        BY <1>1, <1>2, <3>1, RpcType DEF DispatchTypeOK
    <2> QED
      BY <1>1, <1>2, <2>1, TakenType DEF DispatchTypeOK
  <1>4. HoldTypeOK' /\ EngineTypeOK' /\ ObjectTypeOK'
    <2>1. CASE UseAsync(w, c)
      <3>1. InputOf(c) \in Input /\ focused \in WorldRef
        BY <1>1, SelectorType DEF WorldsTypeOK
      <3>2. step' \in StepType
        BY <2>1, <3>1 DEF UseAsync, StepType
      <3>3. HoldTypeOK'
        BY <1>1, <2>1, <3>1 DEF UseAsync, HoldTypeOK
      <3> QED
        BY <1>1, <2>1, <3>2, <3>3, ObjectsKeepType DEF UseAsync, EngineTypeOK
    <2>2. CASE UnuseAsync(w, c)
      <3>1. HoldTypeOK'
        BY <1>1, <2>2 DEF UnuseAsync, HoldTypeOK
      <3> QED
        BY <1>1, <2>2, <3>1, EngineKeepsType, ObjectsKeepType DEF UnuseAsync
    <2>3. CASE GrabAsync(w, c) \/ ReleaseAsync(w, c) \/ EquipAsync(w, c) \/ DequipAsync(w, c)
      <3>1. ObjectTypeOK'
        BY <2>3, ObjectsType
      <3> QED
        BY <1>1, <2>3, <3>1, EngineKeepsType, HoldKeepsType
        DEF GrabAsync, ReleaseAsync, EquipAsync, DequipAsync
    <2>4. CASE NotReadyBody(w, c)
      BY <1>1, <2>4, EngineKeepsType, HoldKeepsType, ObjectsKeepType DEF NotReadyBody
    <2> QED
      BY <2>1, <2>2, <2>3, <2>4 DEF RunBody
  <1> QED
    <2>1. WorldsTypeOK'
      BY <1>1, <1>2, WorldsKeepType
    <2> QED
      BY <1>3, <1>4, <2>1, TypePartsNext

LEMMA PinType ==
  ASSUME TypeOK, NEW p \in pins, PinStep(p)
  PROVE  TypeOK'
  <1>1. WorldsTypeOK /\ DispatchTypeOK /\ HoldTypeOK /\ EngineTypeOK /\ ObjectTypeOK
    BY TypeParts
  <1>2. p \in Pin /\ pins \subseteq Pin
    BY <1>1 DEF ObjectTypeOK
  <1>3. p.left > 1 => [p EXCEPT !.left = @ - 1] \in Pin
    <2>1. p.left \in 1..PinUpdates /\ PinUpdates \in Nat
      BY <1>2 DEF Pin
    <2>2. p.left > 1 => p.left - 1 \in 1..PinUpdates
      BY <2>1
    <2> QED
      BY <1>2, <2>2 DEF Pin
  <1>4. pins' \subseteq Pin
    BY <1>2, <1>3 DEF PinStep
  <1>5. ObjectTypeOK'
    BY <1>1, <1>4 DEF PinStep, ObjectTypeOK
  <1>6. WorldsTypeOK' /\ DispatchTypeOK' /\ HoldTypeOK' /\ EngineTypeOK'
    BY <1>1, WorldsKeepType, DispatchKeepsType, HoldKeepsType, EngineKeepsType DEF PinStep
  <1> QED
    BY <1>5, <1>6, TypePartsNext

(* A tick that is taken leaves the rest of the queue. *)
LEMMA TakenTickType ==
  ASSUME EngineTypeOK, NEW w \in World, TakeTick(w)
  PROVE  /\ ticks' \in [World -> Seq(Nat)] /\ Head(ticks[w]) \in Nat
         /\ In(Head(ticks[w]), ticks[w])
         /\ ticks'[w] = Tail(ticks[w]) /\ \A v \in World \ {w} : ticks'[v] = ticks[v]
  <1>1. ticks \in [World -> Seq(Nat)] /\ ticks[w] \in Seq(Nat) /\ ticks[w] # <<>>
    BY DEF EngineTypeOK, TakeTick
  <1>2. Tail(ticks[w]) \in Seq(Nat) /\ Head(ticks[w]) \in Nat /\ In(Head(ticks[w]), ticks[w])
    BY <1>1, TakingOut
  <1> QED
    BY <1>1, <1>2 DEF TakeTick

LEMMA RepeaterType ==
  ASSUME TypeOK,
         \/ EnsureRepeaterStarted \/ TryScheduleTick \/ FinishTick
         \/ \E w \in World : LastTick(w) \/ BeginTick(w)
  PROVE  TypeOK'
  <1>1. WorldsTypeOK /\ DispatchTypeOK /\ HoldTypeOK /\ EngineTypeOK /\ ObjectTypeOK
    BY TypeParts
  <1>2. /\ ticks \in [World -> Seq(Nat)] /\ tick \in TickType /\ step \in StepType
        /\ holdGeneration \in Nat /\ running \in BOOLEAN
    BY <1>1 DEF EngineTypeOK, HoldTypeOK
  <1>3. UNCHANGED <<worldVars, objectVars>>
    BY DEF EnsureRepeaterStarted, TryScheduleTick, FinishTick, LastTick, BeginTick
  <1>4. ASSUME Return, UNCHANGED <<target, inbox>>
        PROVE  DispatchTypeOK'
    <2>1. step.call \in Call \cup {NoCall} /\ "ok" \in Outcome
      BY <1>2 DEF StepType, Outcome
    <2>2. rpc' \in [Call -> {"idle", "resolved", "awaiting"} \cup Outcome]
      BY <1>1, <1>4, <2>1, RpcType DEF Return, DispatchTypeOK
    <2> QED
      BY <1>1, <1>4, <2>2 DEF DispatchTypeOK
  <1>5. CASE EnsureRepeaterStarted
    <2>1. DispatchTypeOK'
      BY <1>1, <1>4, <1>5, DispatchKeepsType DEF EnsureRepeaterStarted, dispatchVars
    <2>2. holdGeneration + 1 \in Nat
      BY <1>2
    <2>3. step' \in StepType
      <3>1. [step EXCEPT !.at = "schedule", !.gen = holdGeneration + 1] \in StepType
        BY <1>2, <2>2 DEF StepType
      <3> QED
        BY <1>5, <3>1, NothingType DEF EnsureRepeaterStarted
    <2>4. holdGeneration' \in Nat /\ running' \in BOOLEAN /\ UNCHANGED <<held, disposal, usedIn, ticks, tick>>
      BY <1>2, <1>5, <2>2 DEF EnsureRepeaterStarted
    <2>5. HoldTypeOK' /\ EngineTypeOK'
      BY <1>1, <2>3, <2>4 DEF HoldTypeOK, EngineTypeOK
    <2> QED
      BY <1>1, <1>3, <2>1, <2>5, WorldsKeepType, ObjectsKeepType, TypePartsNext
  <1>6. CASE TryScheduleTick
    <2>1. DispatchTypeOK'
      BY <1>4, <1>6 DEF TryScheduleTick
    <2>2. ticks' \in [World -> Seq(Nat)]
      <3>1. CASE step.world \in alive /\ ticks' = [ticks EXCEPT ![step.world] = Append(@, step.gen)]
        <4>1. step.world \in World /\ step.gen \in Nat
          BY <1>1, <1>2, <3>1 DEF WorldsTypeOK, StepType
        <4>2. Append(ticks[step.world], step.gen) \in Seq(Nat)
          BY <1>2, <4>1, Appending
        <4> QED
          BY <1>2, <3>1, <4>1, <4>2
      <3>2. CASE UNCHANGED ticks
        BY <1>2, <3>2
      <3> QED
        BY <1>6, <3>1, <3>2 DEF TryScheduleTick
    <2>3. running' \in BOOLEAN
      BY <1>2, <1>6 DEF TryScheduleTick
    <2>4. HoldTypeOK' /\ EngineTypeOK'
      BY <1>1, <1>2, <1>6, <2>2, <2>3, NothingType DEF TryScheduleTick, HoldTypeOK, EngineTypeOK
    <2> QED
      BY <1>1, <1>3, <2>1, <2>4, WorldsKeepType, ObjectsKeepType, TypePartsNext
  <1>7. CASE FinishTick
    <2>1. tick.world \in WorldRef /\ tick.gen \in Nat
      BY <1>2 DEF TickType
    <2>2. step' \in StepType /\ running' \in BOOLEAN
      <3>1. [at |-> "schedule", world |-> tick.world, gen |-> tick.gen, call |-> NoCall] \in StepType
        BY <2>1 DEF StepType
      <3>2. step' \in StepType
        BY <1>2, <1>7, <3>1 DEF FinishTick
      <3>3. running' \in BOOLEAN
        BY <1>2, <1>7 DEF FinishTick
      <3> QED
        BY <3>2, <3>3
    <2>3. HoldTypeOK' /\ EngineTypeOK' /\ DispatchTypeOK'
      BY <1>1, <1>2, <1>7, <2>2, NothingType, DispatchKeepsType
      DEF FinishTick, HoldTypeOK, EngineTypeOK
    <2> QED
      BY <1>1, <1>3, <2>3, WorldsKeepType, ObjectsKeepType, TypePartsNext
  <1>8. ASSUME NEW w \in World, LastTick(w) \/ BeginTick(w)
        PROVE  TypeOK'
    <2>1. ticks' \in [World -> Seq(Nat)] /\ Head(ticks[w]) \in Nat
      BY <1>1, <1>8, TakenTickType DEF LastTick, BeginTick
    <2>2. tick' \in TickType
      <3>1. held \in SUBSET Input /\ focused \in WorldRef
        BY <1>1 DEF HoldTypeOK, WorldsTypeOK
      <3> QED
        BY <1>2, <1>8, <2>1, <3>1 DEF LastTick, BeginTick, TickType
    <2>3. running' \in BOOLEAN
      BY <1>2, <1>8 DEF LastTick, BeginTick, holdVars
    <2>4. HoldTypeOK' /\ EngineTypeOK' /\ DispatchTypeOK'
      BY <1>1, <1>2, <1>8, <2>1, <2>2, <2>3, DispatchKeepsType
      DEF LastTick, BeginTick, holdVars, HoldTypeOK, EngineTypeOK
    <2> QED
      BY <1>1, <1>3, <2>4, WorldsKeepType, ObjectsKeepType, TypePartsNext
  <1> QED
    BY <1>5, <1>6, <1>7, <1>8

LEMMA DropType ==
  ASSUME HoldTypeOK, DropHolds, disposal' \in {"no", "flagged", "done"}, UNCHANGED usedIn
  PROVE  HoldTypeOK'
  <1>1. holdGeneration + 1 \in Nat
    BY DEF HoldTypeOK
  <1> QED
    BY <1>1 DEF DropHolds, HoldTypeOK

LEMMA FocusType ==
  ASSUME TypeOK, NEW w \in WorldRef, Refocus(w)
  PROVE  TypeOK'
  <1>1. WorldsTypeOK /\ DispatchTypeOK /\ HoldTypeOK /\ EngineTypeOK /\ ObjectTypeOK
    BY TypeParts
  <1>2. WorldsTypeOK'
    BY <1>1 DEF Refocus, Focus, WorldsTypeOK, WorldRef
  <1>3. HoldTypeOK'
    <2>1. CASE UNCHANGED <<held, running, holdGeneration>>
      BY <1>1, <2>1 DEF Refocus, HoldTypeOK
    <2>2. CASE DropHolds
      <3>1. disposal' \in {"no", "flagged", "done"} /\ UNCHANGED usedIn
        BY <1>1 DEF Refocus, HoldTypeOK
      <3> QED
        BY <1>1, <2>2, <3>1, DropType
    <2> QED
      BY <2>1, <2>2 DEF Refocus, OnWorldFocused
  <1> QED
    BY <1>1, <1>2, <1>3, DispatchKeepsType, EngineKeepsType, ObjectsKeepType, TypePartsNext
    DEF Refocus

LEMMA CloseType ==
  ASSUME TypeOK, NEW w \in World, CloseWorld(w)
  PROVE  TypeOK'
  <1>1. WorldsTypeOK /\ DispatchTypeOK /\ HoldTypeOK /\ EngineTypeOK /\ ObjectTypeOK
    BY TypeParts
  <1>2. <<>> \in Seq(Call) /\ <<>> \in Seq(Nat)
    OBVIOUS
  <1>3. WorldsTypeOK'
    BY <1>1 DEF CloseWorld, Close, WorldsTypeOK, WorldRef
  <1>4. DispatchTypeOK'
    BY <1>1, <1>2 DEF CloseWorld, CloseInbox, DispatchTypeOK
  <1>5. EngineTypeOK'
    BY <1>1, <1>2 DEF CloseWorld, EngineTypeOK
  <1>6. ObjectTypeOK'
    BY <1>1 DEF CloseWorld, ObjectTypeOK
  <1> QED
    BY <1>1, <1>3, <1>4, <1>5, <1>6, HoldKeepsType, TypePartsNext DEF CloseWorld

LEMMA DisposeType ==
  ASSUME TypeOK, BeginDispose \/ ClearOnDispose
  PROVE  TypeOK'
  <1>1. WorldsTypeOK /\ DispatchTypeOK /\ HoldTypeOK /\ EngineTypeOK /\ ObjectTypeOK
    BY TypeParts
  <1>2. HoldTypeOK'
    <2>1. CASE BeginDispose
      BY <1>1, <2>1 DEF BeginDispose, HoldTypeOK
    <2>2. CASE ClearOnDispose
      BY <1>1, <2>2, DropType DEF ClearOnDispose
    <2> QED
      BY <2>1, <2>2
  <1> QED
    BY <1>1, <1>2, WorldsKeepType, DispatchKeepsType, EngineKeepsType, ObjectsKeepType, TypePartsNext
    DEF BeginDispose, ClearOnDispose

LEMMA GrabberNextType == TypeOK /\ [Next]_vars => TypeOK'
  <1>1. UNCHANGED vars /\ TypeOK => TypeOK'
    BY TypeParts, TypePartsNext,
       WorldsKeepType, DispatchKeepsType, HoldKeepsType, EngineKeepsType, ObjectsKeepType
    DEF vars
  <1> QED
    BY <1>1, DispatchType, BodyType, PinType, RepeaterType, FocusType, CloseType, DisposeType
    DEF Next

(* The bridge's fields, its ticks and what hands hold stay well typed.     *)
THEOREM GrabberTypeCorrect == Spec => []TypeOK
  BY GrabberInitType, GrabberNextType, PTL DEF Spec

-----------------------------------------------------------------------------
(* The ticks: what every step keeps of them.                               *)

LiveQueued   == \E w \in World : In(holdGeneration, ticks[w])
LiveRunning  == tick # NoTick /\ tick.gen = holdGeneration
LiveStarting == step.at = "schedule" /\ step.gen = holdGeneration
Live == LiveQueued \/ LiveRunning \/ LiveStarting

(* No tick is of a generation still to come. *)
GenerationsPast ==
  /\ \A w \in World : \A g \in Nat : In(g, ticks[w]) => g <= holdGeneration
  /\ tick.gen <= holdGeneration /\ step.gen <= holdGeneration

(* A tick runs to its end before another step of the engine, and has       *)
(* something to inject.                                                    *)
TicksRunAlone == tick # NoTick => step = Idle /\ tick.held # {}

(* There is one live tick at most; while a tick runs, superseded or not,   *)
(* no other is live.                                                       *)
OneLiveTick ==
  /\ \A w \in World : AtMostOnce(holdGeneration, ticks[w])
  /\ \A v, w \in World :
       In(holdGeneration, ticks[v]) /\ In(holdGeneration, ticks[w]) => v = w
  /\ LiveQueued => tick = NoTick /\ ~LiveStarting

(* Whoever lowers the flag ends the live tick, and the other way round as  *)
(* long as no world closed under it.                                       *)
FlagTellsLive ==
  /\ Live => running
  /\ running /\ focused # NoWorld /\ ~_disposed => Live

(* The live tick is in the world that has the focus. *)
LiveInFocus ==
  /\ focused # NoWorld => focused \in alive
  /\ focused # NoWorld /\ step.at = "ensure" => step.world = focused
  /\ focused # NoWorld /\ ~_disposed =>
       /\ \A w \in World : In(holdGeneration, ticks[w]) => w = focused
       /\ LiveRunning => tick.world = focused
       /\ LiveStarting => step.world = focused

HeldIsLive ==
  held # {} /\ focused # NoWorld /\ ~_disposed /\ step.at # "ensure" => Live

HoldInv ==
  /\ GenerationsPast /\ TicksRunAlone /\ OneLiveTick
  /\ FlagTellsLive /\ LiveInFocus /\ HeldIsLive /\ HoldsStayInWorld

(* How a step moves the ticks: the live one at most ends, a live one comes *)
(* where there was none, it begins to inject, or a tick has injected.      *)
TickEnds ==
  /\ tick' = tick
  /\ Live' => Live /\ (LiveRunning' <=> LiveRunning)
TickStarts == tick = NoTick /\ tick' = NoTick /\ ~Live /\ Live'
TickBegins ==
  /\ tick = NoTick /\ Live /\ LiveRunning'
  /\ tick'.held \in SUBSET Input /\ tick'.held # {}
TickFinishes ==
  /\ tick # NoTick /\ tick' = NoTick
  /\ Live => LiveRunning
  /\ Live' => Live

(* What the leaves below need to know of the types. *)
LEMMA EngineTypes ==
  ASSUME TypeOK
  PROVE  /\ ticks \in [World -> Seq(Nat)] /\ \A w \in World : ticks[w] \in Seq(Nat)
         /\ holdGeneration \in Nat /\ running \in BOOLEAN
         /\ tick.gen \in Nat /\ step.gen \in Nat
         /\ tick \in TickType /\ step \in StepType
         /\ held \subseteq Input /\ usedIn \in [Input -> WorldRef]
         /\ focused \in WorldRef /\ alive \subseteq World
  BY DEF TypeOK, WorldsTypeOK, TickType, StepType

LEMMA IdleFields ==
  /\ Idle.at = "idle" /\ Idle.gen = 0 /\ Idle.world = NoWorld /\ Idle.call = NoCall
  /\ NoTick.gen = 0 /\ NoTick.held = {} /\ NoTick.world = NoWorld
  BY DEF Idle, NoTick

(* A generation that is new is that of no tick. *)
LEMMA NewGeneration ==
  ASSUME TypeOK, GenerationsPast, NEW g \in Nat, g = holdGeneration + 1
  PROVE  /\ \A w \in World : ~In(g, ticks[w])
         /\ tick.gen # g /\ step.gen # g
         /\ \A w \in World : \A h \in Nat : In(h, ticks[w]) => h <= g
         /\ tick.gen <= g /\ step.gen <= g
  <1>1. holdGeneration \in Nat /\ tick.gen \in Nat /\ step.gen \in Nat
    BY EngineTypes
  <1>2. \A h \in Nat : h <= holdGeneration => h <= g /\ h # g
    BY <1>1
  <1> QED
    BY <1>1, <1>2 DEF GenerationsPast

(* Nothing of a generation: at most once, and in one place.                *)
LEMMA NoneIsOne ==
  ASSUME NEW g, NEW s, ~In(g, s)
  PROVE  AtMostOnce(g, s)
  BY DEF In, AtMostOnce

(* Dropping the buttons supersedes every tick. *)
LEMMA DropSupersedes ==
  ASSUME TypeOK, GenerationsPast, DropHolds, UNCHANGED engineVars
  PROVE  GenerationsPast' /\ OneLiveTick' /\ ~Live'
  <1>1. PICK g \in Nat : g = holdGeneration + 1 /\ g = holdGeneration'
    BY EngineTypes DEF DropHolds
  <1>2. /\ \A w \in World : ~In(g, ticks[w])
        /\ tick.gen # g /\ step.gen # g
        /\ \A w \in World : \A h \in Nat : In(h, ticks[w]) => h <= g
        /\ tick.gen <= g /\ step.gen <= g
    BY <1>1, NewGeneration
  <1>3. ticks' = ticks /\ tick' = tick /\ step' = step /\ holdGeneration' = g
    BY <1>1 DEF engineVars
  <1>4. ~Live'
    BY <1>2, <1>3 DEF Live, LiveQueued, LiveRunning, LiveStarting
  <1>5. GenerationsPast'
    BY <1>2, <1>3 DEF GenerationsPast
  <1>6. OneLiveTick'
    <2>1. \A w \in World : AtMostOnce(g, ticks[w])
      BY <1>2, NoneIsOne
    <2> QED
      BY <1>2, <1>3, <1>4, <2>1 DEF OneLiveTick, Live
  <1> QED
    BY <1>4, <1>5, <1>6

(* Steps that leave the ticks and the focus alone.                         *)
LEMMA HoldUnchanged ==
  ASSUME HoldInv, UNCHANGED <<worldVars, holdVars, engineVars, usedIn>>
  PROVE  HoldInv' /\ TickEnds
  BY DEF TickEnds, HoldInv, GenerationsPast, TicksRunAlone, OneLiveTick, FlagTellsLive, LiveInFocus, HeldIsLive,
         HoldsStayInWorld, Live, LiveQueued, LiveRunning, LiveStarting, _disposed,
         worldVars, holdVars, engineVars

LEMMA UnuseHold ==
  ASSUME HoldInv, NEW w \in World, NEW c \in Call, UnuseAsync(w, c)
  PROVE  HoldInv' /\ TickEnds
  <1>1. /\ held' \subseteq held
        /\ UNCHANGED <<alive, focused, running, holdGeneration, disposal, ticks, tick, step, usedIn>>
    BY DEF UnuseAsync, Body, worldVars, engineVars
  <1> QED
    BY <1>1
    DEF TickEnds, HoldInv, GenerationsPast, TicksRunAlone, OneLiveTick, FlagTellsLive, LiveInFocus, HeldIsLive,
        HoldsStayInWorld, Live, LiveQueued, LiveRunning, LiveStarting, _disposed

(* Use adds a button, and the rest of its body is still to come.           *)
LEMMA UseHold ==
  ASSUME TypeOK, HoldInv, NEW w \in World, NEW c \in Call, UseAsync(w, c)
  PROVE  HoldInv' /\ TickEnds
  <1> DEFINE i == InputOf(c)
  <1>1. i \in Input
    BY SelectorType
  <1> HIDE DEF i
  <1>2. /\ tick = NoTick /\ step = Idle /\ focused # NoWorld
        /\ held' = held \cup {i} /\ usedIn' = [usedIn EXCEPT ![i] = focused]
        /\ step' = [at |-> "ensure", world |-> focused, gen |-> 0, call |-> c]
        /\ UNCHANGED <<alive, focused, running, holdGeneration, disposal, ticks, tick>>
    BY DEF UseAsync, Body, EngineIdle, worldVars, i
  <1>3. step'.at = "ensure" /\ step'.gen = 0 /\ step'.world = focused
    BY <1>2
  <1>4. ~LiveStarting /\ ~LiveStarting' /\ ~LiveRunning /\ ~LiveRunning'
        /\ (LiveQueued' <=> LiveQueued) /\ (Live' <=> Live)
    BY <1>2, <1>3, IdleFields DEF Live, LiveQueued, LiveRunning, LiveStarting
  <1>5. GenerationsPast'
    BY <1>2, <1>3, EngineTypes DEF HoldInv, GenerationsPast
  <1>6. TicksRunAlone' /\ OneLiveTick'
    BY <1>2, <1>4 DEF HoldInv, TicksRunAlone, OneLiveTick
  <1>7. FlagTellsLive' /\ HeldIsLive'
    BY <1>2, <1>3, <1>4 DEF HoldInv, FlagTellsLive, HeldIsLive, _disposed
  <1>8. LiveInFocus'
    BY <1>2, <1>3, <1>4 DEF HoldInv, LiveInFocus, _disposed
  <1>9. HoldsStayInWorld'
    <2>1. ASSUME focused # NoWorld, ~_disposed, NEW j \in held'
          PROVE  usedIn'[j] = focused
      <3>1. j = i \/ (j \in held /\ usedIn[j] = focused)
        BY <1>2, <2>1 DEF HoldInv, HoldsStayInWorld
      <3> QED
        BY <1>1, <1>2, <3>1, EngineTypes
    <2>2. tick'.held = {}
      BY <1>2, IdleFields
    <2> QED
      BY <1>2, <2>1, <2>2 DEF HoldsStayInWorld, _disposed
  <1> QED
    BY <1>2, <1>4, <1>5, <1>6, <1>7, <1>8, <1>9 DEF HoldInv, TickEnds

(* EnsureRepeaterStarted starts a tick of a new generation, unless the one *)
(* that runs is live.                                                      *)
LEMMA EnsureHold ==
  ASSUME TypeOK, HoldInv, EnsureRepeaterStarted
  PROVE  HoldInv' /\ (TickEnds \/ TickStarts)
  <1>1. /\ step.at = "ensure" /\ tick = NoTick
        /\ UNCHANGED <<alive, focused, held, disposal, ticks, tick, usedIn>>
    BY IdleFields DEF EnsureRepeaterStarted, HoldInv, TicksRunAlone, worldVars
  <1>2. HoldsStayInWorld'
    BY <1>1 DEF HoldInv, HoldsStayInWorld, _disposed
  <1>3. CASE _disposed \/ running
    <2>1. step' = Idle /\ UNCHANGED <<running, holdGeneration>>
      BY <1>3 DEF EnsureRepeaterStarted
    <2>2. /\ ~LiveStarting /\ ~LiveStarting' /\ ~LiveRunning /\ ~LiveRunning'
          /\ (LiveQueued' <=> LiveQueued) /\ (Live' <=> Live)
      BY <1>1, <2>1, IdleFields DEF Live, LiveQueued, LiveRunning, LiveStarting
    <2>3. GenerationsPast'
      BY <1>1, <2>1, IdleFields, EngineTypes DEF HoldInv, GenerationsPast
    <2>4. TicksRunAlone' /\ OneLiveTick' /\ FlagTellsLive'
      BY <1>1, <2>1, <2>2 DEF HoldInv, TicksRunAlone, OneLiveTick, FlagTellsLive, _disposed
    <2>5. LiveInFocus'
      BY <1>1, <2>1, <2>2, IdleFields DEF HoldInv, LiveInFocus, _disposed
    <2>6. HeldIsLive'
      BY <1>1, <1>3, <2>1, <2>2 DEF HoldInv, FlagTellsLive, HeldIsLive, _disposed
    <2> QED
      BY <1>1, <1>2, <2>2, <2>3, <2>4, <2>5, <2>6 DEF HoldInv, TickEnds
  <1>4. CASE ~(_disposed \/ running)
    <2>1. PICK g \in Nat : g = holdGeneration + 1
      BY EngineTypes
    <2>2. /\ running' = TRUE /\ holdGeneration' = g
          /\ step' = [step EXCEPT !.at = "schedule", !.gen = g]
      BY <1>4, <2>1 DEF EnsureRepeaterStarted
    <2>3. step'.at = "schedule" /\ step'.gen = g /\ step'.world = step.world
      BY <2>2, EngineTypes DEF StepType
    <2>4. /\ \A w \in World : ~In(g, ticks[w])
          /\ tick.gen # g /\ step.gen # g
          /\ \A w \in World : \A h \in Nat : In(h, ticks[w]) => h <= g
          /\ tick.gen <= g /\ g <= g
      BY <2>1, NewGeneration DEF HoldInv
    <2>5. ~LiveQueued' /\ ~LiveRunning' /\ LiveStarting' /\ Live'
      BY <1>1, <2>2, <2>3, <2>4 DEF Live, LiveQueued, LiveRunning, LiveStarting
    <2>6. GenerationsPast'
      BY <1>1, <2>2, <2>3, <2>4 DEF GenerationsPast
    <2>7. OneLiveTick'
      <3>1. \A w \in World : AtMostOnce(g, ticks[w])
        BY <2>4, NoneIsOne
      <3> QED
        BY <1>1, <2>2, <2>4, <2>5, <3>1 DEF OneLiveTick
    <2>8. TicksRunAlone' /\ FlagTellsLive' /\ HeldIsLive'
      BY <1>1, <2>2, <2>5 DEF TicksRunAlone, FlagTellsLive, HeldIsLive
    <2>9. LiveInFocus'
      BY <1>1, <2>2, <2>3, <2>4, <2>5 DEF HoldInv, LiveInFocus
    <2>10. TickStarts
      BY <1>1, <1>4, <2>5 DEF HoldInv, FlagTellsLive, TickStarts
    <2> QED
      BY <1>2, <2>6, <2>7, <2>8, <2>9, <2>10 DEF HoldInv
  <1> QED
    BY <1>3, <1>4

(* TryScheduleTick queues the tick of the step, which stays live if it is, *)
(* or lowers the flag of a live one.                                       *)
LEMMA ScheduleHold ==
  ASSUME TypeOK, HoldInv, TryScheduleTick
  PROVE  HoldInv' /\ TickEnds
  <1>1. /\ step.at = "schedule" /\ tick = NoTick /\ step' = Idle
        /\ UNCHANGED <<alive, focused, held, disposal, tick, holdGeneration, usedIn>>
    BY IdleFields DEF TryScheduleTick, HoldInv, TicksRunAlone, worldVars
  <1>2. HoldsStayInWorld' /\ TicksRunAlone'
    BY <1>1 DEF HoldInv, HoldsStayInWorld, TicksRunAlone, _disposed
  <1>3. ~LiveRunning /\ ~LiveRunning' /\ ~LiveStarting'
    BY <1>1, IdleFields DEF LiveRunning, LiveStarting
  <1>4. LiveStarting <=> step.gen = holdGeneration
    BY <1>1 DEF LiveStarting
  <1>5. CASE step.world \in alive /\ ticks' = [ticks EXCEPT ![step.world] = Append(@, step.gen)]
             /\ running' = running
    <2> DEFINE v == step.world
               g == step.gen
    <2>1. v \in World /\ g \in Nat /\ ticks[v] \in Seq(Nat)
      BY <1>5, EngineTypes
    <2>2. /\ \A x : In(x, Append(ticks[v], g)) <=> In(x, ticks[v]) \/ x = g
          /\ \A x : AtMostOnce(x, ticks[v]) /\ (x = g => ~In(x, ticks[v]))
                    => AtMostOnce(x, Append(ticks[v], g))
      BY <2>1, Appending
    <2>3. ticks'[v] = Append(ticks[v], g) /\ \A w \in World \ {v} : ticks'[w] = ticks[w]
      BY <1>5, <2>1, EngineTypes
    <2>4. \A w \in World : \A x : In(x, ticks'[w]) <=> In(x, ticks[w]) \/ (w = v /\ x = g)
      BY <2>2, <2>3
    <2>5. g <= holdGeneration /\ LiveStarting => ~LiveQueued
      BY DEF HoldInv, GenerationsPast, OneLiveTick
    <2>6. LiveQueued' <=> LiveQueued \/ LiveStarting
      BY <1>1, <1>4, <2>1, <2>4 DEF LiveQueued
    <2>7. Live' <=> Live
      BY <1>3, <2>6 DEF Live
    <2>8. GenerationsPast'
      <3>1. Idle.gen = 0 /\ 0 <= holdGeneration /\ step.gen <= holdGeneration
        BY IdleFields, EngineTypes DEF HoldInv, GenerationsPast
      <3> QED
        BY <1>1, <2>4, <3>1 DEF HoldInv, GenerationsPast
    <2>9. OneLiveTick'
      <3>1. CASE g = holdGeneration
        <4>1. \A w \in World : ~In(holdGeneration, ticks[w])
          BY <1>4, <2>5, <3>1 DEF LiveQueued, HoldInv, GenerationsPast, OneLiveTick
        <4>2. \A w \in World : AtMostOnce(holdGeneration, ticks'[w])
          BY <2>2, <2>3, <4>1, NoneIsOne
        <4> QED
          BY <1>1, <1>3, <2>4, <4>1, <4>2 DEF OneLiveTick
      <3>2. CASE g # holdGeneration
        <4>1. \A w \in World : AtMostOnce(holdGeneration, ticks'[w])
          BY <2>2, <2>3, <3>2 DEF HoldInv, OneLiveTick
        <4> QED
          BY <1>1, <1>3, <2>4, <3>2, <4>1 DEF HoldInv, OneLiveTick
      <3> QED
        BY <3>1, <3>2
    <2>10. FlagTellsLive' /\ HeldIsLive'
      BY <1>1, <1>5, <2>7 DEF HoldInv, FlagTellsLive, HeldIsLive, _disposed
    <2>11. LiveInFocus'
      <3>1. step'.at = "idle"
        BY <1>1, IdleFields
      <3>2. ASSUME focused # NoWorld, ~_disposed, NEW w \in World, In(holdGeneration, ticks'[w])
            PROVE  w = focused
        <4>1. CASE In(holdGeneration, ticks[w])
          BY <3>2, <4>1 DEF HoldInv, LiveInFocus
        <4>2. CASE w = v /\ holdGeneration = g
          BY <1>4, <3>2, <4>2 DEF HoldInv, LiveInFocus
        <4> QED
          BY <2>4, <3>2, <4>1, <4>2
      <3> QED
        BY <1>1, <1>3, <3>1, <3>2 DEF HoldInv, LiveInFocus, _disposed
    <2> QED
      BY <1>1, <1>2, <1>3, <2>7, <2>8, <2>9, <2>10, <2>11 DEF HoldInv, TickEnds
  <1>6. CASE step.world \notin alive /\ UNCHANGED ticks
             /\ running' \in {running, (running /\ holdGeneration # step.gen)}
    <2>1. LiveQueued' <=> LiveQueued
      BY <1>1, <1>6 DEF LiveQueued
    <2>2. LiveStarting => ~LiveQueued /\ ~Live' /\ (focused = NoWorld \/ _disposed)
      BY <1>3, <1>6, <2>1 DEF HoldInv, OneLiveTick, LiveInFocus, Live
    <2>3. ~LiveStarting => running' = running /\ (Live' <=> Live)
      <3>1. running \in BOOLEAN
        BY EngineTypes
      <3> QED
        BY <1>3, <1>4, <1>6, <2>1, <3>1 DEF Live
    <2>4. GenerationsPast'
      <3>1. Idle.gen = 0 /\ 0 <= holdGeneration
        BY IdleFields, EngineTypes
      <3> QED
        BY <1>1, <1>6, <3>1 DEF HoldInv, GenerationsPast
    <2>5. OneLiveTick'
      BY <1>1, <1>3, <1>6, <2>1 DEF HoldInv, OneLiveTick
    <2>6. FlagTellsLive' /\ HeldIsLive'
      <3>1. CASE LiveStarting
        BY <1>1, <2>2, <3>1 DEF FlagTellsLive, HeldIsLive, _disposed
      <3>2. CASE ~LiveStarting
        BY <1>1, <2>3, <3>2 DEF HoldInv, FlagTellsLive, HeldIsLive, _disposed
      <3> QED
        BY <3>1, <3>2
    <2>7. LiveInFocus'
      <3>1. step'.at = "idle"
        BY <1>1, IdleFields
      <3> QED
        BY <1>1, <1>3, <1>6, <3>1 DEF HoldInv, LiveInFocus, _disposed
    <2> QED
      BY <1>1, <1>2, <1>3, <2>2, <2>3, <2>4, <2>5, <2>6, <2>7 DEF HoldInv, TickEnds
  <1> QED
    BY <1>5, <1>6 DEF TryScheduleTick

(* What taking a tick out of a queue leaves there. *)
LEMMA TakenTick ==
  ASSUME TypeOK, HoldInv, NEW w \in World, TakeTick(w)
  PROVE  /\ tick = NoTick /\ step = Idle /\ w \in alive
         /\ Head(ticks[w]) \in Nat /\ Head(ticks[w]) <= holdGeneration
         /\ ticks' \in [World -> Seq(Nat)]
         /\ \A v \in World, x \in Nat : In(x, ticks'[v]) => In(x, ticks[v])
         /\ \A v \in World : AtMostOnce(holdGeneration, ticks'[v])
         /\ Head(ticks[w]) = holdGeneration =>
              LiveQueued /\ \A v \in World : ~In(holdGeneration, ticks'[v])
         /\ Head(ticks[w]) = holdGeneration /\ focused # NoWorld /\ ~_disposed => w = focused
         /\ Head(ticks[w]) # holdGeneration =>
              \A v \in World : In(holdGeneration, ticks'[v]) <=> In(holdGeneration, ticks[v])
  <1>1. /\ tick = NoTick /\ step = Idle /\ w \in alive /\ ticks[w] # <<>>
        /\ ticks[w] \in Seq(Nat) /\ holdGeneration \in Nat
    BY EngineTypes DEF TakeTick, EngineIdle
  <1>2. /\ ticks' \in [World -> Seq(Nat)]
        /\ Head(ticks[w]) \in Nat /\ In(Head(ticks[w]), ticks[w])
        /\ ticks'[w] = Tail(ticks[w]) /\ \A v \in World \ {w} : ticks'[v] = ticks[v]
    BY TakenTickType DEF TypeOK, EngineTypeOK, TickType, StepType
  <1>3. /\ \A x : In(x, ticks[w]) <=> In(x, ticks'[w]) \/ x = Head(ticks[w])
        /\ \A x : AtMostOnce(x, ticks[w]) =>
                    AtMostOnce(x, ticks'[w]) /\ (x = Head(ticks[w]) => ~In(x, ticks'[w]))
    BY <1>1, <1>2, TakingOut
  <1>4. Head(ticks[w]) <= holdGeneration
    BY <1>2 DEF HoldInv, GenerationsPast
  <1>5. \A v \in World, x \in Nat : In(x, ticks'[v]) => In(x, ticks[v])
    BY <1>2, <1>3
  <1>6. \A v \in World : AtMostOnce(holdGeneration, ticks'[v])
    BY <1>2, <1>3 DEF HoldInv, OneLiveTick
  <1>7. ASSUME Head(ticks[w]) = holdGeneration
        PROVE  /\ LiveQueued
               /\ \A v \in World : ~In(holdGeneration, ticks'[v])
               /\ focused # NoWorld /\ ~_disposed => w = focused
    <2>1. In(holdGeneration, ticks[w]) /\ ~In(holdGeneration, ticks'[w])
      BY <1>2, <1>3, <1>7 DEF HoldInv, OneLiveTick
    <2>2. \A v \in World \ {w} : ~In(holdGeneration, ticks[v])
      BY <2>1 DEF HoldInv, OneLiveTick
    <2> QED
      BY <1>2, <2>1, <2>2 DEF LiveQueued, HoldInv, LiveInFocus
  <1>8. Head(ticks[w]) # holdGeneration =>
          \A v \in World : In(holdGeneration, ticks'[v]) <=> In(holdGeneration, ticks[v])
    BY <1>2, <1>3
  <1> QED
    BY <1>1, <1>2, <1>4, <1>5, <1>6, <1>7, <1>8

(* The end of the live tick lowers the flag; a superseded one touches      *)
(* nothing.                                                                *)
LEMMA LastTickHold ==
  ASSUME TypeOK, HoldInv, NEW w \in World, LastTick(w)
  PROVE  HoldInv' /\ TickEnds
  <1> DEFINE g == Head(ticks[w])
  <1>1. /\ g # holdGeneration \/ _disposed \/ held = {} \/ focused = NoWorld
        /\ running' = (running /\ g # holdGeneration)
        /\ UNCHANGED <<alive, focused, held, holdGeneration, disposal, tick, step, usedIn>>
    BY DEF LastTick, EndsTick, worldVars
  <1>2. /\ tick = NoTick /\ step = Idle /\ g \in Nat
        /\ \A v \in World, x \in Nat : In(x, ticks'[v]) => In(x, ticks[v])
        /\ \A v \in World : AtMostOnce(holdGeneration, ticks'[v])
        /\ g = holdGeneration => LiveQueued /\ \A v \in World : ~In(holdGeneration, ticks'[v])
        /\ g # holdGeneration =>
             \A v \in World : In(holdGeneration, ticks'[v]) <=> In(holdGeneration, ticks[v])
    BY TakenTick DEF LastTick
  <1> HIDE DEF g
  <1>3. holdGeneration \in Nat /\ running \in BOOLEAN
    BY EngineTypes
  <1>4. ~LiveRunning /\ ~LiveRunning' /\ ~LiveStarting /\ ~LiveStarting'
    BY <1>1, <1>2, IdleFields DEF LiveRunning, LiveStarting
  <1>5. g = holdGeneration => ~LiveQueued' /\ ~Live' /\ ~running'
    BY <1>1, <1>2, <1>4 DEF LiveQueued, Live
  <1>6. g # holdGeneration => (Live' <=> Live) /\ running' = running
    BY <1>1, <1>2, <1>3, <1>4 DEF LiveQueued, Live
  <1>7. GenerationsPast' /\ TicksRunAlone' /\ HoldsStayInWorld'
    BY <1>1, <1>2 DEF HoldInv, GenerationsPast, TicksRunAlone, HoldsStayInWorld, _disposed
  <1>8. OneLiveTick'
    BY <1>1, <1>2, <1>3, <1>4 DEF HoldInv, OneLiveTick
  <1>9. FlagTellsLive' /\ HeldIsLive'
    BY <1>1, <1>5, <1>6 DEF HoldInv, FlagTellsLive, HeldIsLive, _disposed
  <1>10. LiveInFocus'
    BY <1>1, <1>2, <1>3, <1>4 DEF HoldInv, LiveInFocus, _disposed
  <1> QED
    BY <1>1, <1>4, <1>5, <1>6, <1>7, <1>8, <1>9, <1>10 DEF HoldInv, TickEnds

LEMMA BeginTickHold ==
  ASSUME TypeOK, HoldInv, NEW w \in World, BeginTick(w)
  PROVE  HoldInv' /\ TickBegins
  <1> DEFINE g == Head(ticks[w])
  <1>1. /\ g = holdGeneration /\ ~_disposed /\ held # {} /\ focused # NoWorld
        /\ tick' = [gen |-> g, held |-> held, world |-> focused]
        /\ UNCHANGED <<alive, focused, held, running, holdGeneration, disposal, step, usedIn>>
    BY DEF BeginTick, EndsTick, worldVars, holdVars
  <1>2. /\ tick = NoTick /\ step = Idle /\ g \in Nat
        /\ \A v \in World, x \in Nat : In(x, ticks'[v]) => In(x, ticks[v])
        /\ \A v \in World : AtMostOnce(holdGeneration, ticks'[v])
        /\ LiveQueued /\ \A v \in World : ~In(holdGeneration, ticks'[v])
    BY <1>1, TakenTick DEF BeginTick
  <1> HIDE DEF g
  <1>3. /\ tick'.gen = holdGeneration /\ tick'.held = held /\ tick'.world = focused
        /\ tick' # NoTick
    BY <1>1, IdleFields
  <1>4. LiveRunning' /\ Live /\ Live' /\ ~LiveStarting' /\ ~LiveQueued'
    BY <1>1, <1>2, <1>3, IdleFields DEF LiveRunning, LiveStarting, LiveQueued, Live
  <1>5. GenerationsPast'
    BY <1>1, <1>2, <1>3, EngineTypes DEF HoldInv, GenerationsPast
  <1>6. TicksRunAlone' /\ OneLiveTick'
    BY <1>1, <1>2, <1>3, <1>4 DEF TicksRunAlone, OneLiveTick
  <1>7. FlagTellsLive' /\ HeldIsLive' /\ LiveInFocus'
    BY <1>1, <1>2, <1>3, <1>4 DEF HoldInv, FlagTellsLive, HeldIsLive, LiveInFocus, _disposed
  <1>8. HoldsStayInWorld'
    BY <1>1, <1>3 DEF HoldInv, HoldsStayInWorld, _disposed
  <1>9. TickBegins
    BY <1>1, <1>2, <1>3, <1>4, EngineTypes DEF TickBegins
  <1> QED
    BY <1>5, <1>6, <1>7, <1>8, <1>9 DEF HoldInv

(* A tick that injected asks for the next update, or lowers the flag if it *)
(* is still the live one.                                                  *)
LEMMA FinishTickHold ==
  ASSUME TypeOK, HoldInv, FinishTick
  PROVE  HoldInv' /\ TickFinishes
  <1>1. /\ tick # NoTick /\ step = Idle /\ tick' = NoTick /\ ~LiveQueued /\ ~LiveStarting
        /\ UNCHANGED <<alive, focused, held, holdGeneration, disposal, ticks, usedIn>>
    BY IdleFields DEF FinishTick, HoldInv, TicksRunAlone, OneLiveTick, LiveStarting, worldVars
  <1>2. tick'.gen = 0 /\ tick'.held = {} /\ ~LiveRunning' /\ ~LiveQueued'
    BY <1>1, IdleFields DEF LiveRunning, LiveQueued
  <1>3. /\ holdGeneration \in Nat /\ 0 <= holdGeneration /\ tick.gen <= holdGeneration
        /\ running \in BOOLEAN
    BY EngineTypes DEF HoldInv, GenerationsPast
  <1>4. TicksRunAlone'
    BY <1>1 DEF TicksRunAlone
  <1>5. OneLiveTick'
    BY <1>1, <1>2 DEF HoldInv, OneLiveTick
  <1>6. HoldsStayInWorld'
    BY <1>1, <1>2 DEF HoldInv, HoldsStayInWorld, _disposed
  <1>7. CASE Reschedules
    <2>1. /\ step' = [at |-> "schedule", world |-> tick.world, gen |-> tick.gen, call |-> NoCall]
          /\ running' = running /\ tick.gen = holdGeneration /\ ~_disposed
      BY <1>7 DEF FinishTick, Reschedules
    <2>2. step'.at = "schedule" /\ step'.world = tick.world /\ step'.gen = holdGeneration
      BY <2>1
    <2>3. LiveStarting' /\ Live' /\ LiveRunning /\ Live
      BY <1>1, <2>1, <2>2 DEF LiveStarting, LiveRunning, Live
    <2>4. GenerationsPast'
      BY <1>1, <1>2, <1>3, <2>2 DEF HoldInv, GenerationsPast
    <2>5. FlagTellsLive' /\ HeldIsLive'
      BY <2>1, <2>3 DEF HoldInv, FlagTellsLive, HeldIsLive
    <2>6. LiveInFocus'
      BY <1>1, <1>2, <2>2, <2>3 DEF HoldInv, LiveInFocus, LiveQueued, _disposed
    <2> QED
      BY <1>1, <1>4, <1>5, <1>6, <2>3, <2>4, <2>5, <2>6 DEF HoldInv, TickFinishes
  <1>8. CASE ~Reschedules
    <2>1. /\ step' = step /\ running' = (running /\ holdGeneration # tick.gen)
          /\ _disposed \/ held = {} \/ holdGeneration # tick.gen
      BY <1>8 DEF FinishTick, Reschedules
    <2>2. ~LiveStarting' /\ ~Live' /\ (LiveRunning <=> tick.gen = holdGeneration)
      BY <1>1, <1>2, <2>1 DEF LiveStarting, Live, LiveRunning
    <2>3. GenerationsPast'
      BY <1>1, <1>2, <1>3, <2>1 DEF HoldInv, GenerationsPast
    <2>4. running' /\ focused # NoWorld /\ ~_disposed => FALSE
      BY <1>1, <1>3, <2>1, <2>2 DEF HoldInv, FlagTellsLive, Live
    <2>5. held # {} /\ focused # NoWorld /\ ~_disposed => FALSE
      BY <1>1, <1>3, <2>1, <2>2, IdleFields DEF HoldInv, HeldIsLive, Live
    <2>6. FlagTellsLive' /\ HeldIsLive'
      BY <1>1, <2>2, <2>4, <2>5 DEF FlagTellsLive, HeldIsLive, _disposed
    <2>7. LiveInFocus'
      BY <1>1, <1>2, <2>1, <2>2, IdleFields DEF HoldInv, LiveInFocus, LiveQueued, _disposed
    <2> QED
      BY <1>1, <1>4, <1>5, <1>6, <2>2, <2>3, <2>6, <2>7 DEF HoldInv, TickFinishes, Live
  <1> QED
    BY <1>7, <1>8

(* A change of focus drops the buttons and supersedes every tick; after    *)
(* Dispose it changes nothing.                                             *)
LEMMA RefocusHold ==
  ASSUME TypeOK, HoldInv, NEW w \in WorldRef, Refocus(w)
  PROVE  HoldInv' /\ TickEnds
  <1>1. /\ tick = NoTick /\ step = Idle /\ focused' = w
        /\ w # NoWorld => w \in alive'
        /\ UNCHANGED <<disposal, ticks, tick, step, usedIn>>
    BY DEF Refocus, Focus, EngineIdle, WorldRef, engineVars
  <1>2. tick.held = {} /\ step.at = "idle" /\ ~LiveStarting /\ ~LiveRunning
    BY <1>1, IdleFields DEF LiveStarting, LiveRunning
  <1>3. CASE _disposed
    <2>1. UNCHANGED <<held, running, holdGeneration>>
      BY <1>3 DEF Refocus, OnWorldFocused
    <2>2. (LiveQueued' <=> LiveQueued) /\ (Live' <=> Live) /\ ~LiveStarting' /\ ~LiveRunning'
      BY <1>1, <1>2, <2>1 DEF LiveQueued, Live, LiveStarting, LiveRunning
    <2>3. GenerationsPast' /\ TicksRunAlone' /\ OneLiveTick' /\ FlagTellsLive' /\ HeldIsLive'
      BY <1>1, <1>2, <1>3, <2>1, <2>2
      DEF HoldInv, GenerationsPast, TicksRunAlone, OneLiveTick, FlagTellsLive, HeldIsLive, _disposed
    <2>4. LiveInFocus' /\ HoldsStayInWorld'
      BY <1>1, <1>2, <1>3 DEF LiveInFocus, HoldsStayInWorld, _disposed
    <2> QED
      BY <1>1, <1>2, <2>2, <2>3, <2>4 DEF HoldInv, TickEnds
  <1>4. CASE ~_disposed
    <2>1. DropHolds
      BY <1>4 DEF Refocus, OnWorldFocused
    <2>2. held' = {} /\ running' = FALSE
      BY <2>1 DEF DropHolds
    <2>3. GenerationsPast' /\ OneLiveTick' /\ ~Live'
      BY <1>1, <2>1, DropSupersedes DEF HoldInv, engineVars
    <2>4. TicksRunAlone' /\ FlagTellsLive' /\ HeldIsLive'
      BY <1>1, <2>2, <2>3 DEF TicksRunAlone, FlagTellsLive, HeldIsLive
    <2>5. LiveInFocus'
      BY <1>1, <1>2, <2>3 DEF LiveInFocus, Live, LiveQueued
    <2>6. HoldsStayInWorld'
      BY <1>1, <1>2, <2>2 DEF HoldsStayInWorld
    <2> QED
      BY <1>1, <2>3, <2>4, <2>5, <2>6 DEF HoldInv, TickEnds
  <1> QED
    BY <1>3, <1>4

(* The ticks of a world go with it; the live one only if the world had the *)
(* focus, and then nothing has.                                            *)
LEMMA CloseHold ==
  ASSUME TypeOK, HoldInv, NEW w \in World, CloseWorld(w)
  PROVE  HoldInv' /\ TickEnds
  <1>1. /\ ticks' = [ticks EXCEPT ![w] = <<>>]
        /\ alive' = alive \ {w}
        /\ focused' = IF focused = w THEN NoWorld ELSE focused
        /\ UNCHANGED <<held, running, holdGeneration, disposal, tick, step, usedIn>>
    BY DEF CloseWorld, Close, holdVars
  <1>2. ticks'[w] = <<>> /\ \A v \in World \ {w} : ticks'[v] = ticks[v]
    BY <1>1, EngineTypes
  <1>3. \A x : ~In(x, <<>>)
    BY DEF In
  <1>4. \A v \in World : \A x : In(x, ticks'[v]) <=> v # w /\ In(x, ticks[v])
    BY <1>2, <1>3
  <1>5. focused' # NoWorld => focused' = focused /\ focused # w
    BY <1>1
  <1>6. /\ LiveRunning' <=> LiveRunning
        /\ LiveStarting' <=> LiveStarting
        /\ LiveQueued' => LiveQueued
    BY <1>1, <1>4 DEF LiveRunning, LiveStarting, LiveQueued
  <1>7. focused' # NoWorld /\ ~_disposed => (LiveQueued' <=> LiveQueued)
    <2>1. ASSUME focused' # NoWorld, ~_disposed, NEW v \in World, In(holdGeneration, ticks[v])
          PROVE  LiveQueued'
      <3>1. v # w
        BY <1>5, <2>1 DEF HoldInv, LiveInFocus
      <3> QED
        BY <1>1, <1>4, <2>1, <3>1 DEF LiveQueued
    <2> QED
      BY <1>6, <2>1 DEF LiveQueued
  <1>8. GenerationsPast' /\ TicksRunAlone'
    BY <1>1, <1>4 DEF HoldInv, GenerationsPast, TicksRunAlone
  <1>9. OneLiveTick'
    <2>1. \A v \in World : AtMostOnce(holdGeneration, ticks'[v])
      <3>1. AtMostOnce(holdGeneration, <<>>)
        BY <1>3, NoneIsOne
      <3> QED
        BY <1>2, <3>1 DEF HoldInv, OneLiveTick
    <2> QED
      BY <1>1, <1>4, <1>6, <2>1 DEF HoldInv, OneLiveTick
  <1>10. FlagTellsLive' /\ HeldIsLive'
    BY <1>1, <1>5, <1>6, <1>7 DEF HoldInv, FlagTellsLive, HeldIsLive, Live, _disposed
  <1>11. LiveInFocus'
    BY <1>1, <1>4, <1>5, <1>6 DEF HoldInv, LiveInFocus, _disposed
  <1>12. HoldsStayInWorld'
    BY <1>1, <1>5 DEF HoldInv, HoldsStayInWorld, _disposed
  <1> QED
    BY <1>1, <1>6, <1>8, <1>9, <1>10, <1>11, <1>12 DEF HoldInv, TickEnds, Live

LEMMA DisposeHold ==
  ASSUME TypeOK, HoldInv, BeginDispose \/ ClearOnDispose
  PROVE  HoldInv' /\ TickEnds
  <1>1. /\ disposal' \in {"flagged", "done"}
        /\ UNCHANGED <<alive, focused, ticks, tick, step, usedIn>> /\ UNCHANGED engineVars
    BY DEF BeginDispose, ClearOnDispose, worldVars, engineVars
  <1>2. HoldsStayInWorld' /\ TicksRunAlone' /\ HeldIsLive'
    BY <1>1 DEF HoldInv, HoldsStayInWorld, TicksRunAlone, HeldIsLive, _disposed
  <1>3. LiveInFocus'
    BY <1>1 DEF HoldInv, LiveInFocus, _disposed
  <1>4. CASE BeginDispose
    <2>1. UNCHANGED <<held, running, holdGeneration>>
      BY <1>4 DEF BeginDispose
    <2>2. GenerationsPast' /\ OneLiveTick' /\ FlagTellsLive' /\ TickEnds
      BY <1>1, <2>1
      DEF TickEnds, HoldInv, GenerationsPast, OneLiveTick, FlagTellsLive, Live, LiveQueued, LiveRunning,
          LiveStarting, _disposed
    <2> QED
      BY <1>2, <1>3, <2>2 DEF HoldInv
  <1>5. CASE ClearOnDispose
    <2>1. GenerationsPast' /\ OneLiveTick' /\ ~Live'
      BY <1>1, <1>5, DropSupersedes DEF HoldInv, ClearOnDispose
    <2>2. FlagTellsLive'
      BY <1>1, <2>1 DEF FlagTellsLive, _disposed
    <2> QED
      BY <1>1, <1>2, <1>3, <2>1, <2>2 DEF HoldInv, TickEnds
  <1> QED
    BY <1>4, <1>5

LEMMA HoldInit == Init => HoldInv
  <1> SUFFICES ASSUME Init PROVE HoldInv
    OBVIOUS
  <1>1. /\ held = {} /\ running = FALSE /\ holdGeneration = 0 /\ tick = NoTick /\ step = Idle
        /\ \A w \in World : ticks[w] = <<>>
    BY DEF Init
  <1>2. focused # NoWorld => focused \in alive
    BY DEF Init, WorldsInit, WorldRef
  <1>3. \A x : ~In(x, <<>>)
    BY DEF In
  <1>4. ~Live /\ ~LiveQueued
    BY <1>1, <1>3, IdleFields DEF Live, LiveQueued, LiveRunning, LiveStarting
  <1>5. GenerationsPast /\ TicksRunAlone
    BY <1>1, <1>3, IdleFields DEF GenerationsPast, TicksRunAlone
  <1>6. OneLiveTick
    <2>1. AtMostOnce(holdGeneration, <<>>)
      BY <1>3, NoneIsOne
    <2> QED
      BY <1>1, <1>3, <1>4, <2>1 DEF OneLiveTick
  <1>7. FlagTellsLive /\ HeldIsLive /\ HoldsStayInWorld
    BY <1>1, <1>4, IdleFields DEF FlagTellsLive, HeldIsLive, HoldsStayInWorld
  <1>8. LiveInFocus
    BY <1>1, <1>2, <1>3, <1>4, IdleFields DEF LiveInFocus, Live
  <1> QED
    BY <1>5, <1>6, <1>7, <1>8 DEF HoldInv

(* Steps that have nothing to do with the buttons. *)
Elsewhere ==
  \/ \E c \in Call : Dispatch(c)
  \/ \E w \in World, c \in Call :
       \/ NotReadyBody(w, c)
       \/ GrabAsync(w, c) \/ ReleaseAsync(w, c) \/ EquipAsync(w, c) \/ DequipAsync(w, c)
  \/ \E p \in pins : PinStep(p)
  \/ UNCHANGED vars

LEMMA ElsewhereUnchanged == Elsewhere => UNCHANGED <<worldVars, holdVars, engineVars, usedIn>>
  BY DEF Elsewhere, Dispatch, ResolveWorld, RunOnEngine, CancelCall, NotReadyBody, Body,
         GrabAsync, ReleaseAsync, EquipAsync, DequipAsync, PinStep, vars

Steps ==
  \/ Elsewhere
  \/ \E w \in World, c \in Call : UseAsync(w, c) \/ UnuseAsync(w, c)
  \/ EnsureRepeaterStarted \/ TryScheduleTick \/ FinishTick
  \/ \E w \in World : LastTick(w) \/ BeginTick(w) \/ CloseWorld(w)
  \/ \E w \in WorldRef : Refocus(w)
  \/ BeginDispose \/ ClearOnDispose

LEMMA NextSteps == [Next]_vars => Steps
  BY DEF Next, RunBody, Steps, Elsewhere

LEMMA HoldNext ==
  TypeOK /\ HoldInv /\ [Next]_vars
    => HoldInv' /\ (TickEnds \/ TickStarts \/ TickBegins \/ TickFinishes)
  <1> SUFFICES ASSUME TypeOK, HoldInv, Steps
               PROVE  HoldInv' /\ (TickEnds \/ TickStarts \/ TickBegins \/ TickFinishes)
    BY NextSteps
  <1> QED
    BY ElsewhereUnchanged, HoldUnchanged, UseHold, UnuseHold, EnsureHold, ScheduleHold, FinishTickHold,
       LastTickHold, BeginTickHold, CloseHold, RefocusHold, DisposeHold
    DEF Steps

(* The ticks that are live, counted. *)
LEMMA LiveTicksCounted ==
  ASSUME TypeOK, HoldInv
  PROVE  (LiveTicks = {} <=> ~Live) /\ Cardinality(LiveTicks) <= 1
  <1> DEFINE At(w) == {w} \X {i \in DOMAIN ticks[w] : ticks[w][i] = holdGeneration}
             Queued == UNION {At(w) : w \in World}
             Running == {t \in {<<"running", 0>>} : tick # NoTick /\ tick.gen = holdGeneration}
             Starting == {s \in {<<"starting", 0>>} : step.at = "schedule" /\ step.gen = holdGeneration}
  <1>1. LiveTicks = Queued \cup Running \cup Starting
    BY DEF LiveTicks
  <1>2. \A x : x \in Queued <=>
          \E w \in World : \E i \in DOMAIN ticks[w] : x = <<w, i>> /\ ticks[w][i] = holdGeneration
    OBVIOUS
  <1>3. /\ \A x : x \in Running <=> x = <<"running", 0>> /\ LiveRunning
        /\ \A x : x \in Starting <=> x = <<"starting", 0>> /\ LiveStarting
    BY DEF LiveRunning, LiveStarting
  <1> HIDE DEF Queued, Running, Starting
  <1>4. Queued # {} <=> LiveQueued
    <2>1. ASSUME Queued # {}
          PROVE  LiveQueued
      <3>1. PICK x : x \in Queued
        BY <2>1
      <3> QED
        BY <1>2, <3>1 DEF LiveQueued, In
    <2>2. ASSUME LiveQueued
          PROVE  Queued # {}
      <3>1. PICK w \in World : \E i \in DOMAIN ticks[w] : ticks[w][i] = holdGeneration
        BY <2>2 DEF LiveQueued, In
      <3>2. PICK i \in DOMAIN ticks[w] : ticks[w][i] = holdGeneration
        BY <3>1
      <3>3. <<w, i>> \in Queued
        BY <1>2, <3>2
      <3> QED
        BY <3>3
    <2> QED
      BY <2>1, <2>2
  <1>5. LiveTicks = {} <=> ~Live
    BY <1>1, <1>3, <1>4 DEF Live
  <1>6. ASSUME NEW a \in LiveTicks, NEW b \in LiveTicks
        PROVE  a = b
    <2>1. LiveQueued => ~LiveRunning /\ ~LiveStarting
      BY DEF HoldInv, OneLiveTick, LiveRunning
    <2>2. ~(LiveRunning /\ LiveStarting)
      BY IdleFields DEF HoldInv, TicksRunAlone, LiveRunning, LiveStarting
    <2>3. CASE a \in Queued /\ b \in Queued
      <3>1. PICK v, i :
              v \in World /\ i \in DOMAIN ticks[v] /\ a = <<v, i>> /\ ticks[v][i] = holdGeneration
        BY <1>2, <2>3
      <3>2. PICK w, j :
              w \in World /\ j \in DOMAIN ticks[w] /\ b = <<w, j>> /\ ticks[w][j] = holdGeneration
        BY <1>2, <2>3
      <3>3. v = w /\ i = j
        BY <3>1, <3>2 DEF HoldInv, OneLiveTick, AtMostOnce, In
      <3> QED
        BY <3>1, <3>2, <3>3
    <2> QED
      BY <1>1, <1>3, <1>4, <2>1, <2>2, <2>3
  <1>7. Cardinality(LiveTicks) <= 1
    <2>1. CASE LiveTicks = {}
      <3>1. Cardinality({}) = 0
        BY FS_EmptySet
      <3> QED
        BY <2>1, <3>1
    <2>2. CASE LiveTicks # {}
      <3>1. PICK a : LiveTicks = {a}
        BY <1>6, <2>2
      <3>2. Cardinality({a}) = 1
        BY FS_Singleton
      <3> QED
        BY <3>1, <3>2
    <2> QED
      BY <2>1, <2>2
  <1> QED
    BY <1>5, <1>7

LEMMA HoldInvariant == Spec => [](TypeOK /\ HoldInv)
  BY HoldInit, HoldNext, GrabberTypeCorrect, PTL DEF Spec

(* While a button is held there is one live tick to inject it and never    *)
(* two, and it is injected in the world it was Used in and in no other:    *)
(* for any number of worlds, changes of focus, calls that still wait in    *)
(* the queue of a world, and wherever the shutdown comes in between.       *)
THEOREM HoldsAreKept == Spec => []HoldsKept
  <1>1. TypeOK /\ HoldInv => HoldsKept
    <2> SUFFICES ASSUME TypeOK, HoldInv PROVE HoldsKept
      OBVIOUS
    <2>1. HoldsRepeated
      BY LiveTicksCounted DEF HoldInv, HeldIsLive, HoldsRepeated
    <2> QED
      BY <2>1 DEF HoldsKept, HoldInv
  <1> QED
    BY <1>1, HoldInvariant, PTL

-----------------------------------------------------------------------------
(* The bridge implements SingleTick.                                       *)

PhaseTells ==
  /\ Phase = "none" <=> ~Live
  /\ Phase = "running" <=> LiveRunning
  /\ Phase = "waiting" <=> Live /\ ~LiveRunning

LEMMA PhaseIs == TypeOK /\ HoldInv => PhaseTells
  BY LiveTicksCounted DEF PhaseTells, Phase, LiveRunning, Live

LEMMA PhaseIsNext == TypeOK' /\ HoldInv' => PhaseTells'
  BY PhaseIs, PTL

LEMMA AbstractInit == Init => Abstract!Init
  <1> SUFFICES ASSUME Init PROVE Abstract!Init
    OBVIOUS
  <1>1. tick.held = {} /\ tick = NoTick /\ step = Idle /\ \A w \in World : ticks[w] = <<>>
    BY IdleFields DEF Init
  <1>2. ~Live
    BY <1>1, IdleFields DEF Live, LiveQueued, LiveRunning, LiveStarting, In
  <1>3. Phase = "none"
    BY <1>2, PhaseIs, GrabberInitType, HoldInit DEF PhaseTells
  <1> QED
    BY <1>1, <1>3 DEF Abstract!Init

LEMMA AbstractNext ==
  ASSUME TypeOK, HoldInv, TypeOK', HoldInv', [Next]_vars
  PROVE  [Abstract!Next]_(Abstract!vars)
  <1>1. /\ Phase = "none" <=> ~Live
        /\ Phase = "running" <=> LiveRunning
        /\ Phase = "waiting" <=> Live /\ ~LiveRunning
        /\ Phase' = "none" <=> ~Live'
        /\ Phase' = "running" <=> LiveRunning'
        /\ Phase' = "waiting" <=> Live' /\ ~LiveRunning'
    BY PhaseIs, PhaseIsNext DEF PhaseTells
  <1>2. LiveRunning => Live /\ tick # NoTick
    BY DEF Live, LiveRunning
  <1>3. LiveRunning' => Live' /\ tick' # NoTick
    BY DEF Live, LiveRunning
  <1>4. CASE TickEnds
    <2>1. tick'.held = tick.held
      BY <1>4 DEF TickEnds
    <2>2. CASE Live'
      <3>1. Phase' = Phase
        BY <1>1, <1>4, <2>2 DEF TickEnds
      <3> QED
        BY <2>1, <3>1 DEF Abstract!vars
    <2>3. CASE ~Live'
      <3>1. Abstract!Stop
        BY <1>1, <2>1, <2>3 DEF Abstract!Stop
      <3> QED
        BY <3>1 DEF Abstract!Next
    <2> QED
      BY <2>2, <2>3
  <1>5. CASE TickStarts
    <2>1. tick'.held = tick.held /\ Phase = "none" /\ Phase' = "waiting"
      BY <1>1, <1>3, <1>5 DEF TickStarts
    <2>2. Abstract!Start
      BY <2>1 DEF Abstract!Start
    <2> QED
      BY <2>2 DEF Abstract!Next
  <1>6. CASE TickBegins
    <2>1. /\ tick.held = {} /\ Phase = "waiting" /\ Phase' = "running"
          /\ tick'.held \in SUBSET Input /\ tick'.held # {}
      BY <1>1, <1>2, <1>6, IdleFields DEF TickBegins
    <2>2. Abstract!Begin(tick'.held)
      BY <2>1 DEF Abstract!Begin
    <2> QED
      BY <2>1, <2>2 DEF Abstract!Next
  <1>7. CASE TickFinishes
    <2>1. tick.held # {} /\ tick'.held = {}
      BY <1>7, IdleFields DEF TickFinishes, HoldInv, TicksRunAlone
    <2>2. \/ Phase = "running" /\ Phase' \in {"waiting", "none"}
          \/ Phase = "none" /\ Phase' = "none"
      BY <1>1, <1>3, <1>7 DEF TickFinishes
    <2>3. Abstract!Inject
      BY <2>1, <2>2 DEF Abstract!Inject
    <2> QED
      BY <2>3 DEF Abstract!Next
  <1> QED
    BY <1>4, <1>5, <1>6, <1>7, HoldNext

(* Whatever the bridge does is what the abstract repeater allows: only the *)
(* live tick goes on to inject, a superseded one at most finishes what it  *)
(* had begun, and after the last one only a new start brings ticks back.   *)
THEOREM BridgeIsSingleTick == Spec => ImplementsSingleTick
  <1>1. Init => Abstract!Init
    BY AbstractInit
  <1>2. TypeOK /\ HoldInv /\ TypeOK' /\ HoldInv' /\ [Next]_vars => [Abstract!Next]_(Abstract!vars)
    BY AbstractNext
  <1> QED
    BY <1>1, <1>2, HoldInvariant, PTL DEF Spec, ImplementsSingleTick, Abstract!Spec

(* What a step of the bridge does to the objects in the hands: the bodies  *)
(* of the four calls, a world that closes, and nothing else.               *)
LEMMA HandsNext ==
  ASSUME [Next]_vars
  PROVE  \/ UNCHANGED <<grabbed, equipped>>
         \/ \E w \in World : CloseWorld(w)
         \/ \E w \in World, c \in Call :
              GrabAsync(w, c) \/ ReleaseAsync(w, c) \/ EquipAsync(w, c) \/ DequipAsync(w, c)
  <1>1. CASE UNCHANGED vars
    BY <1>1 DEF vars, objectVars
  <1>2. CASE \E c \in Call : Dispatch(c)
    BY <1>2 DEF Dispatch, objectVars
  <1>3. CASE \E w \in World, c \in Call : NotReadyBody(w, c) \/ UseAsync(w, c) \/ UnuseAsync(w, c)
    BY <1>3 DEF NotReadyBody, UseAsync, UnuseAsync, objectVars
  <1>4. CASE EnsureRepeaterStarted \/ TryScheduleTick \/ FinishTick \/ BeginDispose \/ ClearOnDispose
    BY <1>4 DEF EnsureRepeaterStarted, TryScheduleTick, FinishTick, BeginDispose, ClearOnDispose, objectVars
  <1>5. CASE \E w \in World : LastTick(w) \/ BeginTick(w)
    BY <1>5 DEF LastTick, BeginTick, objectVars
  <1>6. CASE \E p \in pins : PinStep(p)
    BY <1>6 DEF PinStep
  <1>7. CASE \E w \in WorldRef : Refocus(w)
    BY <1>7 DEF Refocus, objectVars
  <1> QED
    BY <1>1, <1>2, <1>3, <1>4, <1>5, <1>6, <1>7 DEF Next, RunBody

(* An object falls out of the hands only with its world or on account of a *)
(* call, and an equip accounts for it only where it was not answered with  *)
(* ok.                                                                     *)
THEOREM HandsLetGoOnAccount == Spec => LetGoOnAccount
  <1> DEFINE OnAccount(o) ==
        \/ \E h \in grabbed \cup equipped : h.object = o /\ h.world \notin alive'
        \/ \E w \in World, c \in Call : TakeClosure(w, c) /\ LetsGo(c, o)
  <1>1. ASSUME TypeOK, [Next]_vars, NEW o \in Holdings \ Holdings'
        PROVE  OnAccount(o)
    <2>1. PICK h \in grabbed \cup equipped : h.object = o
      BY <1>1 DEF Holdings
    <2>2. h \notin grabbed' /\ h \notin equipped'
      BY <1>1, <2>1 DEF Holdings
    <2>3. ASSUME NEW w \in World, CloseWorld(w)
          PROVE  OnAccount(o)
      <3>1. h.world = w
        BY <2>2, <2>3 DEF CloseWorld
      <3>2. w \notin alive'
        BY <2>3 DEF CloseWorld, Close
      <3> QED
        BY <2>1, <3>1, <3>2
    <2>4. ASSUME NEW w \in World, NEW c \in Call, TakeClosure(w, c), LetsGo(c, o)
          PROVE  OnAccount(o)
      BY <2>4
    <2>5. ASSUME NEW w \in World, NEW c \in Call, GrabAsync(w, c)
          PROVE  FALSE
      <3>1. PICK S \in SUBSET Grabbable(c) :
              grabbed' = {g \in grabbed : g.object \notin S} \cup
                {[world |-> focused, hand |-> ResolveSelector(c.hand), object |-> x] : x \in S}
        BY <2>5 DEF GrabAsync
      <3>2. h \in grabbed /\ h.object \in S
        BY <2>2, <2>5, <3>1 DEF GrabAsync
      <3> DEFINE taken == [world |-> focused, hand |-> ResolveSelector(c.hand), object |-> h.object]
      <3>3. taken \in grabbed' /\ taken.object = o
        BY <2>1, <3>1, <3>2
      <3> QED
        BY <1>1, <3>3 DEF Holdings
    <2>6. ASSUME NEW w \in World, NEW c \in Call, ReleaseAsync(w, c)
          PROVE  OnAccount(o)
      <3>1. h \in InHand(c)
        BY <2>2, <2>6 DEF ReleaseAsync
      <3>2. TakeClosure(w, c) /\ LetsGo(c, o)
        BY <2>1, <2>6, <3>1 DEF ReleaseAsync, Body, LetsGo, InHand
      <3> QED
        BY <2>4, <3>2
    <2>7. ASSUME NEW w \in World, NEW c \in Call, DequipAsync(w, c)
          PROVE  OnAccount(o)
      <3>1. h \in equipped /\ h.world = focused /\ h.hand = ResolveSelector(c.hand)
        BY <2>2, <2>7 DEF DequipAsync
      <3>2. TakeClosure(w, c) /\ LetsGo(c, o)
        BY <2>1, <2>7, <3>1 DEF DequipAsync, Body, LetsGo
      <3> QED
        BY <2>4, <3>2
    <2>8. ASSUME NEW w \in World, NEW c \in Call, EquipAsync(w, c)
          PROVE  OnAccount(o)
      <3>1. TakeClosure(w, c) /\ c.op = "equip"
        BY <2>8 DEF EquipAsync, Body
      <3>2. PICK outcome \in {"ok", "failed"}, g \in InHand(c) : TrySet(c, outcome) /\ HandOver(g, outcome)
        BY <2>2, <2>8 DEF EquipAsync
      <3>3. g.world = focused /\ g.hand = ResolveSelector(c.hand)
        BY <3>2 DEF InHand
      <3>4. CASE h \in equipped
        <4>1. h.world = focused /\ h.hand = ResolveSelector(c.hand)
          BY <2>2, <3>2, <3>3, <3>4 DEF HandOver, TakenOff, PutOn
        <4> QED
          BY <2>1, <2>4, <3>1, <3>4, <4>1 DEF LetsGo
      <3>5. CASE h \in grabbed
        <4>1. h = g
          BY <2>2, <3>2, <3>5 DEF HandOver
        <4> DEFINE worn == [world |-> g.world, hand |-> g.hand, object |-> g.object]
        <4>2. worn \in PutOn(g) /\ worn.object = o
          BY <2>1, <4>1 DEF PutOn
        <4>3. worn \notin equipped'
          BY <1>1, <4>2 DEF Holdings
        <4>4. outcome = "failed"
          BY <3>2, <4>2, <4>3 DEF HandOver
        <4>5. rpc \in [Call -> {"idle", "resolved", "awaiting"} \cup Outcome]
          BY <1>1 DEF TypeOK, DispatchTypeOK
        <4>6. ~(rpc[c] = "awaiting" /\ rpc'[c] = "ok")
          BY <3>2, <4>4, <4>5 DEF TrySet
        <4> QED
          BY <2>1, <2>4, <3>1, <3>3, <3>5, <4>1, <4>6 DEF LetsGo
      <3> QED
        BY <3>4, <3>5
    <2> QED
      BY <1>1, <2>2, <2>3, <2>5, <2>6, <2>7, <2>8, HandsNext
  <1>2. TypeOK /\ [Next]_vars => \A o \in Holdings \ Holdings' : OnAccount(o)
    BY <1>1
  <1> QED
    BY <1>2, GrabberTypeCorrect, PTL DEF Spec, LetGoOnAccount
=============================================================================
