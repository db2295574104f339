------------------------------ MODULE Grabber ------------------------------
(***************************************************************************)
(* The Grabber modality: unary RPCs dispatched to the engine thread, and   *)
(* FrooxEngineGrabberBridge, which keeps the buttons that were Used, has   *)
(* its own repeater inject them on every update, and pins what it grabs    *)
(* to the place it was grabbed at.                                         *)
(*                                                                         *)
(* Everything but Dispose runs on the engine thread, one step after the    *)
(* other; Dispose comes from the shutdown thread and only the locks order  *)
(* it.  Unlike the Repeater of Locomotion this one numbers its ticks with  *)
(* a generation.  The strength of a button is left out: it only rides      *)
(* along with the button it was Used with.                                 *)
(***************************************************************************)
EXTENDS EngineDispatch, FiniteSets

CONSTANTS Hand, Primary, PrimaryHand,   \* the hands, the selector "primary" and what it stands for
          Button,                       \* primary and secondary
          Object, Tool,                 \* what can be grabbed, and which of it can be equipped
          NoCall,                       \* no RPC waits for this step
          PinUpdates                    \* GrabPosePinUpdates

(* The requests that change something; GetState only reads. *)
Op == {"grab", "release", "use", "unuse", "equip", "dequip"}

ASSUME GrabberAssumption ==
  /\ Primary \notin Hand /\ PrimaryHand \in Hand
  /\ Tool \subseteq Object
  /\ NoCall \notin Call
  /\ \A c \in Call : c.op \in Op /\ c.hand \in Hand \cup {Primary} /\ c.button \in Button
  /\ PinUpdates \in Nat \ {0}

Input   == Hand \X Button
Grabbed == [world : World, hand : Hand, object : Object]
Pin     == [world : World, hand : Hand, object : Object, left : 1..PinUpdates]

VARIABLES
  held,            \* keys of _held
  running,         \* _repeaterRunning
  holdGeneration,  \* _holdGeneration
  disposal,        \* progress of Dispose: "no", "flagged", "done"
  ticks,           \* generations of the HoldTickSteps waiting in each world
  tick,            \* the HoldTickStep in progress, or NoTick
  step,            \* the EnsureRepeaterStarted or TryScheduleTick in progress, or Idle
  grabbed,         \* what the engine's Grabbers hold
  equipped,        \* the tools the hands have equipped
  pins,            \* PinSteps waiting
  usedIn           \* history: the world each input was last Used in

holdVars   == <<held, running, holdGeneration, disposal>>
engineVars == <<ticks, tick, step>>
objectVars == <<grabbed, equipped, pins>>
vars == <<worldVars, dispatchVars, holdVars, engineVars, objectVars, usedIn>>

Idle   == [at |-> "idle", world |-> NoWorld, gen |-> 0, call |-> NoCall]
NoTick == [gen |-> 0, held |-> {}, world |-> NoWorld]

TypeOK ==
  /\ WorldsTypeOK
  /\ DispatchTypeOK
  /\ held \subseteq Input
  /\ running \in BOOLEAN
  /\ holdGeneration \in Nat
  /\ disposal \in {"no", "flagged", "done"}
  /\ ticks \in [World -> Seq(Nat)]
  /\ tick \in [gen : Nat, held : SUBSET Input, world : WorldRef]
  /\ step \in [at : {"idle", "ensure", "schedule"}, world : WorldRef, gen : Nat,
               call : Call \cup {NoCall}]
  /\ grabbed \subseteq Grabbed
  /\ equipped \subseteq [world : World, hand : Hand, object : Tool]
  /\ pins \subseteq Pin
  /\ usedIn \in [Input -> WorldRef]

_disposed  == disposal # "no"
EngineIdle == tick = NoTick /\ step = Idle

Init ==
  /\ \E w \in WorldRef : WorldsInit(w)
  /\ DispatchInit
  /\ held = {}
  /\ running = FALSE
  /\ holdGeneration = 0
  /\ disposal = "no"
  /\ ticks = [w \in World |-> <<>>]
  /\ tick = NoTick
  /\ step = Idle
  /\ grabbed = {}
  /\ equipped = {}
  /\ pins = {}
  /\ usedIn = [i \in Input |-> NoWorld]

-----------------------------------------------------------------------------
(* The RPC bodies, on the engine thread.                                   *)

ResolveSelector(hand) == IF hand = Primary THEN PrimaryHand ELSE hand
InputOf(c) == <<ResolveSelector(c.hand), c.button>>

(* RunWithHandAsync: the closure resolves the focused world once more,     *)
(* then the hand; there may be no world, no user, no handler or Grabber.   *)
NotReadyBody(w, c) ==
  /\ EngineIdle
  /\ TakeClosure(w, c)
  /\ TrySet(c, "not_ready")
  /\ UNCHANGED <<worldVars, holdVars, engineVars, objectVars, usedIn>>

Body(w, c, op) ==
  /\ EngineIdle
  /\ TakeClosure(w, c)
  /\ c.op = op
  /\ focused # NoWorld
  /\ UNCHANGED worldVars

UseAsync(w, c) ==
  /\ Body(w, c, "use")
  /\ held' = held \cup {InputOf(c)}
  /\ step' = [at |-> "ensure", world |-> focused, gen |-> 0, call |-> c]
  /\ usedIn' = [usedIn EXCEPT ![InputOf(c)] = focused]
  /\ UNCHANGED <<rpc, running, holdGeneration, disposal, ticks, tick, objectVars>>

UnuseAsync(w, c) ==
  /\ Body(w, c, "unuse")
  /\ held' = held \ {InputOf(c)}
  /\ TrySet(c, "ok")
  /\ UNCHANGED <<running, holdGeneration, disposal, engineVars, objectVars, usedIn>>

InHand(c) == {g \in grabbed : g.world = focused /\ g.hand = ResolveSelector(c.hand)}

(* The ray misses, the Grabber takes nothing, or it takes the objects S,   *)
(* from the other hand's Grabber if need be; each is pinned from now on.   *)
(* An engine call of these closures may throw, at any point of its work:   *)
(* the call fails and what was done by then stays done.                    *)
Grabbable(c) ==
  {o \in Object : /\ \A g \in grabbed : g.object = o => g.world = focused /\ g \notin InHand(c)
                  /\ \A e \in equipped : e.object # o}

GrabAsync(w, c) ==
  /\ Body(w, c, "grab")
  /\ \E S \in SUBSET Grabbable(c) : \E pinned \in SUBSET S :
       /\ grabbed' = {g \in grabbed : g.object \notin S} \cup
            {[world |-> focused, hand |-> ResolveSelector(c.hand), object |-> o] : o \in S}
       /\ pins' = pins \cup
            {[world |-> focused, hand |-> ResolveSelector(c.hand), object |-> o,
              left |-> PinUpdates] : o \in pinned}
       /\ TrySet(c, "failed") \/ (pinned = S /\ TrySet(c, "ok"))
  /\ UNCHANGED <<holdVars, engineVars, equipped, usedIn>>

ReleaseAsync(w, c) ==
  /\ Body(w, c, "release")
  /\ \E S \in SUBSET InHand(c) :
       /\ grabbed' = grabbed \ S
       /\ TrySet(c, "failed") \/ (S = InHand(c) /\ TrySet(c, "ok"))
  /\ UNCHANGED <<holdVars, engineVars, equipped, pins, usedIn>>

(* What the hand of h has equipped once the engine took off its tool, and  *)
(* once it equipped h.object instead.                                      *)
TakenOff(h) == {e \in equipped : e.world # h.world \/ e.hand # h.hand}
PutOn(h)    == TakenOff(h) \cup {[world |-> h.world, hand |-> h.hand, object |-> h.object]}

(* Mutant: the hand lets go of the tool before it knows that CanEquip, and *)
(* the engine's Equip refuses without a word.                              *)
EquipAsyncUnchecked(w, c) ==
  /\ Body(w, c, "equip")
  /\ \/ \E g \in InHand(c), canEquip \in BOOLEAN :
          /\ g.object \in Tool
          /\ grabbed' = grabbed \ {g}
          /\ equipped' = IF canEquip THEN PutOn(g) ELSE equipped
     \/ /\ \A g \in InHand(c) : g.object \notin Tool
        /\ UNCHANGED <<grabbed, equipped>>
  /\ TrySet(c, "ok")
  /\ UNCHANGED <<holdVars, engineVars, pins, usedIn>>

(* Release, then Equip.  Equip refuses what CanEquip refuses and nothing   *)
(* else, but each of the two may throw: the first leaves the tool grabbed  *)
(* or let go, the second leaves it let go or equipped, and the tool the    *)
(* hand had equipped may be off by then.                                   *)
HandOver(g, outcome) ==
  /\ grabbed' \in {grabbed, grabbed \ {g}}
  /\ equipped' \in {equipped, TakenOff(g), PutOn(g)}
  /\ grabbed' = grabbed => equipped' = equipped
  /\ outcome = "ok" => grabbed' = grabbed \ {g} /\ equipped' = PutOn(g)

EquipAsync(w, c) ==
  /\ Body(w, c, "equip")
  /\ \E outcome \in {"ok", "failed"} :
       /\ TrySet(c, outcome)
       /\ \/ \E g \in InHand(c) : g.object \in Tool /\ HandOver(g, outcome)
          \/ UNCHANGED <<grabbed, equipped>>   \* no tool in the hand, CanEquip says no, or throws
  /\ UNCHANGED <<holdVars, engineVars, pins, usedIn>>

DequipAsync(w, c) ==
  /\ Body(w, c, "dequip")
  /\ LET off == {e \in equipped : e.world # focused \/ e.hand # ResolveSelector(c.hand)}
     IN \/ equipped' = off /\ (TrySet(c, "ok") \/ TrySet(c, "failed"))
        \/ UNCHANGED equipped /\ TrySet(c, "failed")
  /\ UNCHANGED <<holdVars, engineVars, grabbed, pins, usedIn>>

(* Mutant: the countdown runs one update too far.                          *)
PinStepTooFar(p) ==
  /\ EngineIdle
  /\ p \in pins
  /\ LET pinned == \E g \in grabbed :
                     g.world = p.world /\ g.hand = p.hand /\ g.object = p.object
     IN pins' = (pins \ {p}) \cup
                (IF pinned /\ p.left > 0 THEN {[p EXCEPT !.left = @ - 1]} ELSE {})
  /\ UNCHANGED <<worldVars, dispatchVars, holdVars, engineVars, grabbed, equipped, usedIn>>

(* PinStep writes the pose and goes on while the hand's Grabber has the    *)
(* object, whichever grab it has it from.                                  *)
PinStep(p) ==
  /\ EngineIdle
  /\ p \in pins
  /\ LET pinned == \E g \in grabbed :
                     g.world = p.world /\ g.hand = p.hand /\ g.object = p.object
     IN pins' = (pins \ {p}) \cup
                (IF pinned /\ p.left > 1 THEN {[p EXCEPT !.left = @ - 1]} ELSE {})
  /\ UNCHANGED <<worldVars, dispatchVars, holdVars, engineVars, grabbed, equipped, usedIn>>

-----------------------------------------------------------------------------
(* The repeater.                                                           *)

(* The call that started the step gets its snapshot. *)
Return == IF step.call = NoCall THEN UNCHANGED rpc ELSE TrySet(step.call, "ok")

EnsureRepeaterStarted ==
  /\ step.at = "ensure"
  /\ IF _disposed \/ running
     THEN /\ Return
          /\ step' = Idle
          /\ UNCHANGED <<running, holdGeneration>>
     ELSE /\ running' = TRUE
          /\ holdGeneration' = holdGeneration + 1
          /\ step' = [step EXCEPT !.at = "schedule", !.gen = holdGeneration + 1]
          /\ UNCHANGED rpc
  /\ UNCHANGED <<worldVars, target, inbox, held, disposal, ticks, tick, objectVars, usedIn>>

(* RunInUpdates on a disposed world drops the tick or throws. *)
TryScheduleTick ==
  /\ step.at = "schedule"
  /\ \/ /\ ticks' = IF step.world \in alive
                    THEN [ticks EXCEPT ![step.world] = Append(@, step.gen)]
                    ELSE ticks
        /\ UNCHANGED running
     \/ /\ step.world \notin alive
        /\ running' = (running /\ holdGeneration # step.gen)
        /\ UNCHANGED ticks
  /\ Return
  /\ step' = Idle
  /\ UNCHANGED <<worldVars, target, inbox, held, holdGeneration, disposal, tick, objectVars, usedIn>>

TakeTick(w) ==
  /\ EngineIdle
  /\ w \in alive
  /\ ticks[w] # <<>>
  /\ ticks' = [ticks EXCEPT ![w] = Tail(@)]

(* Mutant: a tick does not look at its generation.                         *)
EndsTickUnchecked(w) == _disposed \/ held = {} \/ focused = NoWorld

(* HoldTickStep of an older generation ends and touches nothing; one that  *)
(* finds nothing to inject, or nowhere to inject it, lowers the flag.      *)
EndsTick(w) ==
  \/ Head(ticks[w]) # holdGeneration
  \/ _disposed
  \/ held = {}
  \/ focused = NoWorld

(* Mutant: a tick that finds nothing held ends without lowering the flag.  *)
LastTickRunning(w) ==
  /\ TakeTick(w)
  /\ EndsTick(w)
  /\ UNCHANGED <<worldVars, dispatchVars, held, running, holdGeneration, disposal, tick, step,
                 objectVars, usedIn>>

LastTick(w) ==
  /\ TakeTick(w)
  /\ EndsTick(w)
  /\ running' = (running /\ Head(ticks[w]) # holdGeneration)
  /\ UNCHANGED <<worldVars, dispatchVars, held, holdGeneration, disposal, tick, step,
                 objectVars, usedIn>>

BeginTick(w) ==
  /\ TakeTick(w)
  /\ ~EndsTick(w)
  /\ tick' = [gen |-> Head(ticks[w]), held |-> held, world |-> focused]
  /\ UNCHANGED <<worldVars, dispatchVars, holdVars, step, objectVars, usedIn>>

(* InjectHeld and the test that follows it. *)
Reschedules == ~_disposed /\ held # {} /\ holdGeneration = tick.gen

FinishTick ==
  /\ tick # NoTick
  /\ tick' = NoTick
  /\ IF Reschedules
     THEN /\ step' = [at |-> "schedule", world |-> tick.world, gen |-> tick.gen, call |-> NoCall]
          /\ UNCHANGED running
     ELSE /\ running' = (running /\ holdGeneration # tick.gen)
          /\ UNCHANGED step
  /\ UNCHANGED <<worldVars, dispatchVars, held, holdGeneration, disposal, ticks, objectVars, usedIn>>

-----------------------------------------------------------------------------
(* Focus, worlds and Dispose.                                              *)

DropHolds ==
  /\ held' = {}
  /\ running' = FALSE
  /\ holdGeneration' = holdGeneration + 1

(* Mutant: a change of focus drops the buttons and trusts the old tick to  *)
(* find none and lower the flag.                                           *)
OnWorldFocusedTrusting ==
  /\ held' = IF _disposed THEN held ELSE {}
  /\ UNCHANGED <<running, holdGeneration>>

OnWorldFocused == IF _disposed THEN UNCHANGED <<held, running, holdGeneration>> ELSE DropHolds

Refocus(w) ==
  /\ EngineIdle
  /\ Focus(w)
  /\ OnWorldFocused
  /\ UNCHANGED <<dispatchVars, disposal, engineVars, objectVars, usedIn>>

CloseWorld(w) ==
  /\ Close(w)
  /\ CloseInbox(w)
  /\ ticks' = [ticks EXCEPT ![w] = <<>>]
  /\ grabbed' = {g \in grabbed : g.world # w}
  /\ equipped' = {e \in equipped : e.world # w}
  /\ pins' = {p \in pins : p.world # w}
  /\ UNCHANGED <<holdVars, tick, step, usedIn>>

BeginDispose ==
  /\ disposal = "no"
  /\ disposal' = "flagged"
  /\ UNCHANGED <<worldVars, dispatchVars, held, running, holdGeneration, engineVars, objectVars, usedIn>>

ClearOnDispose ==
  /\ disposal = "flagged"
  /\ disposal' = "done"
  /\ DropHolds
  /\ UNCHANGED <<worldVars, dispatchVars, engineVars, objectVars, usedIn>>

-----------------------------------------------------------------------------
Dispatch(c) ==
  /\ ResolveWorld(c) \/ RunOnEngine(c) \/ CancelCall(c)
  /\ UNCHANGED <<holdVars, engineVars, objectVars, usedIn>>

RunBody(w, c) ==
  \/ UseAsync(w, c) \/ UnuseAsync(w, c)
  \/ GrabAsync(w, c) \/ ReleaseAsync(w, c) \/ EquipAsync(w, c) \/ DequipAsync(w, c)

Next ==
  \/ \E c \in Call : Dispatch(c)
  \/ \E w \in World, c \in Call : NotReadyBody(w, c) \/ RunBody(w, c)
  \/ EnsureRepeaterStarted \/ TryScheduleTick
  \/ \E w \in World : LastTick(w) \/ BeginTick(w) \/ CloseWorld(w)
  \/ FinishTick
  \/ \E p \in pins : PinStep(p)
  \/ \E w \in WorldRef : Refocus(w)
  \/ BeginDispose \/ ClearOnDispose

Spec == Init /\ [][Next]_vars

(* The engine goes on updating every world that is open, and an update     *)
(* runs what was posted to that world; a gRPC thread that resolved a world *)
(* goes on to post.                                                        *)
Fairness ==
  /\ WF_vars(EnsureRepeaterStarted)
  /\ WF_vars(TryScheduleTick)
  /\ WF_vars(FinishTick)
  /\ \A w \in World : SF_vars(LastTick(w) \/ BeginTick(w))
  /\ \A w \in World : SF_vars(\E c \in Call : NotReadyBody(w, c) \/ RunBody(w, c))
  /\ \A c \in Call : WF_vars(rpc[c] = "resolved" /\ Dispatch(c))

FairSpec == Spec /\ Fairness

-----------------------------------------------------------------------------
(* Properties.                                                             *)

(* The ticks of the current generation: queued, running or about to be     *)
(* queued.                                                                 *)
LiveTicks ==
  (UNION {{w} \X {i \in DOMAIN ticks[w] : ticks[w][i] = holdGeneration} : w \in World})
  \cup {t \in {<<"running", 0>>} : tick # NoTick /\ tick.gen = holdGeneration}
  \cup {s \in {<<"starting", 0>>} : step.at = "schedule" /\ step.gen = holdGeneration}

(* As long as a button is held there is exactly one live tick to inject    *)
(* it, and never two.  The flag alone cannot tell: the tick it stands for  *)
(* may have been dropped with the queue of a world that closed, which is   *)
(* what the generation is there for.                                       *)
HoldsRepeated ==
  /\ Cardinality(LiveTicks) <= 1
  /\ held # {} /\ focused # NoWorld /\ ~_disposed /\ step.at # "ensure" => LiveTicks # {}

(* A button is held, and injected, only in the world it was Used in: it    *)
(* does not stay pressed across a change of focus, whatever closures were  *)
(* still queued in the old world and whatever ticks were in flight.        *)
HoldsStayInWorld ==
  /\ focused # NoWorld /\ ~_disposed => \A i \in held : usedIn[i] = focused
  /\ \A i \in tick.held : usedIn[i] = tick.world

HoldsKept == HoldsRepeated /\ HoldsStayInWorld

(* The bridge implements the abstract repeater, in which a tick that is    *)
(* not the live one injects nothing.                                       *)
Phase ==
  IF LiveTicks = {} THEN "none"
  ELSE IF tick # NoTick /\ tick.gen = holdGeneration THEN "running" ELSE "waiting"

Abstract == INSTANCE SingleTick WITH Button <- Input, phase <- Phase, injecting <- tick.held

ImplementsSingleTick == Abstract!Spec

(* What the client of c asked to be let go, or was told may be gone: all   *)
(* its hand grabs, for release; its tool, for dequip and, replaced, for    *)
(* equip; and what the hand grabs, if the equip is not answered with ok    *)
(* (it fails, or the client had given up and hears nothing).               *)
LetsGo(c, o) ==
  LET Mine(S) == \E h \in S : /\ h.object = o
                             /\ h.world = focused /\ h.hand = ResolveSelector(c.hand)
  IN \/ c.op = "release" /\ Mine(grabbed)
     \/ c.op \in {"dequip", "equip"} /\ Mine(equipped)
     \/ c.op = "equip" /\ Mine(grabbed) /\ ~(rpc[c] = "awaiting" /\ rpc'[c] = "ok")

Holdings == {h.object : h \in grabbed \cup equipped}

(* An object falls out of the hands only with its world, or on account of  *)
(* a call that asked for it or was not answered with ok: an equip that the *)
(* engine refuses leaves the tool grabbed, and one that is cut short when  *)
(* the hand has let go already never passes for a success.                 *)
LetGoOnAccount ==
  [][\A o \in Holdings \ Holdings' :
       \/ \E h \in grabbed \cup equipped : h.object = o /\ h.world \notin alive'
       \/ \E w \in World, c \in Call : TakeClosure(w, c) /\ LetsGo(c, o)]_vars

(* A button that was Used is injected, unless it is Unused, the focus      *)
(* moves or the bridge is disposed first.                                  *)
UseTakesHold ==
  \A i \in Input, w \in World :
    (i \in held /\ focused = w) ~> (i \in tick.held \/ i \notin held \/ focused # w \/ _disposed)

(* A dispatched call comes to an end, with a result, an error or its own   *)
(* cancellation, if its world stays open.                                  *)
CallsReturn ==
  \A c \in Call : rpc[c] = "awaiting" ~> rpc[c] \in Outcome \/ target[c] \notin alive

CallsSettle == UseTakesHold /\ CallsReturn
=============================================================================
