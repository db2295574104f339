---------------------------- MODULE CursorProofs ----------------------------
(***************************************************************************)
(* Theorems about Cursor for every set of worlds and calls and every bound *)
(* on changes of focus.                                                    *)
(***************************************************************************)
EXTENDS Cursor, TLAPS

USE WorldsAssumption, DispatchAssumption, CursorAssumption

-----------------------------------------------------------------------------
(* What a queue contains after a closure is put into it or taken out.      *)

In(x, s) == \E i \in DOMAIN s : s[i] = x

LEMMA AppendContains ==
  ASSUME NEW S, NEW s \in Seq(S), NEW e \in S
  PROVE  /\ Append(s, e) \in Seq(S)
         /\ \A x : In(x, Append(s, e)) <=> In(x, s) \/ x = e
  <1>1. /\ Append(s, e) \in Seq(S)
        /\ DOMAIN s = 1..Len(s)
        /\ DOMAIN Append(s, e) = 1..(Len(s) + 1)
        /\ Len(s) \in Nat
        /\ Append(s, e)[Len(s) + 1] = e
        /\ \A i \in 1..Len(s) : Append(s, e)[i] = s[i]
    OBVIOUS
  <1>2. ASSUME NEW x, In(x, Append(s, e))
        PROVE  In(x, s) \/ x = e
    <2>1. PICK i \in 1..(Len(s) + 1) : Append(s, e)[i] = x
      BY <1>1, <1>2 DEF In
    <2>2. CASE i = Len(s) + 1
      BY <1>1, <2>1, <2>2
    <2>3. CASE i \in 1..Len(s)
      BY <1>1, <2>1, <2>3 DEF In
    <2> QED
      BY <1>1, <2>2, <2>3
  <1>3. ASSUME NEW x, In(x, s)
        PROVE  In(x, Append(s, e))
    <2>1. PICK i \in 1..Len(s) : s[i] = x
      BY <1>1, <1>3 DEF In
    <2>2. i \in 1..(Len(s) + 1)
      BY <1>1, <2>1
    <2> QED
      BY <1>1, <2>1, <2>2 DEF In
  <1>4. In(e, Append(s, e))
    <2>1. Len(s) + 1 \in 1..(Len(s) + 1)
      BY <1>1
    <2> QED
      BY <1>1, <2>1 DEF In
  <1> QED
    BY <1>1, <1>2, <1>3, <1>4

LEMMA TailContains ==
  ASSUME NEW S, NEW s \in Seq(S), s # <<>>
  PROVE  /\ Tail(s) \in Seq(S)
         /\ Head(s) \in S
         /\ \A x : In(x, s) <=> In(x, Tail(s)) \/ x = Head(s)
  <1>1. /\ Tail(s) \in Seq(S)
        /\ Head(s) \in S
        /\ Head(s) = s[1]
        /\ DOMAIN s = 1..Len(s)
        /\ DOMAIN Tail(s) = 1..(Len(s) - 1)
        /\ Len(s) \in Nat /\ Len(s) >= 1
        /\ \A i \in 1..(Len(s) - 1) : Tail(s)[i] = s[i + 1]
    OBVIOUS
  <1>2. ASSUME NEW x, In(x, s), x # Head(s)
        PROVE  In(x, Tail(s))
    <2>1. PICK i \in 1..Len(s) : s[i] = x
      BY <1>1, <1>2 DEF In
    <2>2. i # 1
      BY <1>1, <1>2, <2>1
    <2>3. i - 1 \in 1..(Len(s) - 1) /\ (i - 1) + 1 = i
      BY <1>1, <2>1, <2>2
    <2>4. Tail(s)[i - 1] = x
      BY <1>1, <2>1, <2>3
    <2> QED
      BY <1>1, <2>3, <2>4 DEF In
  <1>3. ASSUME NEW x, In(x, Tail(s))
        PROVE  In(x, s)
    <2>1. PICK i \in 1..(Len(s) - 1) : Tail(s)[i] = x
      BY <1>1, <1>3 DEF In
    <2>2. i + 1 \in 1..Len(s) /\ s[i + 1] = x
      BY <1>1, <2>1
    <2> QED
      BY <1>1, <2>2 DEF In
  <1>4. In(Head(s), s)
    <2>1. 1 \in 1..Len(s)
      BY <1>1
    <2> QED
      BY <1>1, <2>1 DEF In
  <1> QED
    BY <1>1, <1>2, <1>3, <1>4

-----------------------------------------------------------------------------
(* Type correctness of the worlds and of the calls.                        *)

LEMMA FocusWorldsType ==
  ASSUME WorldsTypeOK, NEW w \in WorldRef, Focus(w)
  PROVE  WorldsTypeOK'
  BY DEF WorldsTypeOK, WorldRef, Focus

LEMMA CloseWorldsType ==
  ASSUME WorldsTypeOK, NEW w \in World, Close(w)
  PROVE  WorldsTypeOK'
  BY DEF WorldsTypeOK, WorldRef, Close

LEMMA DispatchInitType == DispatchInit => DispatchTypeOK
  <1> SUFFICES ASSUME DispatchInit PROVE DispatchTypeOK
    OBVIOUS
  <1>1. <<>> \in Seq(Call)
    OBVIOUS
  <1> QED
    BY <1>1 DEF DispatchInit, DispatchTypeOK, WorldRef

LEMMA ResolveWorldType ==
  ASSUME DispatchTypeOK, WorldsTypeOK, NEW c \in Call, ResolveWorld(c)
  PROVE  DispatchTypeOK'
  BY DEF DispatchTypeOK, WorldsTypeOK, ResolveWorld, Outcome, WorldRef

LEMMA RunOnEngineType ==
  ASSUME DispatchTypeOK, WorldsTypeOK, NEW c \in Call, RunOnEngine(c)
  PROVE  DispatchTypeOK'
  <1>1. ASSUME target[c] \in alive
        PROVE  inbox' \in [World -> Seq(Call)]
    <2>1. target[c] \in World /\ inbox[target[c]] \in Seq(Call)
      BY <1>1 DEF DispatchTypeOK, WorldsTypeOK
    <2>2. Append(inbox[target[c]], c) \in Seq(Call)
      BY <2>1, AppendContains
    <2> QED
      BY <1>1, <2>1, <2>2 DEF DispatchTypeOK, RunOnEngine
  <1> QED
    BY <1>1 DEF DispatchTypeOK, RunOnEngine

LEMMA CancelCallType ==
  ASSUME DispatchTypeOK, NEW c \in Call, CancelCall(c)
  PROVE  DispatchTypeOK'
  BY DEF DispatchTypeOK, CancelCall, Outcome

LEMMA TakeClosureType ==
  ASSUME DispatchTypeOK, WorldsTypeOK, NEW w \in World, NEW c, TakeClosure(w, c)
  PROVE  inbox' \in [World -> Seq(Call)] /\ target' \in [Call -> WorldRef] /\ c \in Call
  <1>1. inbox[w] \in Seq(Call) /\ inbox[w] # <<>>
    BY DEF DispatchTypeOK, TakeClosure
  <1>2. Tail(inbox[w]) \in Seq(Call) /\ Head(inbox[w]) \in Call
    BY <1>1, TailContains
  <1> QED
    BY <1>2 DEF DispatchTypeOK, TakeClosure

LEMMA TrySetType ==
  ASSUME DispatchTypeOK, NEW c \in Call, NEW outcome \in Outcome, TrySet(c, outcome)
  PROVE  rpc' \in [Call -> {"idle", "resolved", "awaiting"} \cup Outcome]
  BY DEF DispatchTypeOK, TrySet

LEMMA CloseInboxType ==
  ASSUME DispatchTypeOK, NEW w \in World, CloseInbox(w)
  PROVE  DispatchTypeOK'
  <1>1. <<>> \in Seq(Call)
    OBVIOUS
  <1> QED
    BY <1>1 DEF DispatchTypeOK, CloseInbox

(* A closure that is taken leaves the rest of the queue as it was.         *)
LEMMA TakeClosureContains ==
  ASSUME DispatchTypeOK, NEW w \in World, NEW c, TakeClosure(w, c)
  PROVE  /\ In(c, inbox[w])
         /\ \A v \in World : \A x : x # c => (In(x, inbox'[v]) <=> In(x, inbox[v]))
         /\ \A v \in World \ {w} : inbox'[v] = inbox[v]
         /\ \A v \in World : \A x : In(x, inbox'[v]) => In(x, inbox[v])
  <1>1. inbox[w] \in Seq(Call) /\ inbox[w] # <<>> /\ c = Head(inbox[w])
    BY DEF DispatchTypeOK, TakeClosure
  <1>2. \A x : In(x, inbox[w]) <=> In(x, Tail(inbox[w])) \/ x = c
    BY <1>1, TailContains
  <1>3. /\ inbox'[w] = Tail(inbox[w])
        /\ \A v \in World \ {w} : inbox'[v] = inbox[v]
    BY DEF DispatchTypeOK, TakeClosure
  <1> QED
    BY <1>2, <1>3

-----------------------------------------------------------------------------
(* Type correctness.                                                       *)

LEMMA CursorInitType == Init => TypeOK
  <1> SUFFICES ASSUME Init PROVE TypeOK
    OBVIOUS
  <1>1. PICK w \in WorldRef : WorldsInit(w)
    BY DEF Init
  <1>2. WorldsTypeOK
    BY <1>1 DEF WorldsInit, WorldsTypeOK, WorldRef
  <1>3. DispatchTypeOK
    BY DispatchInitType DEF Init
  <1> QED
    BY <1>2, <1>3 DEF Init, TypeOK, NoHold, WorldRef

LEMMA DispatchStepType ==
  ASSUME TypeOK, NEW c \in Rpc, HoldUnavailable(c) \/ Dispatch(c)
  PROVE  TypeOK'
  <1>1. DispatchTypeOK'
    <2>1. CASE HoldUnavailable(c)
      BY <2>1 DEF TypeOK, HoldUnavailable, DispatchTypeOK, Outcome
    <2>2. CASE Dispatch(c)
      BY <2>2, ResolveWorldType, RunOnEngineType, CancelCallType DEF TypeOK, Dispatch, Rpc
    <2> QED
      BY <2>1, <2>2
  <1>2. UNCHANGED <<worldVars, lockVars, otherVars>>
    BY DEF HoldUnavailable, Dispatch, ResolveWorld, RunOnEngine, CancelCall
  <1> QED
    BY <1>1, <1>2 DEF TypeOK, WorldsTypeOK, worldVars, lockVars, otherVars

(* The world that ApplyHold locks is a world, and the removal it queues    *)
(* comes on top of what is queued.                                         *)
LEMMA ApplyHoldInbox ==
  ASSUME TypeOK, NEW w \in World, NEW c \in Rpc, ApplyHold(w, c)
  PROVE  /\ focused \in World
         /\ inbox' \in [World -> Seq(Call)]
         /\ \A v \in World : Leaving(v) => Leaving(v)'
         /\ \A v \in World : Leaving(v)' => Leaving(v) \/ (v = lockWorld /\ v # focused)
         /\ \A v \in alive : v = lockWorld /\ v # focused => Leaving(v)'
  <1> DEFINE rest == [inbox EXCEPT ![w] = Tail(@)]
  <1>1. /\ inbox \in [World -> Seq(Call)]
        /\ inbox[w] \in Seq(Call) /\ inbox[w] # <<>> /\ c = Head(inbox[w])
        /\ c # Unregister
    BY DEF ApplyHold, Rpc, TypeOK, DispatchTypeOK
  <1>2. Tail(inbox[w]) \in Seq(Call)
    BY <1>1, TailContains
  <1>3. rest \in [World -> Seq(Call)]
    BY <1>1, <1>2
  <1>4. \A v \in World : In(Unregister, rest[v]) <=> In(Unregister, inbox[v])
    <2>1. In(Unregister, Tail(inbox[w])) <=> In(Unregister, inbox[w])
      BY <1>1, TailContains
    <2> QED
      BY <1>1, <2>1
  <1>5. focused \in World
    BY DEF ApplyHold, TypeOK, WorldsTypeOK, WorldRef
  <1>6. lockWorld \in alive => lockWorld \in World
    BY DEF TypeOK, WorldsTypeOK
  <1>7. inbox' = IF lockWorld # focused /\ lockWorld \in alive
                 THEN [rest EXCEPT ![lockWorld] = Append(@, Unregister)]
                 ELSE rest
    BY DEF ApplyHold
  <1> HIDE DEF rest
  <1>8. CASE lockWorld # focused /\ lockWorld \in alive
    <2>1. rest[lockWorld] \in Seq(Call)
      BY <1>3, <1>6, <1>8
    <2>2. /\ Append(rest[lockWorld], Unregister) \in Seq(Call)
          /\ In(Unregister, Append(rest[lockWorld], Unregister))
      BY <2>1, AppendContains
    <2>3. /\ inbox' \in [World -> Seq(Call)]
          /\ In(Unregister, inbox'[lockWorld])
          /\ \A v \in World \ {lockWorld} : inbox'[v] = rest[v]
      BY <1>3, <1>6, <1>7, <1>8, <2>2
    <2>4. \A v \in World : In(Unregister, inbox'[v]) <=> In(Unregister, inbox[v]) \/ v = lockWorld
      BY <1>4, <2>3
    <2>5. \A v \in World : Leaving(v)' <=> Leaving(v) \/ v = lockWorld
      BY <2>4 DEF Leaving, In
    <2> QED
      BY <1>5, <1>6, <1>8, <2>3, <2>5
  <1>9. CASE ~(lockWorld # focused /\ lockWorld \in alive)
    BY <1>3, <1>4, <1>5, <1>7, <1>9 DEF Leaving, In
  <1> QED
    BY <1>8, <1>9

LEMMA ClosureType ==
  ASSUME TypeOK, NEW w \in World, RunClosure(w)
  PROVE  TypeOK'
  <1>1. ASSUME NEW c \in Rpc, NotReadyBody(w, c) \/ MoveHold(w, c)
        PROVE  TypeOK'
    <2>1. DispatchTypeOK'
      BY <1>1, TakeClosureType, TrySetType
      DEF TypeOK, NotReadyBody, MoveHold, DispatchTypeOK, Outcome, Rpc
    <2> QED
      BY <1>1, <2>1 DEF NotReadyBody, MoveHold, TypeOK, WorldsTypeOK, worldVars, lockVars, otherVars
  <1>2. ASSUME NEW c \in Rpc, ApplyHold(w, c)
        PROVE  TypeOK'
    <2>1. focused \in World /\ inbox' \in [World -> Seq(Call)]
      BY <1>2, ApplyHoldInbox
    <2> QED
      BY <1>2, <2>1 DEF ApplyHold, TypeOK, WorldsTypeOK, DispatchTypeOK, worldVars, WorldRef, Rpc
  <1>3. ASSUME NEW c \in Rpc, ReleaseAsync(w, c)
        PROVE  TypeOK'
    <2>1. DispatchTypeOK'
      BY <1>3, TakeClosureType, TrySetType
      DEF TypeOK, ReleaseAsync, DispatchTypeOK, Outcome, Rpc
    <2> QED
      BY <1>3, <2>1 DEF ReleaseAsync, TypeOK, WorldsTypeOK, worldVars, otherVars, WorldRef
  <1>4. ASSUME TryUnregister(w)
        PROVE  TypeOK'
    <2>1. DispatchTypeOK'
      BY <1>4, TakeClosureType DEF TypeOK, TryUnregister, DispatchTypeOK
    <2> QED
      BY <1>4, <2>1 DEF TryUnregister, TypeOK, WorldsTypeOK, worldVars, otherVars
  <1> QED
    BY <1>1, <1>2, <1>3, <1>4 DEF RunClosure

LEMMA EnterHoldType == ASSUME TypeOK, EnterHold PROVE TypeOK'
  <1>1. holding.world \in WorldRef /\ holding.call \in Call
    BY DEF TypeOK
  <1>2. rpc' \in [Call -> {"idle", "resolved", "awaiting"} \cup Outcome]
    BY <1>1, TrySetType DEF TypeOK, EnterHold, Outcome
  <1> QED
    BY <1>1, <1>2 DEF EnterHold, NoHold, TypeOK, WorldsTypeOK, DispatchTypeOK, worldVars, WorldRef

(* QueueUnregister adds a removal to the world of the lock and to no other.*)
LEMMA PostContains ==
  ASSUME DispatchTypeOK, NEW w \in World, inbox' = PostUnregister(w)
  PROVE  /\ inbox' \in [World -> Seq(Call)]
         /\ \A v \in World : Leaving(v)' <=> Leaving(v) \/ v = w
  <1>1. inbox \in [World -> Seq(Call)] /\ inbox[w] \in Seq(Call)
    BY DEF DispatchTypeOK
  <1>2. /\ Append(inbox[w], Unregister) \in Seq(Call)
        /\ In(Unregister, Append(inbox[w], Unregister))
    BY <1>1, AppendContains
  <1>3. /\ inbox'[w] = Append(inbox[w], Unregister)
        /\ \A v \in World \ {w} : inbox'[v] = inbox[v]
        /\ inbox' \in [World -> Seq(Call)]
    BY <1>1, <1>2 DEF PostUnregister
  <1> QED
    BY <1>2, <1>3 DEF Leaving, In

LEMMA DisposeType ==
  ASSUME TypeOK, Unhold \/ QueueUnregister \/ UnpatchSelf
  PROVE  TypeOK'
  <1>1. CASE Unhold
    BY <1>1 DEF Unhold, TypeOK, WorldsTypeOK, DispatchTypeOK, worldVars, dispatchVars
  <1>2. CASE QueueUnregister
    <2>1. inbox' \in [World -> Seq(Call)]
      <3>1. CASE lockWorld \in alive
        BY <1>2, <3>1, PostContains DEF QueueUnregister, TypeOK, WorldsTypeOK
      <3>2. CASE lockWorld \notin alive
        BY <1>2, <3>2 DEF QueueUnregister, TypeOK, DispatchTypeOK
      <3> QED
        BY <3>1, <3>2
    <2> QED
      BY <1>2, <2>1 DEF QueueUnregister, TypeOK, WorldsTypeOK, DispatchTypeOK, worldVars, lockVars
  <1>3. CASE UnpatchSelf
    BY <1>3 DEF UnpatchSelf, TypeOK, WorldsTypeOK, DispatchTypeOK, worldVars, dispatchVars, lockVars
  <1> QED
    BY <1>1, <1>2, <1>3

LEMMA WorldStepType ==
  ASSUME TypeOK,
         (\E w \in WorldRef : Refocus(w)) \/ (\E w \in World : CloseWorld(w))
  PROVE  TypeOK'
  <1>1. ASSUME NEW w \in WorldRef, Refocus(w)
        PROVE  TypeOK'
    <2>1. WorldsTypeOK'
      BY <1>1, FocusWorldsType DEF TypeOK, Refocus
    <2> QED
      BY <1>1, <2>1 DEF Refocus, TypeOK, DispatchTypeOK, dispatchVars, lockVars, otherVars
  <1>2. ASSUME NEW w \in World, CloseWorld(w)
        PROVE  TypeOK'
    <2>1. WorldsTypeOK' /\ DispatchTypeOK'
      BY <1>2, CloseWorldsType, CloseInboxType DEF TypeOK, CloseWorld
    <2> QED
      BY <1>2, <2>1 DEF CloseWorld, TypeOK, otherVars
  <1> QED
    BY <1>1, <1>2

LEMMA CursorNextType == TypeOK /\ [Next]_vars => TypeOK'
  <1> SUFFICES ASSUME TypeOK, [Next]_vars PROVE TypeOK'
    OBVIOUS
  <1>1. CASE \E c \in Rpc : HoldUnavailable(c) \/ Dispatch(c)
    BY <1>1, DispatchStepType
  <1>2. CASE \E w \in World : RunClosure(w)
    BY <1>2, ClosureType
  <1>3. CASE EnterHold
    BY <1>3, EnterHoldType
  <1>4. CASE (\E w \in WorldRef : Refocus(w)) \/ (\E w \in World : CloseWorld(w))
    BY <1>4, WorldStepType
  <1>5. CASE Unhold \/ QueueUnregister \/ UnpatchSelf
    BY <1>5, DisposeType
  <1>6. CASE UNCHANGED vars
    BY <1>6 DEF vars, TypeOK, WorldsTypeOK, DispatchTypeOK, worldVars, dispatchVars, lockVars, otherVars
  <1> QED
    BY <1>1, <1>2, <1>3, <1>4, <1>5, <1>6 DEF Next

(* The cursor bridge, its calls and the engine's locks stay well typed.    *)
THEOREM CursorTypeCorrect == Spec => []TypeOK
  BY CursorInitType, CursorNextType, PTL DEF Spec

-----------------------------------------------------------------------------
(* The strengthening CursorInv, one conjunct after the other.              *)

LEMMA CursorInitInv == Init => CursorInv
  <1> SUFFICES ASSUME Init PROVE CursorInv
    OBVIOUS
  <1>1. PICK w \in WorldRef : WorldsInit(w)
    BY DEF Init
  <1>2. /\ EngineIdle /\ ~_disposed /\ ~held
        /\ lockWorld = NoWorld /\ Standing = NoWorld /\ locked = {}
    BY DEF Init, EngineIdle, Standing, _disposed
  <1>3. LocksTracked
    BY <1>1, <1>2 DEF LocksTracked, WorldsInit, WorldRef
  <1>4. inbox = [v \in World |-> <<>>] /\ \A c \in Rpc : rpc[c] = "idle"
    BY DEF Init, DispatchInit, Rpc
  <1>5. FieldsAgree
    BY <1>2, <1>4 DEF FieldsAgree
  <1>6. NotLate /\ LockStays
    BY <1>2 DEF NotLate, LockStays
  <1> QED
    BY <1>3, <1>5, <1>6 DEF CursorInv

(* Steps that do nothing about locks: calls on their way, and holds that   *)
(* are refused or only move.                                               *)
Calm ==
  /\ UNCHANGED <<worldVars, lockVars, otherVars>>
  /\ \A v \in World : Leaving(v)' <=> Leaving(v)

LEMMA TakeLeaving ==
  ASSUME TypeOK, NEW w \in World, NEW c \in Rpc, TakeClosure(w, c)
  PROVE  \A v \in World : Leaving(v)' <=> Leaving(v)
  <1>1. \A v \in World : In(Unregister, inbox'[v]) <=> In(Unregister, inbox[v])
    BY TakeClosureContains DEF TypeOK, Rpc
  <1> QED
    BY <1>1 DEF Leaving, In

LEMMA CalmSteps ==
  ASSUME TypeOK,
         NEW c \in Rpc,
         \/ HoldUnavailable(c) \/ Dispatch(c)
         \/ \E w \in World : NotReadyBody(w, c) \/ MoveHold(w, c)
  PROVE  Calm
  <1>1. CASE HoldUnavailable(c)
    BY <1>1 DEF HoldUnavailable, Calm, Leaving
  <1>2. CASE Dispatch(c)
    <2>1. CASE UNCHANGED inbox
      BY <1>2, <2>1
      DEF Dispatch, ResolveWorld, RunOnEngine, CancelCall, Calm, Leaving
    <2>2. CASE ~UNCHANGED inbox
      <3>1. /\ RunOnEngine(c)
            /\ target[c] \in alive
            /\ inbox' = [inbox EXCEPT ![target[c]] = Append(@, c)]
        BY <1>2, <2>2 DEF Dispatch, ResolveWorld, RunOnEngine, CancelCall
      <3>2. target[c] \in World /\ inbox[target[c]] \in Seq(Call) /\ c \in Call /\ c # Unregister
        BY <3>1 DEF TypeOK, WorldsTypeOK, DispatchTypeOK, Rpc
      <3>3. In(Unregister, Append(inbox[target[c]], c)) <=> In(Unregister, inbox[target[c]])
        BY <3>2, AppendContains
      <3>4. \A v \in World : In(Unregister, inbox'[v]) <=> In(Unregister, inbox[v])
        BY <3>1, <3>2, <3>3 DEF TypeOK, DispatchTypeOK
      <3>5. \A v \in World : Leaving(v)' <=> Leaving(v)
        BY <3>4 DEF Leaving, In
      <3> QED
        BY <1>2, <3>1, <3>5 DEF Dispatch, RunOnEngine, Calm
    <2> QED
      BY <2>1, <2>2
  <1>3. ASSUME NEW w \in World, NotReadyBody(w, c) \/ MoveHold(w, c)
        PROVE  Calm
    BY <1>3, TakeLeaving DEF NotReadyBody, MoveHold, Calm
  <1> QED
    BY <1>1, <1>2, <1>3

LEMMA UnregisterLeaving ==
  ASSUME TypeOK, NEW w \in World, TryUnregister(w)
  PROVE  /\ Leaving(w)
         /\ \A v \in World : Leaving(v)' => Leaving(v)
         /\ \A v \in World \ {w} : Leaving(v) => Leaving(v)'
  <1>1. /\ In(Unregister, inbox[w])
        /\ \A v \in World : In(Unregister, inbox'[v]) => In(Unregister, inbox[v])
        /\ \A v \in World \ {w} : inbox'[v] = inbox[v]
    BY TakeClosureContains DEF TypeOK, TryUnregister
  <1> QED
    BY <1>1 DEF Leaving, In

LEMMA CloseLeaving ==
  ASSUME TypeOK, NEW w \in World, CloseWorld(w)
  PROVE  /\ \A v \in World : Leaving(v)' => Leaving(v)
         /\ \A v \in World \ {w} : Leaving(v) => Leaving(v)'
  <1>1. inbox'[w] = <<>> /\ \A v \in World \ {w} : inbox'[v] = inbox[v]
    BY DEF TypeOK, DispatchTypeOK, CloseWorld, CloseInbox
  <1> QED
    BY <1>1 DEF Leaving

LEMMA CalmInv ==
  ASSUME TypeOK, CursorInv,
         NEW c \in Rpc,
         \/ HoldUnavailable(c) \/ Dispatch(c)
         \/ \E w \in World : NotReadyBody(w, c) \/ MoveHold(w, c)
  PROVE  CursorInv'
  <1>1. Calm
    BY CalmSteps
  <1>2. UNCHANGED <<EngineIdle, Standing, _disposed, ReadState, held, lockWorld, locked, patched, late, doomed, alive, opened, focused>>
    BY <1>1 DEF Calm, EngineIdle, Standing, _disposed, ReadState, worldVars, lockVars, otherVars
  <1>3. locked \subseteq World /\ alive \subseteq World
    BY DEF TypeOK, WorldsTypeOK
  <1>4. LocksTracked'
    BY <1>1, <1>2, <1>3 DEF Calm, CursorInv, LocksTracked
  <1>5. FieldsAgree'
    <2>1. CASE patched \/ _disposed
      BY <1>2, <2>1 DEF CursorInv, FieldsAgree
    <2>2. CASE ~patched /\ ~_disposed
      <3>1. /\ inbox = [w \in World |-> <<>>] /\ locked = {} /\ EngineIdle
            /\ \A d \in Rpc : rpc[d] \notin {"resolved", "awaiting"}
        BY <2>2 DEF CursorInv, FieldsAgree
      <3>2. HoldUnavailable(c)
        BY <2>2, <3>1
        DEF Dispatch, RunOnEngine, CancelCall, NotReadyBody, MoveHold, TakeClosure
      <3>3. inbox' = inbox /\ \A d \in Rpc : rpc'[d] \notin {"resolved", "awaiting"}
        BY <3>1, <3>2 DEF HoldUnavailable, TypeOK, DispatchTypeOK, Rpc
      <3> QED
        BY <1>2, <3>1, <3>3 DEF CursorInv, FieldsAgree
    <2> QED
      BY <2>1, <2>2
  <1>6. NotLate'
    BY <1>2 DEF CursorInv, NotLate
  <1>7. LockStays'
    BY <1>1, <1>2, <1>3 DEF Calm, CursorInv, LockStays
  <1> QED
    BY <1>4, <1>5, <1>6, <1>7 DEF CursorInv

LEMMA ApplyHoldInv ==
  ASSUME TypeOK, CursorInv, NEW w \in World, NEW c \in Rpc, ApplyHold(w, c)
  PROVE  CursorInv'
  <1>1. /\ focused \in World
        /\ \A v \in World : Leaving(v) => Leaving(v)'
        /\ \A v \in World : Leaving(v)' => Leaving(v) \/ (v = lockWorld /\ v # focused)
        /\ \A v \in alive : v = lockWorld /\ v # focused => Leaving(v)'
    BY ApplyHoldInbox
  <1>2. /\ EngineIdle /\ ~EngineIdle' /\ Standing = lockWorld /\ Standing' = focused
        /\ UNCHANGED <<alive, opened, focused, held, lockWorld, patched, disposal>>
        /\ locked' = locked \cup {focused}
    BY <1>1, WorldsAssumption DEF ApplyHold, EngineIdle, Standing, NoHold, worldVars
  <1>3. /\ locked \subseteq alive /\ focused \in alive /\ alive \subseteq opened /\ alive \subseteq World
        /\ \A v \in locked : Leaving(v) \/ v = lockWorld
    BY <1>1, <1>2, WorldsAssumption DEF CursorInv, LocksTracked, TypeOK, WorldsTypeOK
  <1>4. LocksTracked'
    BY <1>1, <1>2, <1>3 DEF LocksTracked
  <1>5. FieldsAgree'
    <2>1. inbox[w] # <<>>
      BY DEF ApplyHold
    <2> QED
      BY <1>2, <2>1 DEF CursorInv, FieldsAgree, _disposed
  <1>6. NotLate'
    BY <1>2 DEF ApplyHold, NotLate, _disposed
  <1>7. LockStays'
    <2>1. ~ReadState'
      BY <1>2 DEF ApplyHold, ReadState
    <2>2. ~doomed' => ~Leaving(focused)
      BY DEF ApplyHold
    <2>3. ~doomed' => \A v \in World : v = focused => ~Leaving(v)'
      BY <1>1, <2>2
    <2> QED
      BY <1>2, <1>3, <2>1, <2>3 DEF LockStays
  <1> QED
    BY <1>4, <1>5, <1>6, <1>7 DEF CursorInv

LEMMA EnterHoldInv ==
  ASSUME TypeOK, CursorInv, EnterHold
  PROVE  CursorInv'
  <1>1. /\ ~EngineIdle /\ EngineIdle' /\ Standing' = Standing /\ lockWorld' = Standing /\ held'
        /\ UNCHANGED <<alive, opened, focused, locked, inbox, patched, disposal, doomed>>
        /\ late' = (late \/ _disposed)
    BY DEF EnterHold, EngineIdle, Standing, worldVars
  <1>2. \A v \in World : Leaving(v)' <=> Leaving(v)
    BY <1>1 DEF Leaving
  <1>3. locked \subseteq World /\ alive \subseteq World
    BY DEF TypeOK, WorldsTypeOK
  <1>4. LocksTracked'
    BY <1>1, <1>2, <1>3 DEF CursorInv, LocksTracked
  <1>5. FieldsAgree'
    BY <1>1 DEF CursorInv, FieldsAgree, _disposed
  <1>6. NotLate'
    BY <1>1 DEF NotLate, _disposed
  <1>7. LockStays'
    BY <1>1, <1>2, <1>3 DEF CursorInv, LockStays
  <1> QED
    BY <1>4, <1>5, <1>6, <1>7 DEF CursorInv

LEMMA ReleaseInv ==
  ASSUME TypeOK, CursorInv, NEW w \in World, NEW c \in Rpc, ReleaseAsync(w, c)
  PROVE  CursorInv'
  <1>1. /\ EngineIdle /\ EngineIdle' /\ Standing = lockWorld /\ Standing' = NoWorld
        /\ lockWorld' = NoWorld /\ ~held' /\ locked' = locked \ {lockWorld}
        /\ UNCHANGED <<alive, opened, focused, patched, disposal, late>>
        /\ inbox[w] # <<>>
    BY DEF ReleaseAsync, TakeClosure, EngineIdle, Standing, worldVars, otherVars
  <1>2. \A v \in World : Leaving(v)' <=> Leaving(v)
    BY TakeLeaving DEF ReleaseAsync
  <1>3. locked \subseteq World
    BY DEF TypeOK
  <1>4. LocksTracked'
    BY <1>1, <1>2, <1>3 DEF CursorInv, LocksTracked
  <1>5. FieldsAgree'
    BY <1>1 DEF CursorInv, FieldsAgree, _disposed
  <1>6. NotLate' /\ LockStays'
    BY <1>1 DEF NotLate, LockStays
  <1> QED
    BY <1>4, <1>5, <1>6 DEF CursorInv

LEMMA TryUnregisterInv ==
  ASSUME TypeOK, CursorInv, NEW w \in World, TryUnregister(w)
  PROVE  CursorInv'
  <1>1. /\ EngineIdle /\ EngineIdle' /\ Standing = lockWorld /\ Standing' = lockWorld
        /\ locked' = locked \ {w} /\ inbox[w] # <<>>
        /\ UNCHANGED <<alive, opened, focused, held, lockWorld, patched, disposal, doomed, late>>
    BY DEF TryUnregister, TakeClosure, EngineIdle, Standing, worldVars, otherVars
  <1>2. /\ Leaving(w)
        /\ \A v \in World : Leaving(v)' => Leaving(v)
        /\ \A v \in World \ {w} : Leaving(v) => Leaving(v)'
    BY UnregisterLeaving
  <1>3. locked \subseteq World /\ alive \subseteq World
    BY DEF TypeOK, WorldsTypeOK
  <1>4. LocksTracked'
    BY <1>1, <1>2, <1>3 DEF CursorInv, LocksTracked
  <1>5. FieldsAgree'
    BY <1>1 DEF CursorInv, FieldsAgree, _disposed
  <1>6. NotLate'
    BY <1>1 DEF CursorInv, NotLate, _disposed
  <1>7. LockStays'
    BY <1>1, <1>2, <1>3 DEF CursorInv, LockStays
  <1> QED
    BY <1>4, <1>5, <1>6, <1>7 DEF CursorInv

LEMMA DisposeInv ==
  ASSUME TypeOK, CursorInv, Unhold \/ QueueUnregister \/ UnpatchSelf
  PROVE  CursorInv'
  <1>1. /\ _disposed' /\ EngineIdle' = EngineIdle /\ Standing' = Standing
        /\ UNCHANGED <<alive, opened, focused, lockWorld, locked, doomed>>
    BY DEF Unhold, QueueUnregister, UnpatchSelf, _disposed, EngineIdle, Standing, worldVars, lockVars
  <1>2. \A v \in World : Leaving(v) => Leaving(v)'
    <2>1. CASE UNCHANGED inbox
      BY <2>1 DEF Leaving
    <2>2. CASE ~UNCHANGED inbox
      <3>1. lockWorld \in World /\ inbox' = PostUnregister(lockWorld)
        BY <2>2 DEF Unhold, QueueUnregister, UnpatchSelf, dispatchVars, TypeOK, WorldsTypeOK
      <3> QED
        BY <3>1, PostContains DEF TypeOK
    <2> QED
      BY <2>1, <2>2
  <1>3. ~late' => EngineIdle /\ ~held'
    BY DEF Unhold, QueueUnregister, UnpatchSelf, lockVars, CursorInv, NotLate, _disposed, EngineIdle
  <1>4. LocksTracked'
    BY <1>1, <1>2 DEF CursorInv, LocksTracked, TypeOK
  <1>5. FieldsAgree' /\ NotLate' /\ LockStays'
    BY <1>1, <1>3 DEF FieldsAgree, NotLate, LockStays
  <1> QED
    BY <1>4, <1>5 DEF CursorInv

LEMMA RefocusInv ==
  ASSUME TypeOK, CursorInv, NEW w \in WorldRef, Refocus(w)
  PROVE  CursorInv'
  <1>1. /\ EngineIdle /\ EngineIdle' /\ Standing' = Standing
        /\ UNCHANGED <<held, lockWorld, locked, inbox, rpc, patched, disposal, doomed, late>>
    BY DEF Refocus, EngineIdle, Standing, dispatchVars, lockVars, otherVars
  <1>2. \A v \in World : Leaving(v)' <=> Leaving(v)
    BY <1>1 DEF Leaving
  <1>3. /\ alive \subseteq alive' /\ opened \subseteq opened' /\ alive' \subseteq World
        /\ focused' \in alive' \cup {NoWorld}
        /\ alive' \cap opened \subseteq alive
    BY WorldsAssumption DEF Refocus, Focus, TypeOK, WorldsTypeOK, WorldRef
  <1>4. LocksTracked'
    BY <1>1, <1>2, <1>3 DEF CursorInv, LocksTracked
  <1>5. FieldsAgree' /\ NotLate'
    BY <1>1 DEF CursorInv, FieldsAgree, NotLate, _disposed
  <1>6. \A v \in alive' : v = Standing => v \in alive
    BY <1>3, WorldsAssumption DEF CursorInv, LocksTracked
  <1>7. LockStays'
    BY <1>1, <1>2, <1>3, <1>6 DEF CursorInv, LockStays
  <1> QED
    BY <1>4, <1>5, <1>7 DEF CursorInv

LEMMA CloseWorldInv ==
  ASSUME TypeOK, CursorInv, NEW w \in World, CloseWorld(w)
  PROVE  CursorInv'
  <1>1. /\ EngineIdle' = EngineIdle /\ Standing' = Standing
        /\ locked' = locked \ {w} /\ alive' = alive \ {w} /\ opened' = opened
        /\ focused' = IF focused = w THEN NoWorld ELSE focused
        /\ inbox' = [inbox EXCEPT ![w] = <<>>]
        /\ UNCHANGED <<held, lockWorld, rpc, patched, disposal, doomed, late>>
    BY DEF CloseWorld, Close, CloseInbox, EngineIdle, Standing, otherVars
  <1>2. /\ \A v \in World : Leaving(v)' => Leaving(v)
        /\ \A v \in World \ {w} : Leaving(v) => Leaving(v)'
    BY CloseLeaving
  <1>3. locked \subseteq World /\ alive \subseteq World
    BY DEF TypeOK, WorldsTypeOK
  <1>4. LocksTracked'
    BY <1>1, <1>2, <1>3 DEF CursorInv, LocksTracked
  <1>5. FieldsAgree'
    BY <1>1 DEF CursorInv, FieldsAgree, _disposed
  <1>6. NotLate'
    BY <1>1 DEF CursorInv, NotLate, _disposed
  <1>7. ReadState' => ReadState
    BY <1>1, <1>3, WorldsAssumption DEF ReadState
  <1>8. LockStays'
    BY <1>1, <1>2, <1>3, <1>7 DEF CursorInv, LockStays
  <1> QED
    BY <1>4, <1>5, <1>6, <1>8 DEF CursorInv

LEMMA CursorNextInv == TypeOK /\ CursorInv /\ [Next]_vars => CursorInv'
  <1> SUFFICES ASSUME TypeOK, CursorInv, [Next]_vars PROVE CursorInv'
    OBVIOUS
  <1>1. CASE \E c \in Rpc : HoldUnavailable(c) \/ Dispatch(c)
    BY <1>1, CalmInv
  <1>2. CASE \E w \in World : RunClosure(w)
    BY <1>2, CalmInv, ApplyHoldInv, ReleaseInv, TryUnregisterInv DEF RunClosure
  <1>3. CASE EnterHold
    BY <1>3, EnterHoldInv
  <1>4. CASE (\E w \in WorldRef : Refocus(w)) \/ (\E w \in World : CloseWorld(w))
    BY <1>4, RefocusInv, CloseWorldInv
  <1>5. CASE Unhold \/ QueueUnregister \/ UnpatchSelf
    BY <1>5, DisposeInv
  <1>6. CASE UNCHANGED vars
    <2>1. UNCHANGED <<EngineIdle, Standing, _disposed, ReadState, held, lockWorld, locked, inbox, rpc, patched, late, doomed, alive, opened, focused>>
      BY <1>6 DEF vars, EngineIdle, Standing, _disposed, ReadState, worldVars, dispatchVars, lockVars, otherVars
    <2>2. \A v \in World : Leaving(v)' <=> Leaving(v)
      BY <2>1 DEF Leaving
    <2>3. locked \subseteq World /\ alive \subseteq World
      BY DEF TypeOK, WorldsTypeOK
    <2>4. LocksTracked' /\ LockStays'
      BY <2>1, <2>2, <2>3 DEF CursorInv, LocksTracked, LockStays
    <2>5. FieldsAgree' /\ NotLate'
      BY <2>1 DEF CursorInv, FieldsAgree, NotLate
    <2> QED
      BY <2>4, <2>5 DEF CursorInv
  <1> QED
    BY <1>1, <1>2, <1>3, <1>4, <1>5, <1>6 DEF Next

LEMMA CursorInvHolds == Spec => [](TypeOK /\ CursorInv)
  <1>1. Init => TypeOK /\ CursorInv
    BY CursorInitType, CursorInitInv
  <1>2. TypeOK /\ CursorInv /\ [Next]_vars => (TypeOK /\ CursorInv)'
    BY CursorNextType, CursorNextInv
  <1> QED
    BY <1>1, <1>2, PTL DEF Spec

-----------------------------------------------------------------------------
(* What follows for the operator of the machine and for the clients.       *)

(* Between two closures no lock takes the system's pointer: each one is    *)
(* hidden by the postfix, or its removal is queued in its world.           *)
THEOREM LocksAreHidden == Spec => []LocksHidden
  <1>1. ASSUME TypeOK, CursorInv PROVE LocksHidden
    <2> SUFFICES ASSUME EngineIdle, ~_disposed, NEW w \in locked, ~Leaving(w)
                 PROVE  Hidden(w)
      BY DEF LocksHidden
    <2>1. w = lockWorld /\ w # NoWorld
      BY <1>1, WorldsAssumption DEF TypeOK, CursorInv, LocksTracked, Standing
    <2>2. held /\ patched
      BY <1>1, <2>1 DEF CursorInv, FieldsAgree
    <2> QED
      BY <2>1, <2>2 DEF Hidden
  <1> QED
    BY <1>1, CursorInvHolds, PTL

(* A hold that a response reports has its lock in the focused world, when  *)
(* no removal was pending there as it was applied.                         *)
THEOREM HeldStaysLocked == Spec => []HeldIsLocked
  <1>1. ASSUME TypeOK, CursorInv PROVE HeldIsLocked
    <2> SUFFICES ASSUME ReadState, ~doomed, ~late PROVE lockWorld \in locked
      BY DEF HeldIsLocked
    <2>1. EngineIdle
      BY <1>1 DEF CursorInv, LockStays
    <2> QED
      BY <1>1, <2>1 DEF CursorInv, LockStays, Standing, ReadState
  <1> QED
    BY <1>1, CursorInvHolds, PTL

LEMMA DisposeReleasesStep ==
  ASSUME TypeOK, CursorInv, DisposeReleases, [Next]_vars
  PROVE  DisposeReleases'
  <1> SUFFICES ASSUME disposal' \in {"queued", "done"}, ~late'
               PROVE  ~held' /\ \A v \in locked' : Leaving(v)'
    BY DEF DisposeReleases
  <1>1. locked \subseteq World
    BY DEF TypeOK
  <1>2. CASE \E c \in Rpc : HoldUnavailable(c) \/ Dispatch(c)
    <2>1. Calm
      BY <1>2, CalmSteps
    <2> QED
      BY <1>1, <2>1 DEF Calm, lockVars, otherVars, DisposeReleases
  <1>3. CASE \E w \in World : RunClosure(w)
    <2> PICK w \in World : RunClosure(w)
      BY <1>3
    <2>1. ASSUME NEW c \in Rpc, NotReadyBody(w, c) \/ MoveHold(w, c)
          PROVE  ~held' /\ \A v \in locked' : Leaving(v)'
      <3>1. Calm
        BY <2>1, CalmSteps
      <3> QED
        BY <1>1, <3>1 DEF Calm, lockVars, otherVars, DisposeReleases
    <2>2. ASSUME NEW c \in Rpc, ApplyHold(w, c)
          PROVE  FALSE
      BY <2>2 DEF ApplyHold, _disposed
    <2>3. ASSUME NEW c \in Rpc, ReleaseAsync(w, c)
          PROVE  ~held' /\ \A v \in locked' : Leaving(v)'
      <3>1. \A v \in World : Leaving(v)' <=> Leaving(v)
        BY <2>3, TakeLeaving DEF ReleaseAsync
      <3> QED
        BY <1>1, <2>3, <3>1 DEF ReleaseAsync, otherVars, DisposeReleases
    <2>4. ASSUME TryUnregister(w)
          PROVE  ~held' /\ \A v \in locked' : Leaving(v)'
      BY <1>1, <2>4, UnregisterLeaving DEF TryUnregister, otherVars, DisposeReleases
    <2> QED
      BY <2>1, <2>2, <2>3, <2>4 DEF RunClosure
  <1>4. CASE EnterHold
    <2>1. ~_disposed
      BY <1>4 DEF EnterHold, EngineIdle
    <2> QED
      BY <1>4, <2>1 DEF EnterHold, _disposed
  <1>5. ASSUME NEW w \in WorldRef, Refocus(w)
        PROVE  ~held' /\ \A v \in locked' : Leaving(v)'
    BY <1>5 DEF Refocus, dispatchVars, lockVars, otherVars, DisposeReleases, Leaving
  <1>6. ASSUME NEW w \in World, CloseWorld(w)
        PROVE  ~held' /\ \A v \in locked' : Leaving(v)'
    BY <1>1, <1>6, CloseLeaving DEF CloseWorld, otherVars, DisposeReleases
  <1>7. CASE Unhold
    BY <1>7 DEF Unhold
  <1>8. CASE QueueUnregister
    <2>1. EngineIdle /\ ~held /\ UNCHANGED <<held, locked>>
      BY <1>8 DEF QueueUnregister, lockVars, CursorInv, NotLate, _disposed
    <2>2. \A v \in locked : Leaving(v) \/ (v = lockWorld /\ v \in alive)
      BY <2>1 DEF CursorInv, LocksTracked, Standing
    <2>3. CASE lockWorld \in alive
      <3>1. lockWorld \in World /\ inbox' = PostUnregister(lockWorld) /\ DispatchTypeOK
        BY <1>8, <2>3 DEF QueueUnregister, TypeOK, WorldsTypeOK
      <3>2. \A v \in World : Leaving(v)' <=> Leaving(v) \/ v = lockWorld
        BY <3>1, PostContains
      <3> QED
        BY <1>1, <2>1, <2>2, <3>2
    <2>4. CASE lockWorld \notin alive
      <3>1. \A v \in World : Leaving(v)' <=> Leaving(v)
        BY <1>8, <2>4 DEF QueueUnregister, Leaving
      <3> QED
        BY <1>1, <2>1, <2>2, <2>4, <3>1
    <2> QED
      BY <2>3, <2>4
  <1>9. CASE UnpatchSelf
    BY <1>9 DEF UnpatchSelf, dispatchVars, lockVars, DisposeReleases, Leaving
  <1>10. CASE UNCHANGED vars
    BY <1>10 DEF vars, dispatchVars, lockVars, otherVars, DisposeReleases, Leaving
  <1> QED
    BY <1>2, <1>3, <1>4, <1>5, <1>6, <1>7, <1>8, <1>9, <1>10 DEF Next

(* Dispose leaves no lock behind whose removal is not queued, unless a     *)
(* hold was in progress as it began or was applied later.                  *)
THEOREM DisposeLeavesNone == Spec => []DisposeReleases
  <1>1. Init => DisposeReleases
    BY DEF Init, DisposeReleases
  <1>2. TypeOK /\ CursorInv /\ DisposeReleases /\ [Next]_vars => DisposeReleases'
    BY DisposeReleasesStep
  <1> QED
    BY <1>1, <1>2, CursorInvHolds, PTL DEF Spec
=============================================================================
