--------------------------- MODULE LauncherProofs ---------------------------
(***************************************************************************)
(* Theorems about Launcher for every set of PIDs, launches and stops and   *)
(* any number of processes.                                                *)
(***************************************************************************)
EXTENDS Launcher, FiniteSetTheorems, TLAPS

USE LauncherAssumption

-----------------------------------------------------------------------------
(* Type correctness, in four parts.                                        *)

ProcessType ==
  /\ table \in [Pid -> Process]
  /\ created \in Number
  /\ chain \in [Launch -> {"none", "umu", "engine", "renderer"}]
LaunchType == launch \in [Launch -> LaunchState]
StopType == stop \in [Stop -> StopState]
HitType == hit \subseteq [asked : Role, was : Program, found : BOOLEAN]

LEMMA TypeParts == TypeOK <=> ProcessType /\ LaunchType /\ StopType /\ HitType
  BY DEF TypeOK, ProcessType, LaunchType, StopType, HitType

LEMMA Constants ==
  /\ NoProcess \in Process
  /\ IdleLaunch \in LaunchState
  /\ [IdleLaunch EXCEPT !.pc = "error"] \in LaunchState
  /\ IdleStop \in StopState
  <1>1. NoProcess \in Process
    BY DEF NoProcess, Process, Program, Owner, PidRef, Number
  <1>2. IdleLaunch \in LaunchState /\ [IdleLaunch EXCEPT !.pc = "error"] \in LaunchState
    BY DEF IdleLaunch, LaunchState, LaunchPc
  <1>3. IdleStop \in StopState
    BY DEF IdleStop, StopState, StopPc, Pair, NoPair, PidRef, Role, Owner, Number
  <1> QED
    BY <1>1, <1>2, <1>3

LEMMA LauncherInitType == Init => TypeOK
  <1> SUFFICES ASSUME Init PROVE TypeOK
    OBVIOUS
  <1>1. table \in [Pid -> Process] /\ created \in Number
    <2>1. CASE table = [p \in Pid |-> NoProcess] /\ created = 0
      BY <2>1, Constants DEF Number
    <2>2. CASE ~(table = [p \in Pid |-> NoProcess] /\ created = 0)
      <3>1. PICK e \in Pid, r \in Pid, parent \in PidRef : table = Instance(e, r, parent)
        BY <2>2 DEF Init, PidRef
      <3>2. MaxProcess >= 2 /\ created = 2 /\ {1, 2} \subseteq Number
        BY <2>2 DEF Init, Number
      <3>3. /\ [NoProcess EXCEPT !.role = "engine", !.alive = TRUE, !.born = 1] \in Process
            /\ [NoProcess EXCEPT !.role = "renderer", !.alive = TRUE, !.born = 2, !.parent = parent] \in Process
        BY <3>2 DEF NoProcess, Process, Program, Owner, PidRef, Number, Role
      <3> QED
        BY <3>1, <3>2, <3>3, Constants DEF Instance
    <2> QED
      BY <2>1, <2>2
  <1>2. ProcessType
    BY <1>1 DEF Init, ProcessType
  <1>3. LaunchType
    BY Constants DEF Init, LaunchType
  <1>4. StopType /\ HitType
    BY Constants DEF Init, StopType, HitType
  <1> QED
    BY <1>2, <1>3, <1>4, TypeParts

(* A process that has ended is of the right kind, and so are its children. *)
LEMMA EndedType ==
  ASSUME ProcessType, NEW p \in Pid
  PROVE  Ended(p) \in [Pid -> Process]
  <1> DEFINE dead == [NoProcess EXCEPT !.born = table[p].born]
  <1>1. table[p].born \in Number
    BY DEF ProcessType, Process
  <1>2. dead \in Process
    BY <1>1 DEF NoProcess, Process, Program, Owner, PidRef, Number
  <1>3. ASSUME NEW q \in Pid
        PROVE  [table[q] EXCEPT !.parent = NoPid] \in Process
    BY DEF ProcessType, Process, PidRef
  <1>4. \A q \in Pid : table[q] \in Process
    BY DEF ProcessType
  <1> HIDE DEF dead
  <1>5. Ended(p) = [q \in Pid |-> IF q = p THEN dead
                           ELSE IF table[q].parent = p THEN [table[q] EXCEPT !.parent = NoPid]
                           ELSE table[q]]
    BY DEF Ended, dead
  <1> QED
    BY <1>2, <1>3, <1>4, <1>5

LEMMA CreateType ==
  ASSUME TypeOK, NEW p \in Pid, NEW role \in Program, NEW owner \in Owner,
         NEW parent \in PidRef, Create(p, role, owner, parent),
         chain' \in [Launch -> {"none", "umu", "engine", "renderer"}]
  PROVE  TypeOK'
  <1>1. ProcessType /\ LaunchType /\ StopType /\ HitType
    BY TypeParts
  <1>2. created + 1 \in Number
    BY <1>1 DEF ProcessType, Number, Create
  <1>3. [role |-> role, alive |-> TRUE, owner |-> owner, parent |-> parent,
         born |-> created + 1] \in Process
    BY <1>2 DEF Process
  <1>4. ProcessType'
    BY <1>1, <1>2, <1>3 DEF ProcessType, Create
  <1>5. LaunchType'
    <2>1. ASSUME NEW l \in Launch PROVE [launch[l] EXCEPT !.alone = FALSE] \in LaunchState
      BY <1>1 DEF LaunchType, LaunchState
    <2>2. \A l \in Launch : launch[l] \in LaunchState
      BY <1>1 DEF LaunchType
    <2> QED
      BY <2>1, <2>2 DEF LaunchType, Create
  <1>6. StopType' /\ HitType'
    BY <1>1 DEF StopType, HitType, Create
  <1> QED
    BY <1>4, <1>5, <1>6, TypeParts DEF TypeOK, ProcessType, LaunchType, StopType, HitType

LEMMA ProcessesType ==
  ASSUME TypeOK, Processes
  PROVE  TypeOK'
  <1>1. PICK p \in Pid : \/ \E l \in Launch : EngineStarts(l, p) \/ RendererStarts(l, p)
                         \/ OtherStarts(p) \/ Exit(p) \/ Reap(p)
    BY DEF Processes
  <1>2. ProcessType /\ LaunchType /\ StopType /\ HitType
    BY TypeParts
  <1>3. ASSUME NEW l \in Launch, EngineStarts(l, p) \/ RendererStarts(l, p)
        PROVE  TypeOK'
    <2>1. PICK role \in Program, parent \in PidRef : Create(p, role, l, parent)
      BY <1>3 DEF EngineStarts, RendererStarts, Program, Role, PidRef, Found
    <2>2. chain' \in [Launch -> {"none", "umu", "engine", "renderer"}]
      BY <1>2, <1>3 DEF EngineStarts, RendererStarts, ProcessType
    <2> QED
      BY <2>1, <2>2, CreateType DEF Owner
  <1>4. CASE OtherStarts(p)
    <2>1. chain' \in [Launch -> {"none", "umu", "engine", "renderer"}]
      BY <1>2, <1>4 DEF OtherStarts, ProcessType
    <2>2. PICK program \in Program : Create(p, program, Foreign, NoPid)
      BY <1>4 DEF OtherStarts
    <2> QED
      BY <2>1, <2>2, CreateType DEF Owner, PidRef
  <1>5. CASE Exit(p) \/ Reap(p)
    <2>1. ProcessType'
      <3>1. table' \in [Pid -> Process]
        <4>1. CASE Exit(p)
          BY <1>2, <4>1, EndedType DEF Exit
        <4>2. CASE Reap(p)
          BY <1>2, <4>2, Constants DEF Reap, ProcessType
        <4> QED
          BY <1>5, <4>1, <4>2
      <3> QED
        BY <1>2, <1>5, <3>1 DEF ProcessType, Exit, Reap
    <2>2. LaunchType' /\ StopType' /\ HitType'
      BY <1>2, <1>5 DEF LaunchType, StopType, HitType, Exit, Reap
    <2> QED
      BY <2>1, <2>2, TypeParts DEF TypeOK, ProcessType, LaunchType, StopType, HitType
  <1> QED
    BY <1>1, <1>3, <1>4, <1>5

(* A step of a launch, or of a stop, that sets a proper state. *)
LEMMA LaunchStepType ==
  ASSUME TypeOK, NEW l \in Launch, NEW from, NEW update \in LaunchState,
         LaunchStep(l, from, update),
         chain' \in [Launch -> {"none", "umu", "engine", "renderer"}]
  PROVE  TypeOK'
  <1>1. LaunchType'
    BY DEF TypeOK, LaunchType, LaunchStep
  <1> QED
    BY <1>1 DEF TypeOK, LaunchType, LaunchStep

LEMMA LaunchesType ==
  ASSUME TypeOK, Launches
  PROVE  TypeOK'
  <1>1. PICK l \in Launch : \/ Prepare(l) \/ SnapshotEngines(l) \/ SnapshotRenderers(l)
                            \/ Popen(l) \/ WaitForEngine(l) \/ WaitForRenderer(l)
    BY DEF Launches
  <1>2. launch[l] \in LaunchState /\ Found("engine") \subseteq Pid /\ Found("renderer") \subseteq Pid
    BY DEF TypeOK, Found
  <1>3. chain' \in [Launch -> {"none", "umu", "engine", "renderer"}]
    BY <1>1 DEF TypeOK, Prepare, ResolveExeFails, InstancePathsFail, BuildCommand, LaunchFails,
                SnapshotEngines, SnapshotRenderers, Popen, WaitForEngine, WaitForRenderer, WaitForNew
  <1>4. ASSUME NEW from, LaunchFails(l, from) PROVE TypeOK'
    BY <1>3, <1>4, Constants, LaunchStepType DEF LaunchFails
  <1>5. CASE Prepare(l)
    <2>1. [launch[l] EXCEPT !.pc = "engines"] \in LaunchState
      BY <1>2 DEF LaunchState, LaunchPc
    <2> QED
      BY <1>3, <1>4, <1>5, <2>1, LaunchStepType
      DEF Prepare, ResolveExeFails, InstancePathsFail, BuildCommand
  <1>6. CASE SnapshotEngines(l)
    <2>1. [launch[l] EXCEPT !.pc = "renderers", !.beforeEngines = Found("engine")] \in LaunchState
      BY <1>2 DEF LaunchState, LaunchPc
    <2> QED
      BY <1>3, <1>6, <2>1, LaunchStepType DEF SnapshotEngines
  <1>7. CASE SnapshotRenderers(l)
    <2>1. [launch[l] EXCEPT !.pc = "spawn", !.beforeRenderers = Found("renderer")] \in LaunchState
      BY <1>2 DEF LaunchState, LaunchPc
    <2> QED
      BY <1>3, <1>7, <2>1, LaunchStepType DEF SnapshotRenderers
  <1>8. CASE Popen(l)
    <2>1. [launch[l] EXCEPT !.pc = "waitEngine"] \in LaunchState
      BY <1>2 DEF LaunchState, LaunchPc
    <2> QED
      BY <1>3, <1>4, <1>8, <2>1, LaunchStepType DEF Popen
  <1>9. ASSUME NEW from, NEW new \in SUBSET Pid, NEW then \in LaunchState,
               WaitForNew(l, from, new, then)
        PROVE  TypeOK'
    <2>1. CASE LaunchFails(l, from)
      BY <1>4, <2>1
    <2>2. CASE ~LaunchFails(l, from)
      <3>1. PICK p \in new : LaunchStep(l, from, [then EXCEPT !.owners = @ \cup {table[p].owner}])
        BY <1>9, <2>2 DEF WaitForNew
      <3>2. table[p].owner \in Owner
        BY DEF TypeOK, Process
      <3>3. [then EXCEPT !.owners = @ \cup {table[p].owner}] \in LaunchState
        BY <3>2 DEF LaunchState
      <3> QED
        BY <1>3, <3>1, <3>3, LaunchStepType
    <2> QED
      BY <2>1, <2>2
  <1>10. CASE WaitForEngine(l)
    <2>1. [launch[l] EXCEPT !.pc = "waitRenderer"] \in LaunchState
      BY <1>2 DEF LaunchState, LaunchPc
    <2>2. New(Found("engine"), launch[l].beforeEngines) \in SUBSET Pid
      BY <1>2 DEF New
    <2> QED
      BY <1>9, <1>10, <2>1, <2>2 DEF WaitForEngine
  <1>11. CASE WaitForRenderer(l)
    <2>1. [launch[l] EXCEPT !.pc = "done", !.beforeEngines = {}, !.beforeRenderers = {}] \in LaunchState
      BY <1>2 DEF LaunchState, LaunchPc
    <2>2. New(Found("renderer"), launch[l].beforeRenderers) \in SUBSET Pid
      BY <1>2 DEF New
    <2> QED
      BY <1>9, <1>11, <2>1, <2>2 DEF WaitForRenderer
  <1> QED
    BY <1>1, <1>5, <1>6, <1>7, <1>8, <1>10, <1>11

LEMMA StopStepType ==
  ASSUME TypeOK, NEW s \in Stop, NEW from, NEW update \in StopState, StopStep(s, from, update),
         table' \in [Pid -> Process],
         hit' \subseteq [asked : Role, was : Program, found : BOOLEAN]
  PROVE  TypeOK'
  <1>1. StopType'
    BY DEF TypeOK, StopType, StopStep
  <1> QED
    BY <1>1 DEF TypeOK, StopType, StopStep

(* What a stop goes on with, or ends with. *)
LEMMA StopUpdates ==
  ASSUME TypeOK, NEW s \in Stop
  PROVE  /\ stop[s] \in StopState
         /\ \A pc \in {"done", "error", "escaped"} : Return(s, pc) \in StopState
         /\ \A pc \in StopPc : [stop[s] EXCEPT !.pc = pc] \in StopState
         /\ \A st \in StopState : Proceed(st) \in StopState
         /\ NoPair \in Pair
         /\ At(s) \in PidRef
  <1>1. stop[s] \in StopState
    BY DEF TypeOK
  <1>2. ASSUME NEW pc \in {"done", "error", "escaped"} PROVE Return(s, pc) \in StopState
    <2>1. IdleStop \in StopState /\ pc \in StopPc
      BY Constants DEF StopPc
    <2> QED
      BY <1>1, <2>1 DEF Return, StopState
  <1>3. ASSUME NEW pc \in StopPc PROVE [stop[s] EXCEPT !.pc = pc] \in StopState
    BY <1>1 DEF StopState
  <1>4. NoPair \in Pair
    BY DEF NoPair, Pair, PidRef
  <1>5. ASSUME NEW st \in StopState PROVE Proceed(st) \in StopState
    <2> DEFINE mixed == st.mixed \/ Cardinality(st.owners) > 1
               ahead == [st EXCEPT !.pc = "next", !.role = "engine", !.pair = NoPair, !.born = 0,
                                   !.owners = {}, !.mixed = mixed]
    <2>1. mixed \in BOOLEAN
      OBVIOUS
    <2>2. ahead \in StopState
      <3>1. 0 \in Number /\ "engine" \in Role /\ "next" \in StopPc /\ {} \in SUBSET Owner
        BY DEF Number, Role, StopPc
      <3> HIDE DEF mixed
      <3> QED
        BY <1>4, <2>1, <3>1 DEF StopState
    <2>3. [st EXCEPT !.pc = "open", !.role = "renderer"] \in StopState
      BY DEF StopState, StopPc, Role
    <2> QED
      BY <2>2, <2>3 DEF Proceed
  <1>6. At(s) \in PidRef
    BY <1>1 DEF At, StopState, Pair
  <1> QED
    BY <1>1, <1>2, <1>3, <1>4, <1>5, <1>6

LEMMA StopsType ==
  ASSUME TypeOK, Stops
  PROVE  TypeOK'
  <1>1. PICK s \in Stop : \/ TerminateGiven(s) \/ TerminateDetected(s) \/ ScanEngines(s)
                          \/ ScanRenderers(s) \/ NextPair(s) \/ Open(s) \/ Check(s)
                          \/ Signal(s) \/ Finish(s)
    BY DEF Stops
  <1>2. stop[s] \in StopState
    BY DEF TypeOK
  <1>3. ASSUME NEW role PROVE Found(role) \subseteq Pid /\ Born(Found(role)) \subseteq Number
    BY DEF TypeOK, Found, Born, Process
  <1>4. ASSUME Quiet PROVE table' \in [Pid -> Process]
                        /\ hit' \subseteq [asked : Role, was : Program, found : BOOLEAN]
    BY <1>4 DEF Quiet, TypeOK
  <1>5. CASE TerminateGiven(s)
    <2>1. PICK p \in Pid, role \in Role :
            StopStep(s, "idle", [stop[s] EXCEPT !.pc = "open", !.role = role,
                                                !.pair = [NoPair EXCEPT ![role] = p]])
      BY <1>5 DEF TerminateGiven
    <2>2. [NoPair EXCEPT ![role] = p] \in Pair
      <3>1. role = "engine" \/ role = "renderer"
        BY DEF Role
      <3>2. CASE role = "engine"
        BY <3>2 DEF NoPair, Pair, PidRef
      <3>3. CASE role = "renderer"
        BY <3>3 DEF NoPair, Pair, PidRef
      <3> QED
        BY <3>1, <3>2, <3>3
    <2>3. [stop[s] EXCEPT !.pc = "open", !.role = role, !.pair = [NoPair EXCEPT ![role] = p]] \in StopState
      BY <1>2, <2>2 DEF StopState, StopPc
    <2> QED
      BY <1>4, <1>5, <2>1, <2>3, StopStepType DEF TerminateGiven
  <1>6. CASE TerminateDetected(s)
    <2>1. PICK all \in BOOLEAN : StopStep(s, "idle", [stop[s] EXCEPT !.pc = "engines", !.all = all])
      BY <1>6 DEF TerminateDetected
    <2>2. [stop[s] EXCEPT !.pc = "engines", !.all = all] \in StopState
      BY <1>2 DEF StopState, StopPc
    <2> QED
      BY <1>4, <1>6, <2>1, <2>2, StopStepType DEF TerminateDetected
  <1>7. CASE ScanEngines(s)
    <2>1. [stop[s] EXCEPT !.pc = "renderers", !.engines = Found("engine"),
                          !.seen = Born(Found("engine"))] \in StopState
      BY <1>2, <1>3 DEF StopState, StopPc
    <2> QED
      BY <1>4, <1>7, <2>1, StopStepType DEF ScanEngines
  <1>8. CASE ScanRenderers(s)
    <2> DEFINE found == Found("renderer")
               scanned == [stop[s] EXCEPT !.renderers = found, !.seen = @ \cup Born(found)]
               tokens == [p \in Pid |-> IF p \in found THEN Token(p) ELSE Foreign]
               pair == [engine |-> One(stop[s].engines), renderer |-> One(found)]
               detected == [scanned EXCEPT !.pc = "open", !.pair = pair, !.engines = {}, !.renderers = {}]
    <2>1. \A p \in Pid : Token(p) \in Owner
      BY DEF TypeOK, Process, Token, Owner
    <2>2. tokens \in [Pid -> Owner]
      BY <2>1 DEF Owner
    <2>3. pair \in Pair
      <3>1. \A pids \in SUBSET Pid : One(pids) \in PidRef
        BY DEF One, PidRef
      <3> QED
        BY <1>2, <1>3, <3>1 DEF Pair, StopState
    <2>4. scanned \in StopState
      <3> HIDE DEF found
      <3>1. found \subseteq Pid /\ Born(found) \subseteq Number
        BY <1>3 DEF found
      <3> QED
        BY <1>2, <3>1 DEF StopState
    <2>5. [scanned EXCEPT !.pc = "next", !.tokens = tokens] \in StopState
      <3> HIDE DEF scanned, tokens
      <3> QED
        BY <2>2, <2>4 DEF StopState, StopPc
    <2>6. detected \in StopState
      <3> HIDE DEF scanned, pair
      <3> QED
        BY <2>3, <2>4 DEF StopState, StopPc
    <2>7. Return(s, "error") \in StopState
      BY StopUpdates
    <2>8. PICK update \in {Return(s, "error"), [scanned EXCEPT !.pc = "next", !.tokens = tokens], detected} :
            StopStep(s, "renderers", update)
      BY <1>8 DEF ScanRenderers
    <2>9. update \in StopState
      BY <2>5, <2>6, <2>7, <2>8
    <2> QED
      BY <1>4, <1>8, <2>8, <2>9, StopStepType DEF ScanRenderers
  <1>9. CASE NextPair(s)
    <2> DEFINE Goes(e, r) == [stop[s] EXCEPT !.pc = "open", !.role = "engine",
                                !.pair = [engine |-> e, renderer |-> r], !.owners = {},
                                !.engines = @ \ {e}, !.renderers = @ \ {r}]
    <2>1. ASSUME NEW e \in PidRef, NEW r \in PidRef PROVE Goes(e, r) \in StopState
      <3>1. [engine |-> e, renderer |-> r] \in Pair
        BY DEF Pair
      <3> QED
        BY <1>2, <3>1 DEF StopState, StopPc, Role
    <2>2. \E update \in StopState : StopStep(s, "next", update)
      <3>1. CASE \E e \in stop[s].engines : \E r \in Partner(s, e) : StopStep(s, "next", Goes(e, r))
        <4>0. PICK e \in stop[s].engines : \E r \in Partner(s, e) : StopStep(s, "next", Goes(e, r))
          BY <3>1
        <4>1. PICK r \in Partner(s, e) : StopStep(s, "next", Goes(e, r))
          BY <4>0
        <4>2. e \in PidRef /\ r \in PidRef
          BY <1>2 DEF StopState, Partner, ChildRenderers, PidRef
        <4> QED
          BY <2>1, <4>1, <4>2
      <3>2. CASE \E r \in Unpaired(s) : StopStep(s, "next", Goes(NoPid, r))
        <4>1. PICK r \in Unpaired(s) : StopStep(s, "next", Goes(NoPid, r))
          BY <3>2
        <4>2. NoPid \in PidRef /\ r \in PidRef
          BY <1>2 DEF StopState, Unpaired, PidRef
        <4> QED
          BY <2>1, <4>1, <4>2
      <3>3. CASE StopStep(s, "next", Return(s, "done"))
        BY <3>3, StopUpdates
      <3> QED
        BY <1>9, <3>1, <3>2, <3>3 DEF NextPair
    <2> QED
      BY <1>4, <1>9, <2>2, StopStepType DEF NextPair
  <1>10. CASE Open(s)
    <2>1. CASE At(s) = NoPid \/ ~Known(At(s))
      BY <1>2, <1>4, <1>10, <2>1, StopUpdates, StopStepType DEF Open
    <2>2. CASE ~(At(s) = NoPid \/ ~Known(At(s)))
      <3>1. At(s) \in Pid
        BY <2>2, StopUpdates DEF PidRef
      <3>2. table[At(s)].born \in Number
        BY <3>1 DEF TypeOK, Process
      <3>3. [stop[s] EXCEPT !.pc = "check", !.born = table[At(s)].born] \in StopState
        BY <1>2, <3>2 DEF StopState, StopPc
      <3> QED
        BY <1>4, <1>10, <2>2, <3>3, StopStepType DEF Open
    <2> QED
      BY <2>1, <2>2
  <1>11. CASE Check(s)
    <2>1. [stop[s] EXCEPT !.pc = "signal"] \in StopState /\ Return(s, "error") \in StopState
      BY StopUpdates DEF StopPc
    <2> QED
      BY <1>4, <1>11, <2>1, StopStepType DEF Check
  <1>12. CASE Signal(s)
    <2>1. CASE SameProcess(s)
      <3>1. table[At(s)] \in Process
        BY <2>1 DEF TypeOK, SameProcess
      <3>2. Witnessed(s) \subseteq Owner
        BY <3>1 DEF Witnessed, Process
      <3>3. [stop[s] EXCEPT !.pc = "wait", !.owners = @ \cup Witnessed(s)] \in StopState
        BY <1>2, <3>2 DEF StopState, StopPc
      <3> DEFINE seen == stop[s].born \in stop[s].seen
                 new == [asked |-> stop[s].role, was |-> table[At(s)].role, found |-> seen]
      <3>4. new \in [asked : Role, was : Program, found : BOOLEAN]
        <4>1. seen \in BOOLEAN
          OBVIOUS
        <4> HIDE DEF seen
        <4> QED
          BY <1>2, <3>1, <4>1 DEF StopState, Process
      <3>5. hit' \subseteq [asked : Role, was : Program, found : BOOLEAN]
        <4>1. hit' = IF table[At(s)].alive THEN hit \cup {new} ELSE hit
          BY <1>12, <2>1 DEF Signal
        <4> HIDE DEF new
        <4> QED
          BY <3>4, <4>1 DEF TypeOK
      <3>6. table' \in [Pid -> Process]
        BY <1>12, <2>1 DEF Signal, TypeOK
      <3> QED
        BY <1>12, <2>1, <3>3, <3>5, <3>6, StopStepType DEF Signal
    <2>2. CASE ~SameProcess(s)
      <3>1. Return(s, "escaped") \in StopState
        BY StopUpdates
      <3> QED
        BY <1>4, <1>12, <2>2, <3>1, StopStepType DEF Signal
    <2> QED
      BY <2>1, <2>2
  <1>13. CASE Finish(s)
    <2>1. PICK update \in {Proceed(stop[s]), Return(s, "escaped")} : StopStep(s, "wait", update)
      BY <1>13 DEF Finish
    <2>2. update \in StopState
      BY <1>2, <2>1, StopUpdates
    <2>3. hit' \subseteq [asked : Role, was : Program, found : BOOLEAN]
      BY <1>13 DEF Finish, Quiet, TypeOK
    <2>4. table' \in [Pid -> Process]
      <3>1. CASE Quiet
        BY <1>4, <3>1
      <3>2. CASE SameProcess(s) /\ table' = Ended(At(s))
        BY <3>2, EndedType, TypeParts DEF SameProcess
      <3> QED
        BY <1>13, <3>1, <3>2 DEF Finish
    <2> QED
      BY <2>1, <2>2, <2>3, <2>4, StopStepType
  <1> QED
    BY <1>1, <1>5, <1>6, <1>7, <1>8, <1>9, <1>10, <1>11, <1>12, <1>13

LEMMA LauncherStepType == TypeOK /\ [Next]_vars => TypeOK'
  <1> SUFFICES ASSUME TypeOK, [Next]_vars PROVE TypeOK'
    OBVIOUS
  <1>1. CASE UNCHANGED vars
    BY <1>1 DEF TypeOK, vars
  <1> QED
    BY <1>1, ProcessesType, LaunchesType, StopsType DEF Next

(* The process table, the calls of launch and those that stop always hold  *)
(* what they should: every list of PIDs a call works through is one.       *)
THEOREM LauncherTypeCorrect == Spec => []TypeOK
  BY LauncherInitType, LauncherStepType, PTL DEF Spec

-----------------------------------------------------------------------------
(* What happens to the process table.  A step may end processes, reap them *)
(* and reparent them, and create one, whose number is new.  The lemmas are *)
(* about a table t with c processes created so far, and u with d after it. *)

Kept(t, u, p) ==
  /\ t[p].alive
  /\ u[p].born = t[p].born /\ u[p].role = t[p].role /\ u[p].owner = t[p].owner

Moves(t, c, u, d) ==
  /\ c <= d
  /\ \A p \in Pid : u[p].born \in {0, t[p].born, d}
  /\ \E new \in PidRef : \A p \in Pid :
       u[p].alive => Kept(t, u, p) \/ (p = new /\ c < d /\ u[p].born = d)

(* No process has a number that is still to come, no two have one, and a   *)
(* parent is alive and of the instance of its child.                       *)
Tidy(t, c) ==
  /\ \A p \in Pid : t[p].born <= c
  /\ \A p, q \in Pid : t[p].alive /\ t[q].alive /\ t[p].born = t[q].born => p = q
  /\ \A p \in Pid : t[p].parent \in Pid =>
       t[t[p].parent].alive /\ t[t[p].parent].owner = t[p].owner

Table == [Pid -> Process]

LEMMA StaysTidy ==
  ASSUME NEW t \in Table, NEW u \in Table, NEW c \in Number, NEW d \in Number,
         Tidy(t, c), Moves(t, c, u, d)
  PROVE  /\ \A p \in Pid : u[p].born <= d
         /\ \A p, q \in Pid : u[p].alive /\ u[q].alive /\ u[p].born = u[q].born => p = q
  <1>1. \A p \in Pid : t[p].born \in Nat /\ u[p].born \in Nat
    BY DEF Table, Process, Number
  <1>2. c \in Nat /\ d \in Nat
    BY DEF Number
  <1>3. ASSUME NEW p \in Pid PROVE u[p].born <= d
    <2>1. t[p].born <= c /\ c <= d /\ u[p].born \in {0, t[p].born, d}
      BY DEF Tidy, Moves
    <2> QED
      BY <1>1, <1>2, <2>1
  <1>4. ASSUME NEW p \in Pid, NEW q \in Pid, u[p].alive, u[q].alive, u[p].born = u[q].born
        PROVE  p = q
    <2>1. PICK new \in PidRef : \A r \in Pid :
            u[r].alive => Kept(t, u, r) \/ (r = new /\ c < d /\ u[r].born = d)
      BY DEF Moves
    <2>2. CASE Kept(t, u, p) /\ Kept(t, u, q)
      BY <1>4, <2>2 DEF Kept, Tidy
    <2>3. CASE p = new /\ q = new
      BY <2>3
    <2>4. ASSUME NEW x \in Pid, NEW y \in Pid, Kept(t, u, x), c < d, u[y].born = d,
                 u[x].born = u[y].born
          PROVE  FALSE
      <3>1. u[x].born = t[x].born /\ t[x].born <= c
        BY <2>4 DEF Kept, Tidy
      <3> QED
        BY <1>1, <1>2, <2>4, <3>1
    <2> QED
      BY <1>4, <2>1, <2>2, <2>3, <2>4
  <1> QED
    BY <1>3, <1>4

LEMMA EndedMoves ==
  ASSUME NEW p \in Pid, ProcessType
  PROVE  Moves(table, created, Ended(p), created)
  <1>1. \A q \in Pid : table[q] \in Process
    BY DEF ProcessType
  <1>2. ASSUME NEW q \in Pid
        PROVE  /\ Ended(p)[q].born = table[q].born
               /\ Ended(p)[q].alive => Kept(table, Ended(p), q)
    <2>1. CASE q = p
      BY <2>1 DEF Ended, NoProcess
    <2>2. CASE q # p
      <3>1. Ended(p)[q] = table[q] \/ Ended(p)[q] = [table[q] EXCEPT !.parent = NoPid]
        BY <2>2 DEF Ended
      <3> QED
        BY <1>1, <3>1 DEF Process, Kept
    <2> QED
      BY <2>1, <2>2
  <1>3. created <= created /\ NoPid \in PidRef
    BY DEF ProcessType, Number, PidRef
  <1> QED
    BY <1>2, <1>3 DEF Moves

LEMMA NoMove == ASSUME ProcessType PROVE Moves(table, created, table, created)
  <1>1. created <= created /\ NoPid \in PidRef
    BY DEF ProcessType, Number, PidRef
  <1> QED
    BY <1>1 DEF Moves, Kept

LEMMA CreateMoves ==
  ASSUME ProcessType, NEW p \in Pid, NEW role, NEW owner, NEW parent,
         Create(p, role, owner, parent)
  PROVE  Moves(table, created, table', created')
  <1>1. created \in Nat /\ created' = created + 1
    BY DEF ProcessType, Number, Create
  <1>2. created <= created' /\ created < created' /\ p \in PidRef
    BY <1>1 DEF PidRef
  <1>3. ASSUME NEW q \in Pid
        PROVE  IF q = p THEN table'[q].born = created' ELSE table'[q] = table[q]
    BY <1>1 DEF ProcessType, Create
  <1> QED
    BY <1>2, <1>3 DEF Moves, Kept

LEMMA TableMoves ==
  ASSUME TypeOK, [Next]_vars
  PROVE  Moves(table, created, table', created')
  <1> USE TypeParts
  <1>1. CASE Processes
    <2>1. PICK p \in Pid : \/ \E l \in Launch : EngineStarts(l, p) \/ RendererStarts(l, p)
                           \/ OtherStarts(p) \/ Exit(p) \/ Reap(p)
      BY <1>1 DEF Processes
    <2>2. CASE \E role, owner, parent : Create(p, role, owner, parent)
      BY <2>2, CreateMoves
    <2>3. CASE Exit(p)
      BY <2>3, EndedMoves DEF Exit
    <2>4. CASE Reap(p)
      <3>1. ASSUME NEW q \in Pid
            PROVE  /\ table'[q].born \in {0, table[q].born}
                   /\ table'[q].alive => table'[q] = table[q]
        BY <2>4 DEF Reap, ProcessType, NoProcess
      <3>2. created <= created /\ NoPid \in PidRef /\ created' = created
        BY <2>4 DEF ProcessType, Number, PidRef, Reap
      <3> QED
        BY <3>1, <3>2 DEF Moves, Kept
    <2>5. CASE OtherStarts(p)
      BY <2>2, <2>5 DEF OtherStarts
    <2> QED
      BY <2>1, <2>2, <2>3, <2>4, <2>5 DEF EngineStarts, RendererStarts
  <1>2. CASE UNCHANGED <<table, created>>
    BY <1>2, NoMove
  <1>3. CASE Launches
    BY <1>2, <1>3 DEF Launches, Prepare, ResolveExeFails, InstancePathsFail, BuildCommand,
         LaunchFails, LaunchStep, SnapshotEngines, SnapshotRenderers, Popen, WaitForEngine,
         WaitForRenderer, WaitForNew
  <1>4. CASE Stops
    <2>1. PICK s \in Stop : \/ TerminateGiven(s) \/ TerminateDetected(s) \/ ScanEngines(s)
                            \/ ScanRenderers(s) \/ NextPair(s) \/ Open(s) \/ Check(s)
                            \/ Signal(s) \/ Finish(s)
      BY <1>4 DEF Stops
    <2>2. CASE SameProcess(s) /\ table' = Ended(At(s)) /\ created' = created
      BY <2>2, EndedMoves DEF SameProcess
    <2>3. CASE TerminateGiven(s) \/ TerminateDetected(s) \/ ScanEngines(s)
                 \/ ScanRenderers(s) \/ NextPair(s) \/ Open(s) \/ Check(s)
      BY <1>2, <2>3 DEF TerminateGiven, TerminateDetected, ScanEngines, ScanRenderers, NextPair,
           Open, Check, Quiet, StopStep
    <2>4. CASE Signal(s)
      BY <1>2, <2>4 DEF Signal, Quiet, StopStep
    <2>5. CASE Finish(s)
      BY <1>2, <2>2, <2>5 DEF Finish, Quiet, StopStep
    <2> QED
      BY <2>1, <2>3, <2>4, <2>5
  <1>5. CASE UNCHANGED vars
    BY <1>2, <1>5 DEF vars
  <1> QED
    BY <1>1, <1>3, <1>4, <1>5 DEF Next

(* A parent stays alive, or its children are reparented. *)
LEMMA FamilyStays ==
  ASSUME TypeOK, Tidy(table, created), [Next]_vars
  PROVE  \A p \in Pid : table'[p].parent \in Pid =>
           table'[table'[p].parent].alive /\ table'[table'[p].parent].owner = table'[p].owner
  <1> DEFINE Family(t) == \A p \in Pid : t[p].parent \in Pid =>
                            t[t[p].parent].alive /\ t[t[p].parent].owner = t[p].owner
  <1>0. Family(table)
    BY DEF Tidy
  <1>1. \A q \in Pid : table[q] \in Process
    BY DEF TypeOK
  <1>2. ASSUME NEW p \in Pid, NEW role, NEW owner, NEW parent, Create(p, role, owner, parent),
               parent \in Pid => table[parent].alive /\ table[parent].owner = owner
        PROVE  Family(table')
    <2>1. ~table[p].alive
      BY <1>2 DEF Create, Known, NoProcess
    <2>2. /\ table'[p].parent = parent /\ table'[p].owner = owner
          /\ \A q \in Pid \ {p} : table'[q] = table[q]
      BY <1>2 DEF Create, TypeOK
    <2>3. ASSUME NEW q \in Pid, table'[q].parent \in Pid
          PROVE  table'[table'[q].parent].alive /\ table'[table'[q].parent].owner = table'[q].owner
      <3>1. CASE q = p
        <4>1. parent \in Pid /\ parent # p
          BY <1>2, <2>1, <2>2, <2>3, <3>1
        <4> QED
          BY <1>2, <2>2, <3>1, <4>1
      <3>2. CASE q # p
        <4>1. table'[q] = table[q] /\ table[table[q].parent].alive
          BY <1>0, <2>2, <2>3, <3>2
        <4>2. table'[q].parent # p
          BY <2>1, <4>1
        <4> QED
          BY <1>0, <2>2, <2>3, <3>2, <4>1, <4>2
      <3> QED
        BY <3>1, <3>2
    <2> QED
      BY <2>3
  <1>3. ASSUME NEW p \in Pid, table' = Ended(p) PROVE Family(table')
    <2>1. table'[p].parent = NoPid
      BY <1>3 DEF Ended, NoProcess
    <2>2. ASSUME NEW q \in Pid \ {p}
          PROVE  /\ table'[q].alive = table[q].alive /\ table'[q].owner = table[q].owner
                 /\ table'[q].parent \in Pid => table'[q].parent = table[q].parent /\ table[q].parent # p
      <3>1. CASE table[q].parent = p
        <4>1. table'[q] = [table[q] EXCEPT !.parent = NoPid]
          BY <1>3, <2>2, <3>1 DEF Ended
        <4> QED
          BY <1>1, <4>1 DEF Process
      <3>2. CASE table[q].parent # p
        BY <1>3, <2>2, <3>2 DEF Ended
      <3> QED
        BY <3>1, <3>2
    <2> QED
      BY <1>0, <2>1, <2>2
  <1>4. CASE UNCHANGED table
    BY <1>0, <1>4
  <1>5. CASE Processes
    <2>1. PICK p \in Pid : \/ \E l \in Launch : EngineStarts(l, p) \/ RendererStarts(l, p)
                           \/ OtherStarts(p) \/ Exit(p) \/ Reap(p)
      BY <1>5 DEF Processes
    <2>2. ASSUME NEW l \in Launch, EngineStarts(l, p) PROVE Family(table')
      BY <1>2, <2>2 DEF EngineStarts
    <2>3. ASSUME NEW l \in Launch, RendererStarts(l, p) PROVE Family(table')
      <3>1. PICK e \in Found("engine") :
              table[e].owner = l /\ \E parent \in {e, NoPid} : Create(p, "renderer", l, parent)
        BY <2>3 DEF RendererStarts
      <3>2. e \in Pid /\ table[e].alive
        BY DEF Found, Argv0
      <3> QED
        BY <1>2, <3>1, <3>2
    <2>4. CASE OtherStarts(p)
      <3>1. PICK program : Create(p, program, Foreign, NoPid)
        BY <2>4 DEF OtherStarts
      <3> QED
        BY <1>2, <3>1
    <2>5. CASE Exit(p)
      BY <1>3, <2>5 DEF Exit
    <2>6. CASE Reap(p)
      <3>1. ~table[p].alive /\ table'[p].parent = NoPid /\ \A q \in Pid \ {p} : table'[q] = table[q]
        BY <2>6 DEF Reap, TypeOK, NoProcess
      <3> QED
        BY <1>0, <3>1
    <2> QED
      BY <2>1, <2>2, <2>3, <2>4, <2>5, <2>6
  <1>6. CASE Launches
    BY <1>4, <1>6 DEF Launches, Prepare, ResolveExeFails, InstancePathsFail, BuildCommand,
         LaunchFails, LaunchStep, SnapshotEngines, SnapshotRenderers, Popen, WaitForEngine,
         WaitForRenderer, WaitForNew
  <1>7. CASE Stops
    <2>1. PICK s \in Stop : \/ TerminateGiven(s) \/ TerminateDetected(s) \/ ScanEngines(s)
                            \/ ScanRenderers(s) \/ NextPair(s) \/ Open(s) \/ Check(s)
                            \/ Signal(s) \/ Finish(s)
      BY <1>7 DEF Stops
    <2>2. UNCHANGED table \/ (SameProcess(s) /\ table' = Ended(At(s)))
      BY <2>1 DEF TerminateGiven, TerminateDetected, ScanEngines, ScanRenderers, NextPair,
           Open, Check, Signal, Finish, Quiet
    <2> QED
      BY <1>3, <1>4, <2>2 DEF SameProcess
  <1>8. CASE UNCHANGED vars
    BY <1>4, <1>8 DEF vars
  <1> QED
    BY <1>5, <1>6, <1>7, <1>8 DEF Next

LEMMA InitTidy == Init => Tidy(table, created)
  <1> SUFFICES ASSUME Init PROVE Tidy(table, created)
    OBVIOUS
  <1>1. CASE table = [p \in Pid |-> NoProcess] /\ created = 0
    BY <1>1 DEF Tidy, NoProcess
  <1>2. CASE ~(table = [p \in Pid |-> NoProcess] /\ created = 0)
    <2>1. PICK e \in Pid, r \in Pid : e # r /\ \E parent \in {e, NoPid} : table = Instance(e, r, parent)
      BY <1>2 DEF Init
    <2>2. PICK parent \in {e, NoPid} : table = Instance(e, r, parent)
      BY <2>1
    <2>3. created = 2
      BY <1>2 DEF Init
    <2>4. /\ table[e].alive /\ table[e].born = 1 /\ table[e].parent = NoPid /\ table[e].owner = Foreign
          /\ table[r].alive /\ table[r].born = 2 /\ table[r].parent = parent /\ table[r].owner = Foreign
          /\ \A p \in Pid \ {e, r} : ~table[p].alive /\ table[p].born = 0 /\ table[p].parent = NoPid
      BY <2>1, <2>2 DEF Instance, NoProcess
    <2> QED
      BY <2>1, <2>3, <2>4 DEF Tidy
  <1> QED
    BY <1>1, <1>2

LEMMA TidyStep ==
  ASSUME TypeOK, Tidy(table, created), [Next]_vars
  PROVE  Tidy(table, created)'
  <1>1. table \in Table /\ created \in Number
    BY DEF TypeOK, Table
  <1>2. table' \in Table /\ created' \in Number
    BY LauncherStepType DEF TypeOK, Table
  <1> QED
    BY <1>1, <1>2, TableMoves, StaysTidy, FamilyStays DEF Tidy

-----------------------------------------------------------------------------
(* A call that stops.  What holds of its state st in a process table t     *)
(* with c processes created.                                               *)

Killing == {"open", "check", "signal", "wait"}

AtOf(st) == IF st.role = "engine" THEN st.pair.engine ELSE st.pair.renderer

(* A process that its scan had found runs as p. *)
Live(t, st, p) == p \in Pid /\ t[p].alive /\ t[p].born \in st.seen

(* The PIDs it has still to deal with. *)
Left(st) ==
  st.engines \cup st.renderers
    \cup (IF st.pc \in Killing THEN {st.pair.renderer} ELSE {})
    \cup (IF st.pc \in Killing /\ st.role = "engine" THEN {st.pair.engine} ELSE {})

(* Before it has scanned, and at the end. *)
Fresh(st) ==
  /\ st.pc = "idle" => st = IdleStop
  /\ st.pc \in {"engines", "renderers"} => st.role = "engine" /\ st.renderers = {} /\ st.owners = {} /\ ~st.mixed
  /\ st.pc = "engines" => st.engines = {} /\ st.seen = {}
  /\ st.pc = "done" => st.engines = {} /\ st.renderers = {}

Numbered(c, st) == st.born <= c /\ \A n \in st.seen : n <= c

(* None of those it found is forgotten. *)
Pending(t, st) == \A p \in Pid : Live(t, st, p) => p \in Left(st)

(* What it has found is an engine or a renderer for as long as it runs.    *)
Scanned(t, st) == \A p \in Pid : Live(t, st, p) => t[p].role \in Role

(* The process it has opened is the one it found there, and the one whose  *)
(* argv[0] it has looked at ends as the role asked for.                    *)
Opened(t, st) ==
  st.pc \in {"check", "signal", "wait"} =>
    AtOf(st) \in Pid /\ (Live(t, st, AtOf(st)) => t[AtOf(st)].born = st.born)

Checked(t, st) ==
  st.pc = "signal" /\ t[AtOf(st)].alive /\ t[AtOf(st)].born = st.born
    => t[AtOf(st)].role \in EndsAs(st.role)

(* Renderers still have the tokens that were read, a pair is of one        *)
(* instance, and so is what was signalled of it.                           *)
Paired(t, st) ==
  st.all =>
    /\ ~st.mixed
    /\ \A o1, o2 \in st.owners : o1 = o2
    /\ st.pc \in Killing \cup {"next"} =>
         \A r \in st.renderers : Live(t, st, r) => st.tokens[r] = t[r].owner
    /\ st.pc \in Killing /\ Live(t, st, st.pair.renderer) =>
         \A o \in st.owners : o = t[st.pair.renderer].owner
    /\ st.pc \in Killing /\ st.role = "engine" =>
         /\ st.pc # "wait" => st.owners = {}
         /\ Live(t, st, st.pair.engine) /\ Live(t, st, st.pair.renderer) =>
              t[st.pair.engine].owner = t[st.pair.renderer].owner

Good(t, c, st) ==
  /\ Fresh(st) /\ Numbered(c, st) /\ Pending(t, st) /\ Scanned(t, st)
  /\ Opened(t, st) /\ Checked(t, st) /\ Paired(t, st)

(* It stays so whatever the processes do: a new one was never found. *)
LEMMA StaysGood ==
  ASSUME NEW t \in Table, NEW u \in Table, NEW c \in Number, NEW d \in Number,
         NEW st \in StopState, Good(t, c, st), Moves(t, c, u, d)
  PROVE  Good(u, d, st)
  <1>1. c \in Nat /\ d \in Nat /\ c <= d /\ st.born \in Nat /\ st.seen \subseteq Nat
    BY DEF Number, Moves, StopState
  <1>2. Fresh(st) /\ Numbered(d, st)
    BY <1>1 DEF Good, Numbered
  <1>3. ASSUME NEW p \in Pid, u[p].alive, u[p].born \in st.seen \cup {st.born}
        PROVE  Kept(t, u, p)
    <2>1. u[p].born <= c
      BY <1>3 DEF Good, Numbered
    <2>2. u[p].born # d \/ ~(c < d)
      BY <1>1, <2>1
    <2> QED
      BY <1>3, <2>2 DEF Moves
  <1>4. \A p \in Pid : Live(u, st, p) => Live(t, st, p) /\ Kept(t, u, p)
    BY <1>3 DEF Live, Kept
  <1>5. Pending(u, st) /\ Scanned(u, st)
    BY <1>4 DEF Good, Pending, Scanned, Kept
  <1>6. Opened(u, st)
    BY <1>4 DEF Good, Opened, Kept
  <1>7. Checked(u, st)
    BY <1>3, <1>6 DEF Good, Checked, Opened, Kept
  <1>8. Paired(u, st)
    <2>1. \A p : Live(u, st, p) => Live(t, st, p) /\ t[p].owner = u[p].owner
      BY <1>4 DEF Live, Kept
    <2> QED
      BY <2>1 DEF Good, Paired
  <1> QED
    BY <1>2, <1>5, <1>6, <1>7, <1>8 DEF Good

(* A list with no two elements is what One takes from it. *)
LEMMA OneIsAll ==
  ASSUME NEW S \in SUBSET Pid, ~(Cardinality(S) > 1), NEW x \in S
  PROVE  One(S) = x
  <1>1. One(S) \in S
    BY DEF One
  <1> SUFFICES ASSUME One(S) # x PROVE FALSE
    OBVIOUS
  <1>2. IsFiniteSet(S) /\ Cardinality(S) \in Nat
    BY FS_Subset, FS_CardinalityType
  <1>3. Cardinality({x}) = 1 /\ IsFiniteSet({x})
    BY FS_Singleton
  <1>4. Cardinality({x} \cup {One(S)}) = 2
    <2>1. ASSUME NEW y, y # x PROVE Cardinality({x} \cup {y}) = 2
      <3>1. Cardinality({x} \cup {y}) = IF y \in {x} THEN Cardinality({x}) ELSE Cardinality({x}) + 1
        BY <1>3, FS_AddElement
      <3> QED
        BY <1>3, <2>1, <3>1
    <2> QED
      BY <2>1
  <1>5. {x} \cup {One(S)} \in SUBSET S
    BY <1>1
  <1>6. Cardinality({x} \cup {One(S)}) <= Cardinality(S)
    BY <1>2, <1>5, FS_Subset
  <1> QED
    BY <1>2, <1>4, <1>6

(* A set with no two elements is not larger than one. *)
LEMMA NoTwo ==
  ASSUME NEW S, \A x, y \in S : x = y
  PROVE  ~(Cardinality(S) > 1)
  <1>1. S = {} \/ \E x : S = {x}
    OBVIOUS
  <1>2. Cardinality({}) = 0 /\ \A x : Cardinality({x}) = 1
    BY FS_EmptySet, FS_Singleton
  <1>3. CASE S = {}
    BY <1>2, <1>3
  <1>4. ASSUME NEW x, S = {x} PROVE ~(Cardinality(S) > 1)
    <2>1. Cardinality(S) = 1
      BY <1>2, <1>4
    <2> QED
      BY <2>1
  <1> QED
    BY <1>1, <1>3, <1>4

(* To go on is right once the process is dealt with. *)
LEMMA ProceedGood ==
  ASSUME NEW t \in Table, NEW c \in Number, NEW st \in StopState, Good(t, c, st),
         st.pc \in Killing, ~Live(t, st, AtOf(st))
  PROVE  Good(t, c, Proceed(st))
  <1>1. CASE st.role = "engine"
    <2> DEFINE new == [st EXCEPT !.pc = "open", !.role = "renderer"]
    <2>1. Proceed(st) = new
      BY <1>1 DEF Proceed
    <2>2. /\ new.pc = "open" /\ new.role = "renderer" /\ new.all = st.all /\ new.engines = st.engines
          /\ new.renderers = st.renderers /\ new.pair = st.pair /\ new.born = st.born
          /\ new.tokens = st.tokens /\ new.owners = st.owners /\ new.mixed = st.mixed
          /\ new.seen = st.seen
      BY DEF StopState
    <2> HIDE DEF new
    <2>3. \A p : Live(t, new, p) <=> Live(t, st, p)
      BY <2>2 DEF Live
    <2>4. Fresh(new) /\ Numbered(c, new) /\ Opened(t, new) /\ Checked(t, new)
      BY <2>2 DEF Good, Fresh, Numbered, Opened, Checked
    <2>5. Pending(t, new) /\ Scanned(t, new)
      BY <1>1, <2>2, <2>3 DEF Good, Pending, Scanned, Left, Killing, AtOf
    <2>6. Paired(t, new)
      BY <2>2, <2>3 DEF Good, Paired, Killing
    <2> QED
      BY <2>1, <2>4, <2>5, <2>6 DEF Good
  <1>2. CASE st.role # "engine"
    <2> DEFINE new == [st EXCEPT !.pc = "next", !.role = "engine", !.pair = NoPair, !.born = 0,
                                 !.owners = {}, !.mixed = @ \/ Cardinality(st.owners) > 1]
    <2>1. Proceed(st) = new
      BY <1>2 DEF Proceed
    <2>2. /\ new.pc = "next" /\ new.role = "engine" /\ new.all = st.all /\ new.engines = st.engines
          /\ new.renderers = st.renderers /\ new.born = 0
          /\ new.tokens = st.tokens /\ new.owners = {}
          /\ new.mixed = (st.mixed \/ Cardinality(st.owners) > 1)
          /\ new.seen = st.seen
      BY DEF StopState
    <2> HIDE DEF new
    <2>3. \A p : Live(t, new, p) <=> Live(t, st, p)
      BY <2>2 DEF Live
    <2>4. 0 <= c
      BY DEF Number
    <2>5. Fresh(new) /\ Numbered(c, new) /\ Opened(t, new) /\ Checked(t, new)
      BY <2>2, <2>4 DEF Good, Fresh, Numbered, Opened, Checked
    <2>6. Pending(t, new) /\ Scanned(t, new)
      BY <1>2, <2>2, <2>3 DEF Good, Pending, Scanned, Left, Killing, AtOf
    <2>7. Paired(t, new)
      <3>1. st.all => ~new.mixed
        <4> SUFFICES ASSUME st.all PROVE ~new.mixed
          OBVIOUS
        <4>1. ~st.mixed /\ \A o1, o2 \in st.owners : o1 = o2
          BY DEF Good, Paired
        <4>2. ~(Cardinality(st.owners) > 1)
          BY <4>1, NoTwo
        <4> QED
          BY <2>2, <4>1, <4>2
      <3> QED
        BY <2>2, <2>3, <3>1 DEF Good, Paired, Killing
    <2> QED
      BY <2>1, <2>5, <2>6, <2>7 DEF Good
  <1> QED
    BY <1>1, <1>2

LEMMA ReturnGood ==
  ASSUME NEW t \in Table, NEW c \in Number, TypeOK, NEW s \in Stop, Good(t, c, stop[s]),
         NEW pc \in {"error", "escaped", "done"},
         pc = "done" => stop[s].pc = "next" /\ stop[s].engines = {} /\ stop[s].renderers = {}
  PROVE  Good(t, c, Return(s, pc))
  <1> DEFINE st == stop[s]
             new == Return(s, pc)
  <1>1. /\ new.pc = pc /\ new.all = st.all /\ new.engines = {} /\ new.renderers = {}
        /\ new.born = 0 /\ new.owners = {} /\ new.mixed = st.mixed
        /\ new.seen = (IF pc = "done" THEN st.seen ELSE {})
    BY DEF Return, IdleStop
  <1> HIDE DEF new
  <1>2. 0 <= c
    BY DEF Number
  <1>3. Fresh(new) /\ Numbered(c, new) /\ Opened(t, new) /\ Checked(t, new)
    BY <1>1, <1>2 DEF Good, Fresh, Numbered, Opened, Checked
  <1>4. Pending(t, new) /\ Scanned(t, new)
    <2>1. \A p : Live(t, new, p) => pc = "done" /\ Live(t, st, p)
      BY <1>1 DEF Live
    <2>2. pc = "done" => Left(st) = {}
      BY DEF Left, Killing
    <2> QED
      BY <2>1, <2>2 DEF Good, Pending, Scanned
  <1>5. Paired(t, new)
    BY <1>1 DEF Good, Paired, Killing
  <1> QED
    BY <1>3, <1>4, <1>5 DEF Good, new

LEMMA OpenedGood ==
  ASSUME NEW t \in Table, NEW c \in Number, NEW st \in StopState, Good(t, c, st), Tidy(t, c),
         st.pc = "open", AtOf(st) \in Pid,
         NEW new, new = [st EXCEPT !.pc = "check", !.born = t[AtOf(st)].born]
  PROVE  Good(t, c, new)
  <1>1. /\ new.pc = "check" /\ new.role = st.role /\ new.all = st.all /\ new.engines = st.engines
        /\ new.renderers = st.renderers /\ new.pair = st.pair /\ new.born = t[AtOf(st)].born
        /\ new.tokens = st.tokens /\ new.owners = st.owners /\ new.mixed = st.mixed
        /\ new.seen = st.seen
    BY DEF StopState
  <1>2. (\A p : Live(t, new, p) <=> Live(t, st, p)) /\ AtOf(new) = AtOf(st)
    BY <1>1 DEF Live, AtOf
  <1>3. Fresh(new) /\ Numbered(c, new) /\ Opened(t, new) /\ Checked(t, new)
    BY <1>1, <1>2 DEF Good, Fresh, Numbered, Opened, Checked, Tidy
  <1>4. Pending(t, new) /\ Scanned(t, new) /\ Paired(t, new)
    BY <1>1, <1>2 DEF Good, Pending, Scanned, Left, Paired, Killing
  <1> QED
    BY <1>3, <1>4 DEF Good

LEMMA CheckedGood ==
  ASSUME NEW t \in Table, NEW c \in Number, NEW st \in StopState, Good(t, c, st),
         st.pc = "check", t[AtOf(st)].alive => t[AtOf(st)].role \in EndsAs(st.role),
         NEW new, new = [st EXCEPT !.pc = "signal"]
  PROVE  Good(t, c, new)
  <1>1. /\ new.pc = "signal" /\ new.role = st.role /\ new.all = st.all /\ new.engines = st.engines
        /\ new.renderers = st.renderers /\ new.pair = st.pair /\ new.born = st.born
        /\ new.tokens = st.tokens /\ new.owners = st.owners /\ new.mixed = st.mixed
        /\ new.seen = st.seen
    BY DEF StopState
  <1>2. (\A p : Live(t, new, p) <=> Live(t, st, p)) /\ AtOf(new) = AtOf(st)
    BY <1>1 DEF Live, AtOf
  <1>3. Fresh(new) /\ Numbered(c, new) /\ Opened(t, new) /\ Checked(t, new)
    BY <1>1, <1>2 DEF Good, Fresh, Numbered, Opened, Checked
  <1>4. Pending(t, new) /\ Scanned(t, new) /\ Paired(t, new)
    BY <1>1, <1>2 DEF Good, Pending, Scanned, Left, Paired, Killing
  <1> QED
    BY <1>3, <1>4 DEF Good

(* The signal goes to the process that was opened, so its instance is that *)
(* of the pair.                                                            *)
LEMMA SignalledGood ==
  ASSUME NEW t \in Table, NEW c \in Number, NEW st \in StopState, Good(t, c, st), st.pc = "signal",
         NEW owners, owners = (IF Live(t, st, AtOf(st)) THEN {t[AtOf(st)].owner} ELSE {}),
         NEW new, new = [st EXCEPT !.pc = "wait", !.owners = @ \cup owners]
  PROVE  Good(t, c, new)
  <1>1. /\ new.pc = "wait" /\ new.role = st.role /\ new.all = st.all /\ new.engines = st.engines
        /\ new.renderers = st.renderers /\ new.pair = st.pair /\ new.born = st.born
        /\ new.tokens = st.tokens /\ new.owners = st.owners \cup owners /\ new.mixed = st.mixed
        /\ new.seen = st.seen
    BY DEF StopState
  <1>2. (\A p : Live(t, new, p) <=> Live(t, st, p)) /\ AtOf(new) = AtOf(st)
    BY <1>1 DEF Live, AtOf
  <1>3. Fresh(new) /\ Numbered(c, new) /\ Opened(t, new) /\ Checked(t, new)
    BY <1>1, <1>2 DEF Good, Fresh, Numbered, Opened, Checked
  <1>4. Pending(t, new) /\ Scanned(t, new)
    BY <1>1, <1>2 DEF Good, Pending, Scanned, Left, Killing
  <1>5. Paired(t, new)
    <2> SUFFICES ASSUME st.all PROVE Paired(t, new)
      BY <1>1 DEF Paired
    <2>1. CASE st.role = "engine"
      <3>1. new.owners = owners /\ AtOf(st) = st.pair.engine
        BY <1>1, <2>1 DEF Good, Paired, Killing, AtOf
      <3> QED
        BY <1>1, <1>2, <2>1, <3>1 DEF Good, Paired, Killing
    <2>2. CASE st.role # "engine"
      <3>1. AtOf(st) = st.pair.renderer
        BY <2>2 DEF AtOf
      <3> QED
        BY <1>1, <1>2, <2>2, <3>1 DEF Good, Paired, Killing
    <2> QED
      BY <2>1, <2>2
  <1> QED
    BY <1>3, <1>4, <1>5 DEF Good

(* How a call begins and looks for what it is to stop. *)
LEMMA GivenGood ==
  ASSUME NEW t \in Table, NEW c \in Number, NEW role \in Role, NEW pair,
         NEW new, new = [IdleStop EXCEPT !.pc = "open", !.role = role, !.pair = pair]
  PROVE  Good(t, c, new)
  <1>1. /\ new.pc = "open" /\ new.seen = {} /\ new.born = 0 /\ new.all = FALSE
    BY DEF IdleStop
  <1>2. 0 <= c
    BY DEF Number
  <1> QED
    BY <1>1, <1>2 DEF Good, Fresh, Numbered, Pending, Scanned, Opened, Checked, Paired, Live

LEMMA DetectedGood ==
  ASSUME NEW t \in Table, NEW c \in Number, NEW all \in BOOLEAN,
         NEW new, new = [IdleStop EXCEPT !.pc = "engines", !.all = all]
  PROVE  Good(t, c, new)
  <1>1. /\ new.pc = "engines" /\ new.role = "engine" /\ new.seen = {} /\ new.born = 0 /\ new.all = all
        /\ new.engines = {} /\ new.renderers = {} /\ new.owners = {} /\ new.mixed = FALSE
    BY DEF IdleStop
  <1>2. 0 <= c
    BY DEF Number
  <1>3. Fresh(new) /\ Numbered(c, new) /\ Opened(t, new) /\ Checked(t, new)
    BY <1>1, <1>2 DEF Fresh, Numbered, Opened, Checked
  <1>4. Pending(t, new) /\ Scanned(t, new) /\ Paired(t, new)
    BY <1>1 DEF Pending, Scanned, Paired, Live, Killing
  <1> QED
    BY <1>3, <1>4 DEF Good

(* A process with the number of one that was found is that one. *)
LEMMA FoundAgain ==
  ASSUME Tidy(table, created), NEW role \in Role, NEW p \in Pid, table[p].alive,
         table[p].born \in Born(Found(role))
  PROVE  p \in Found(role)
  <1>1. PICK q \in Found(role) : table[q].born = table[p].born
    BY DEF Born
  <1>2. q \in Pid /\ table[q].alive
    BY DEF Found, Argv0, Role
  <1> QED
    BY <1>1, <1>2 DEF Tidy

LEMMA FoundRole ==
  ASSUME NEW role \in Role, NEW p \in Found(role)
  PROVE  table[p].role = role
  BY DEF Found, Argv0, Role

LEMMA ScanEnginesGood ==
  ASSUME TypeOK, Tidy(table, created), NEW st \in StopState, Good(table, created, st),
         st.pc = "engines",
         NEW new, new = [st EXCEPT !.pc = "renderers", !.engines = Found("engine"),
                                   !.seen = Born(Found("engine"))]
  PROVE  Good(table, created, new)
  <1>1. /\ new.pc = "renderers" /\ new.role = "engine" /\ new.all = st.all /\ new.engines = Found("engine")
        /\ new.renderers = {} /\ new.born = st.born /\ new.owners = {} /\ ~new.mixed
        /\ new.seen = Born(Found("engine"))
    BY DEF StopState, Good, Fresh
  <1>2. Fresh(new) /\ Opened(table, new) /\ Checked(table, new) /\ Paired(table, new)
    BY <1>1 DEF Fresh, Opened, Checked, Paired, Killing
  <1>3. Numbered(created, new)
    BY <1>1 DEF Good, Numbered, Tidy, Born, Found
  <1>4. Pending(table, new) /\ Scanned(table, new)
    BY <1>1, FoundAgain, FoundRole DEF Pending, Scanned, Live, Left, Role
  <1> QED
    BY <1>2, <1>3, <1>4 DEF Good

LEMMA ScanAllGood ==
  ASSUME TypeOK, Tidy(table, created), NEW st \in StopState, Good(table, created, st),
         st.pc = "renderers",
         NEW tokens, \A p \in Found("renderer") : tokens[p] = Token(p),
         NEW new, new = [st EXCEPT !.renderers = Found("renderer"),
                                   !.seen = @ \cup Born(Found("renderer")),
                                   !.pc = "next", !.tokens = tokens]
  PROVE  Good(table, created, new)
  <1>1. /\ new.pc = "next" /\ new.all = st.all /\ new.engines = st.engines
        /\ new.renderers = Found("renderer") /\ new.born = st.born /\ new.owners = {} /\ ~new.mixed
        /\ new.seen = st.seen \cup Born(Found("renderer")) /\ new.tokens = tokens
    BY DEF StopState, Good, Fresh
  <1>2. Fresh(new) /\ Opened(table, new) /\ Checked(table, new)
    BY <1>1 DEF Fresh, Opened, Checked
  <1>3. Numbered(created, new)
    BY <1>1 DEF Good, Numbered, Tidy, Born, Found
  <1>4. Pending(table, new)
    <2>1. ASSUME NEW p \in Pid, Live(table, st, p) PROVE p \in st.engines
      BY <2>1 DEF Good, Pending, Fresh, Left, Killing
    <2> QED
      BY <1>1, <2>1, FoundAgain DEF Pending, Live, Left, Role
  <1>6. Scanned(table, new)
    BY <1>1, FoundAgain, FoundRole DEF Good, Scanned, Live, Role
  <1>5. Paired(table, new)
    BY <1>1 DEF Paired, Live, Token, Killing
  <1> QED
    BY <1>2, <1>3, <1>4, <1>5, <1>6 DEF Good

LEMMA ScanOneGood ==
  ASSUME TypeOK, Tidy(table, created), NEW st \in StopState, Good(table, created, st),
         st.pc = "renderers", ~st.all,
         ~(Cardinality(st.engines) > 1), ~(Cardinality(Found("renderer")) > 1),
         NEW pair, pair.engine = One(st.engines), pair.renderer = One(Found("renderer")),
         NEW new, new = [st EXCEPT !.renderers = {}, !.seen = @ \cup Born(Found("renderer")),
                                   !.pc = "open", !.pair = pair, !.engines = {}]
  PROVE  Good(table, created, new)
  <1>1. /\ new.pc = "open" /\ new.role = "engine" /\ ~new.all /\ new.pair = pair
        /\ new.engines = {} /\ new.renderers = {} /\ new.born = st.born
        /\ new.seen = st.seen \cup Born(Found("renderer"))
    BY DEF StopState, Good, Fresh
  <1>2. Fresh(new) /\ Opened(table, new) /\ Checked(table, new) /\ Paired(table, new)
    BY <1>1 DEF Fresh, Opened, Checked, Paired
  <1>3. Numbered(created, new)
    BY <1>1 DEF Good, Numbered, Tidy, Born, Found
  <1>4. Pending(table, new)
    <2> SUFFICES ASSUME NEW p \in Pid, Live(table, new, p) PROVE p \in Left(new)
      BY DEF Pending
    <2>1. Left(new) = {pair.engine, pair.renderer}
      BY <1>1 DEF Left, Killing
    <2>2. CASE Live(table, st, p)
      <3>1. p \in st.engines /\ st.engines \in SUBSET Pid
        BY <2>2 DEF Good, Pending, Fresh, Left, Killing, StopState
      <3> QED
        BY <2>1, <3>1, OneIsAll
    <2>3. CASE ~Live(table, st, p)
      <3>1. table[p].alive /\ table[p].born \in Born(Found("renderer"))
        BY <1>1, <2>3 DEF Live
      <3>2. p \in Found("renderer") /\ Found("renderer") \in SUBSET Pid
        BY <3>1, FoundAgain DEF Role, Found
      <3> QED
        BY <2>1, <3>2, OneIsAll
    <2> QED
      BY <2>2, <2>3
  <1>5. Scanned(table, new)
    BY <1>1, FoundAgain, FoundRole DEF Good, Scanned, Live, Role
  <1> QED
    BY <1>2, <1>3, <1>4, <1>5 DEF Good

(* The pair that comes next is of one instance. *)
LEMMA GoesGood ==
  ASSUME NEW t \in Table, NEW c \in Number, NEW st \in StopState, Good(t, c, st), st.pc = "next",
         NEW e \in PidRef, NEW r \in PidRef,
         st.all /\ Live(t, st, e) /\ Live(t, st, r) => t[e].owner = t[r].owner,
         NEW new, new = [st EXCEPT !.pc = "open", !.role = "engine",
                                   !.pair = [engine |-> e, renderer |-> r], !.owners = {},
                                   !.engines = @ \ {e}, !.renderers = @ \ {r}]
  PROVE  Good(t, c, new)
  <1>1. /\ new.pc = "open" /\ new.role = "engine" /\ new.all = st.all
        /\ new.pair.engine = e /\ new.pair.renderer = r
        /\ new.engines = st.engines \ {e} /\ new.renderers = st.renderers \ {r}
        /\ new.born = st.born /\ new.tokens = st.tokens /\ new.owners = {} /\ new.mixed = st.mixed
        /\ new.seen = st.seen
    BY DEF StopState
  <1>2. \A p : Live(t, new, p) <=> Live(t, st, p)
    BY <1>1 DEF Live
  <1>3. Fresh(new) /\ Numbered(c, new) /\ Opened(t, new) /\ Checked(t, new)
    BY <1>1 DEF Good, Fresh, Numbered, Opened, Checked
  <1>4. Pending(t, new) /\ Scanned(t, new)
    BY <1>1, <1>2 DEF Good, Pending, Scanned, Left, Killing
  <1>5. Paired(t, new)
    BY <1>1, <1>2 DEF Good, Paired, Killing
  <1> QED
    BY <1>3, <1>4, <1>5 DEF Good

LEMMA PartnerOwner ==
  ASSUME TypeOK, Tidy(table, created), NEW s \in Stop, Good(table, created, stop[s]),
         stop[s].pc = "next", stop[s].all, NEW e \in stop[s].engines, NEW r \in Partner(s, e),
         Live(table, stop[s], e), Live(table, stop[s], r)
  PROVE  table[e].owner = table[r].owner
  <1>1. e \in Pid /\ r \in Pid /\ table[e].alive /\ table[r].alive
    BY DEF Live
  <1>2. CASE r \in stop[s].renderers /\ Token(e) # Foreign /\ stop[s].tokens[r] = Token(e)
    <2>1. stop[s].tokens[r] = table[r].owner
      BY <1>2 DEF Good, Paired
    <2> QED
      BY <1>1, <1>2, <2>1 DEF Token
  <1>3. CASE r \in ChildRenderers(e, stop[s].renderers)
    BY <1>1, <1>3 DEF ChildRenderers, Tidy
  <1> QED
    BY <1>1, <1>2, <1>3 DEF Partner

(* A step of the call itself, which keeps the table or ends its process. *)
LEMMA StopGood ==
  ASSUME TypeOK, Tidy(table, created), NEW s \in Stop, Good(table, created, stop[s]),
         \/ TerminateGiven(s) \/ TerminateDetected(s) \/ ScanEngines(s)
         \/ ScanRenderers(s) \/ NextPair(s) \/ Open(s) \/ Check(s) \/ Signal(s)
  PROVE  Good(table', created', stop'[s])
  <1> DEFINE st == stop[s]
  <1>1. st \in StopState /\ table \in Table /\ created \in Number
    BY DEF TypeOK, Table
  <1>2. UNCHANGED <<table, created>>
    BY DEF TerminateGiven, TerminateDetected, ScanEngines, ScanRenderers, NextPair, Open, Check,
           Signal, StopStep, Quiet
  <1> SUFFICES Good(table, created, stop'[s])
    BY <1>2
  <1>3. ASSUME NEW from, NEW update, StopStep(s, from, update)
        PROVE  st.pc = from /\ stop'[s] = update
    BY <1>3 DEF StopStep, TypeOK
  <1>4. CASE TerminateGiven(s)
    <2>1. PICK p \in Pid, role \in Role :
            StopStep(s, "idle", [st EXCEPT !.pc = "open", !.role = role,
                                           !.pair = [NoPair EXCEPT ![role] = p]])
      BY <1>4 DEF TerminateGiven
    <2>2. /\ st = IdleStop
          /\ stop'[s] = [st EXCEPT !.pc = "open", !.role = role, !.pair = [NoPair EXCEPT ![role] = p]]
      BY <1>3, <2>1 DEF Good, Fresh
    <2> QED
      BY <1>1, <2>2, GivenGood
  <1>5. CASE TerminateDetected(s)
    <2>1. PICK all \in BOOLEAN : StopStep(s, "idle", [st EXCEPT !.pc = "engines", !.all = all])
      BY <1>5 DEF TerminateDetected
    <2>2. st = IdleStop /\ stop'[s] = [st EXCEPT !.pc = "engines", !.all = all]
      BY <1>3, <2>1 DEF Good, Fresh
    <2> QED
      BY <1>1, <2>2, DetectedGood
  <1>6. CASE ScanEngines(s)
    <2>1. /\ st.pc = "engines"
          /\ stop'[s] = [st EXCEPT !.pc = "renderers", !.engines = Found("engine"),
                                   !.seen = Born(Found("engine"))]
      BY <1>3, <1>6 DEF ScanEngines
    <2> QED
      BY <1>1, <2>1, ScanEnginesGood
  <1>7. CASE ScanRenderers(s)
    <2> DEFINE found == Found("renderer")
               tokens == [p \in Pid |-> IF p \in found THEN Token(p) ELSE Foreign]
               pair == [engine |-> One(st.engines), renderer |-> One(found)]
    <2>1. CASE st.all
      <3>1. /\ st.pc = "renderers"
            /\ stop'[s] = [st EXCEPT !.renderers = found, !.seen = @ \cup Born(found),
                                     !.pc = "next", !.tokens = tokens]
        BY <1>3, <1>7, <2>1 DEF ScanRenderers
      <3>2. \A p \in found : tokens[p] = Token(p)
        BY DEF Found
      <3> HIDE DEF tokens
      <3> QED
        BY <1>1, <3>1, <3>2, ScanAllGood
    <2>2. CASE ~st.all /\ (Cardinality(st.engines) > 1 \/ Cardinality(found) > 1)
      <3>1. stop'[s] = Return(s, "error")
        BY <1>3, <1>7, <2>2 DEF ScanRenderers
      <3> QED
        BY <1>1, <3>1, ReturnGood
    <2>3. CASE ~st.all /\ ~(Cardinality(st.engines) > 1 \/ Cardinality(found) > 1)
      <3>1. StopStep(s, "renderers", [[st EXCEPT !.renderers = found, !.seen = @ \cup Born(found)]
                       EXCEPT !.pc = "open", !.pair = pair, !.engines = {}, !.renderers = {}])
        BY <1>7, <2>3 DEF ScanRenderers
      <3>2. [[st EXCEPT !.renderers = found, !.seen = @ \cup Born(found)]
                       EXCEPT !.pc = "open", !.pair = pair, !.engines = {}, !.renderers = {}]
              = [st EXCEPT !.renderers = {}, !.seen = @ \cup Born(found),
                           !.pc = "open", !.pair = pair, !.engines = {}]
        <4> HIDE DEF pair, found
        <4> QED
          BY <1>1 DEF StopState
      <3>3. /\ st.pc = "renderers"
            /\ stop'[s] = [st EXCEPT !.renderers = {}, !.seen = @ \cup Born(found),
                                     !.pc = "open", !.pair = pair, !.engines = {}]
        BY <1>3, <3>1, <3>2
      <3>4. pair.engine = One(st.engines) /\ pair.renderer = One(found)
        OBVIOUS
      <3> HIDE DEF pair
      <3> QED
        BY <1>1, <2>3, <3>3, <3>4, ScanOneGood
    <2> QED
      BY <2>1, <2>2, <2>3
  <1>8. CASE NextPair(s)
    <2> DEFINE Goes(e, r) == [st EXCEPT !.pc = "open", !.role = "engine",
                                !.pair = [engine |-> e, renderer |-> r], !.owners = {},
                                !.engines = @ \ {e}, !.renderers = @ \ {r}]
    <2>1. CASE st.all /\ \E e \in st.engines : \E r \in Partner(s, e) : StopStep(s, "next", Goes(e, r))
      <3>1. PICK e \in st.engines : \E r \in Partner(s, e) : StopStep(s, "next", Goes(e, r))
        BY <2>1
      <3>2. PICK r \in Partner(s, e) : StopStep(s, "next", Goes(e, r))
        BY <3>1
      <3>3. e \in PidRef /\ r \in PidRef
        BY <1>1 DEF StopState, Partner, ChildRenderers, PidRef
      <3>4. st.pc = "next" /\ stop'[s] = Goes(e, r)
        BY <1>3, <3>2
      <3>5. st.all /\ Live(table, st, e) /\ Live(table, st, r) => table[e].owner = table[r].owner
        BY <3>4, PartnerOwner
      <3> QED
        BY <1>1, <3>3, <3>4, <3>5, GoesGood
    <2>2. CASE \E r \in Unpaired(s) : StopStep(s, "next", Goes(NoPid, r))
      <3>1. PICK r \in Unpaired(s) : StopStep(s, "next", Goes(NoPid, r))
        BY <2>2
      <3>2. NoPid \in PidRef /\ r \in PidRef /\ ~Live(table, st, NoPid)
        BY <1>1 DEF StopState, Unpaired, PidRef, Live
      <3>3. st.pc = "next" /\ stop'[s] = Goes(NoPid, r)
        BY <1>3, <3>1
      <3> QED
        BY <1>1, <3>2, <3>3, GoesGood
    <2>3. CASE st.engines = {} /\ Unpaired(s) = {} /\ StopStep(s, "next", Return(s, "done"))
      <3>1. st.pc = "next" /\ stop'[s] = Return(s, "done")
        BY <1>3, <2>3
      <3> QED
        BY <1>1, <2>3, <3>1, ReturnGood DEF Unpaired
    <2> QED
      BY <1>8, <2>1, <2>2, <2>3 DEF NextPair
  <1>9. CASE Open(s)
    <2>1. CASE At(s) = NoPid \/ ~Known(At(s))
      <3>1. st.pc = "open" /\ stop'[s] = Proceed(st)
        BY <1>3, <1>9, <2>1 DEF Open
      <3>2. ~Live(table, st, AtOf(st)) /\ st.pc \in Killing
        BY <2>1, <3>1 DEF Live, Known, NoProcess, At, AtOf, Killing
      <3> QED
        BY <1>1, <3>1, <3>2, ProceedGood
    <2>2. CASE ~(At(s) = NoPid \/ ~Known(At(s)))
      <3>1. st.pc = "open" /\ stop'[s] = [st EXCEPT !.pc = "check", !.born = table[AtOf(st)].born]
        BY <1>3, <1>9, <2>2 DEF Open, At, AtOf
      <3>2. AtOf(st) \in Pid
        BY <2>2, StopUpdates DEF At, AtOf, PidRef
      <3> QED
        BY <1>1, <3>1, <3>2, OpenedGood
    <2> QED
      BY <2>1, <2>2
  <1>10. CASE Check(s)
    <2>1. CASE Argv0(At(s)) \in EndsAs(st.role)
      <3>1. st.pc = "check" /\ stop'[s] = [st EXCEPT !.pc = "signal"]
        BY <1>3, <1>10, <2>1 DEF Check
      <3>2. table[AtOf(st)].alive => table[AtOf(st)].role \in EndsAs(st.role)
        BY <2>1 DEF Argv0, At, AtOf
      <3> QED
        BY <1>1, <3>1, <3>2, CheckedGood
    <2>2. CASE Argv0(At(s)) \notin EndsAs(st.role)
      <3>1. stop'[s] = Return(s, "error")
        BY <1>3, <1>10, <2>2 DEF Check
      <3> QED
        BY <1>1, <3>1, ReturnGood
    <2> QED
      BY <2>1, <2>2
  <1>11. CASE Signal(s)
    <2>1. CASE SameProcess(s)
      <3>1. st.pc = "signal" /\ stop'[s] = [st EXCEPT !.pc = "wait", !.owners = @ \cup Witnessed(s)]
        BY <1>3, <1>11, <2>1 DEF Signal
      <3>2. Witnessed(s) = (IF Live(table, st, AtOf(st)) THEN {table[AtOf(st)].owner} ELSE {})
        BY <2>1 DEF Witnessed, SameProcess, Live, At, AtOf
      <3> QED
        BY <1>1, <3>1, <3>2, SignalledGood
    <2>2. CASE ~SameProcess(s)
      <3>1. stop'[s] = Return(s, "escaped")
        BY <1>3, <1>11, <2>2 DEF Signal
      <3> QED
        BY <1>1, <3>1, ReturnGood
    <2> QED
      BY <2>1, <2>2
  <1> QED
    BY <1>4, <1>5, <1>6, <1>7, <1>8, <1>9, <1>10, <1>11

LEMMA FinishGood ==
  ASSUME TypeOK, Tidy(table, created), NEW s \in Stop, Good(table, created, stop[s]), Finish(s)
  PROVE  Good(table', created', stop'[s])
  <1> DEFINE st == stop[s]
  <1>1. st \in StopState /\ table \in Table /\ created \in Number
    BY DEF TypeOK, Table
  <1>2. st.pc = "wait" /\ st.pc \in Killing /\ stop'[s] \in {Proceed(st), Return(s, "escaped")}
    BY DEF Finish, StopStep, TypeOK, Killing
  <1>3. created' = created /\ table' \in Table
    BY <1>1, EndedType, TypeParts DEF Finish, StopStep, Quiet, SameProcess, Table
  <1>4. Good(table', created', st)
    <2>1. Moves(table, created, table', created')
      <3>1. ProcessType
        BY TypeParts
      <3>2. table' = table \/ (At(s) \in Pid /\ table' = Ended(At(s)))
        BY DEF Finish, Quiet, SameProcess
      <3>3. CASE table' = table
        BY <1>3, <3>1, <3>3, NoMove
      <3>4. CASE At(s) \in Pid /\ table' = Ended(At(s))
        BY <1>3, <3>1, <3>4, EndedMoves
      <3> QED
        BY <3>2, <3>3, <3>4
    <2> QED
      BY <1>1, <1>3, <2>1, StaysGood
  <1>5. CASE stop'[s] = Return(s, "escaped")
    BY <1>1, <1>3, <1>4, <1>5, ReturnGood
  <1>6. CASE stop'[s] = Proceed(st)
    <2>1. ~Live(table', st, AtOf(st))
      <3>1. CASE SameProcess(s) /\ table' = Ended(At(s))
        BY <3>1 DEF SameProcess, Ended, NoProcess, Live, At, AtOf
      <3>2. CASE ~SameProcess(s) /\ table' = table
        <4>1. AtOf(st) \in Pid /\ (Live(table, st, AtOf(st)) => table[AtOf(st)].born = st.born)
          BY <1>2 DEF Good, Opened
        <4> QED
          BY <3>2, <4>1 DEF SameProcess, Live, Known, NoProcess, At, AtOf
      <3> QED
        BY <3>1, <3>2 DEF Finish, Quiet
    <2> QED
      BY <1>1, <1>2, <1>3, <1>4, <1>6, <2>1, ProceedGood
  <1> QED
    BY <1>2, <1>5, <1>6

StopInv == Tidy(table, created) /\ \A s \in Stop : Good(table, created, stop[s])

LEMMA InitStop == Init => StopInv
  <1> SUFFICES ASSUME Init PROVE StopInv
    OBVIOUS
  <1>1. table \in Table /\ created \in Number
    BY LauncherInitType DEF TypeOK, Table
  <1>2. ASSUME NEW s \in Stop PROVE Good(table, created, stop[s])
    <2>1. /\ stop[s] = IdleStop /\ IdleStop.pc = "idle" /\ IdleStop.seen = {} /\ IdleStop.born = 0
          /\ ~IdleStop.all /\ 0 <= created
      BY <1>1 DEF Init, IdleStop, Number
    <2> QED
      BY <2>1 DEF Good, Fresh, Numbered, Pending, Scanned, Opened, Checked, Paired, Live
  <1> QED
    BY <1>2, InitTidy DEF StopInv

LEMMA StopInvStep == TypeOK /\ StopInv /\ [Next]_vars => StopInv'
  <1> SUFFICES ASSUME TypeOK, StopInv, [Next]_vars PROVE StopInv'
    OBVIOUS
  <1>1. TypeOK' /\ Moves(table, created, table', created')
    BY LauncherStepType, TableMoves
  <1>2. /\ table \in Table /\ created \in Number /\ table' \in Table /\ created' \in Number
        /\ \A s \in Stop : stop[s] \in StopState
    BY <1>1 DEF TypeOK, Table
  <1>3. ASSUME NEW s \in Stop PROVE Good(table', created', stop'[s])
    <2>1. CASE stop'[s] = stop[s]
      BY <1>1, <1>2, <2>1, StaysGood DEF StopInv
    <2>2. CASE stop'[s] # stop[s]
      <3>1. PICK r \in Stop : \/ TerminateGiven(r) \/ TerminateDetected(r) \/ ScanEngines(r)
                              \/ ScanRenderers(r) \/ NextPair(r) \/ Open(r) \/ Check(r)
                              \/ Signal(r) \/ Finish(r)
        <4>1. stop' # stop
          BY <2>2
        <4>2. ~Processes /\ ~Launches
          BY <4>1 DEF Processes, EngineStarts, RendererStarts, OtherStarts, Create, Exit, Reap,
               Launches, Prepare, ResolveExeFails, InstancePathsFail, BuildCommand, LaunchFails,
               LaunchStep, SnapshotEngines, SnapshotRenderers, Popen, WaitForEngine,
               WaitForRenderer, WaitForNew
        <4>3. Stops
          BY <4>1, <4>2 DEF Next, vars
        <4> QED
          BY <4>3 DEF Stops
      <3>2. \E from, update : StopStep(r, from, update)
        BY <3>1 DEF TerminateGiven, TerminateDetected, ScanEngines, ScanRenderers, NextPair, Open,
             Check, Signal, Finish
      <3>3. r = s
        BY <2>2, <3>2 DEF StopStep, TypeOK
      <3> QED
        BY <3>1, <3>3, StopGood, FinishGood DEF StopInv
    <2> QED
      BY <2>1, <2>2
  <1>4. Tidy(table, created)'
    BY TidyStep DEF StopInv
  <1> QED
    BY <1>3, <1>4 DEF StopInv

(* What a signal hits ends as the role that was asked for, and is that     *)
(* role where the scan had found it.                                       *)
LEMMA HitStep == TypeOK /\ StopInv /\ OnlyAsked /\ [Next]_vars => OnlyAsked'
  <1> SUFFICES ASSUME TypeOK, StopInv, OnlyAsked, [Next]_vars, NEW h \in hit', h \notin hit
               PROVE  h.was \in EndsAs(h.asked) /\ (h.found => h.was = h.asked)
    BY DEF OnlyAsked
  <1>1. PICK s \in Stop : Signal(s)
    BY DEF vars, Next, Processes, EngineStarts, RendererStarts, OtherStarts, Create, Exit, Reap,
         Launches, Prepare, ResolveExeFails, InstancePathsFail, BuildCommand, LaunchFails,
         LaunchStep, SnapshotEngines, SnapshotRenderers, Popen, WaitForEngine, WaitForRenderer,
         WaitForNew, Stops, TerminateGiven, TerminateDetected, ScanEngines, ScanRenderers,
         NextPair, Open, Check, Finish, Quiet
  <1>2. /\ SameProcess(s) /\ table[At(s)].alive /\ stop[s].pc = "signal"
        /\ h = [asked |-> stop[s].role, was |-> table[At(s)].role,
                 found |-> stop[s].born \in stop[s].seen]
    BY <1>1 DEF Signal, StopStep, Quiet
  <1>3. table[At(s)].role \in EndsAs(stop[s].role)
    BY <1>2 DEF StopInv, Good, Checked, SameProcess, At, AtOf
  <1>4. stop[s].born \in stop[s].seen => table[At(s)].role \in Role
    BY <1>2 DEF StopInv, Good, Scanned, Live, SameProcess
  <1>5. stop[s].role \in Role
    BY DEF TypeOK, StopState
  <1>6. ASSUME stop[s].born \in stop[s].seen PROVE table[At(s)].role = stop[s].role
    BY <1>3, <1>4, <1>5, <1>6 DEF EndsAs, Role
  <1> QED
    BY <1>2, <1>3, <1>6

(* No program whose path does not end as the role's is ever signalled:     *)
(* argv[0] tells the end of the path, and the creation time that the PID   *)
(* still is the process that was looked at.  What the scan had found by    *)
(* its whole path, and still runs, is signalled as what it was found.      *)
THEOREM OnlyAskedIsHit == Spec => []OnlyAsked
  <1>1. Init => OnlyAsked
    BY DEF Init, OnlyAsked
  <1> QED
    BY <1>1, LauncherInitType, LauncherStepType, InitStop, StopInvStep, HitStep, PTL DEF Spec

LEMMA WholeFromInv == StopInv => TerminatesWhole
  <1> SUFFICES ASSUME StopInv PROVE TerminatesWhole
    OBVIOUS
  <1>1. ASSUME NEW s \in Stop, stop[s].pc = "done", NEW p \in Pid, table[p].alive,
               table[p].born \in stop[s].seen
        PROVE  FALSE
    BY <1>1 DEF StopInv, Good, Pending, Live, Left, Killing, Fresh
  <1>2. PairsOneInstance
    BY DEF PairsOneInstance, StopInv, Good, Paired
  <1> QED
    BY <1>1, <1>2 DEF TerminatesWhole, StopsAllSeen

(* A terminate or terminate_all that returns has ended all it found, and   *)
(* what it took for one instance was one.                                  *)
THEOREM StopsEndInstances == Spec => []TerminatesWhole
  BY LauncherInitType, LauncherStepType, InitStop, StopInvStep, WholeFromInv, PTL DEF Spec
-----------------------------------------------------------------------------
(* A call of launch.  While nothing else has come up, every engine and     *)
(* every renderer that was not there when it looked first is its own.      *)

LaunchGood(l) ==
  /\ launch[l].pc \in {"idle", "engines", "renderers", "spawn", "waitEngine"} => launch[l].owners = {}
  /\ launch[l].pc \in {"waitRenderer", "done"} /\ launch[l].alone => launch[l].owners = {l}
  /\ launch[l].pc \in {"renderers", "spawn", "waitEngine"} /\ launch[l].alone =>
       \A p \in Found("engine") \ launch[l].beforeEngines : table[p].owner = l
  /\ launch[l].pc \in {"spawn", "waitEngine", "waitRenderer"} /\ launch[l].alone =>
       \A p \in Found("renderer") \ launch[l].beforeRenderers : table[p].owner = l

LaunchInv == \A l \in Launch : LaunchGood(l)

(* An engine or renderer that is there after a step of anything else was   *)
(* there before it, or is the launch's own, or it is not alone any more.   *)
LEMMA NoIntruder ==
  ASSUME TypeOK, Processes \/ Stops, NEW l \in Launch, Waiting(l), launch'[l].alone,
         NEW p \in Pid, table'[p].alive, table'[p].role \in Role
  PROVE  table'[p].owner = l \/ (table[p].alive /\ table'[p].role = table[p].role
                                                /\ table'[p].owner = table[p].owner)
  <1>1. ASSUME NEW q \in Pid, table' = Ended(q)
        PROVE  table[p].alive /\ table'[p].role = table[p].role /\ table'[p].owner = table[p].owner
    <2>1. Moves(table, created, Ended(q), created)
      BY EndedMoves, TypeParts
    <2>2. Kept(table, table', p)
      <3>1. created \in Nat
        BY DEF TypeOK, Number
      <3> QED
        BY <1>1, <2>1, <3>1 DEF Moves
    <2> QED
      BY <2>2 DEF Kept
  <1>2. CASE Processes
    <2>1. PICK q \in Pid : \/ \E k \in Launch : EngineStarts(k, q) \/ RendererStarts(k, q)
                           \/ OtherStarts(q) \/ Exit(q) \/ Reap(q)
      BY <1>2 DEF Processes
    <2>2. ASSUME NEW role, NEW owner, NEW parent, Create(q, role, owner, parent)
          PROVE  table'[p].owner = l \/ table'[p] = table[p]
      <3>1. CASE p = q
        <4>1. table'[p].role = role /\ table'[p].owner = owner
          BY <2>2, <3>1 DEF Create, TypeOK
        <4>2. ~(role \in Role /\ owner # l)
          <5> SUFFICES ASSUME role \in Role, owner # l PROVE FALSE
            OBVIOUS
          <5>1. launch'[l] = [launch[l] EXCEPT !.alone = FALSE]
            BY <2>2 DEF Create
          <5>2. launch[l] \in LaunchState
            BY DEF TypeOK
          <5> QED
            BY <5>1, <5>2 DEF LaunchState
        <4> QED
          BY <4>1, <4>2
      <3>2. CASE p # q
        BY <2>2, <3>2 DEF Create, TypeOK
      <3> QED
        BY <3>1, <3>2
    <2>3. CASE Exit(q)
      BY <1>1, <2>3 DEF Exit
    <2>4. CASE Reap(q)
      <3>1. p # q
        BY <2>4 DEF Reap, TypeOK, NoProcess
      <3> QED
        BY <2>4, <3>1 DEF Reap, TypeOK
    <2>5. CASE OtherStarts(q)
      BY <2>2, <2>5 DEF OtherStarts
    <2> QED
      BY <2>1, <2>2, <2>3, <2>4, <2>5 DEF EngineStarts, RendererStarts
  <1>3. CASE Stops
    <2>1. PICK s \in Stop : \/ TerminateGiven(s) \/ TerminateDetected(s) \/ ScanEngines(s)
                            \/ ScanRenderers(s) \/ NextPair(s) \/ Open(s) \/ Check(s)
                            \/ Signal(s) \/ Finish(s)
      BY <1>3 DEF Stops
    <2>2. UNCHANGED table \/ (At(s) \in Pid /\ table' = Ended(At(s)))
      BY <2>1 DEF TerminateGiven, TerminateDetected, ScanEngines, ScanRenderers, NextPair,
           Open, Check, Signal, Finish, Quiet, SameProcess
    <2> QED
      BY <1>1, <2>2
  <1> QED
    BY <1>2, <1>3

LEMMA OthersKeepLaunch ==
  ASSUME TypeOK, LaunchInv, Processes \/ Stops, NEW l \in Launch
  PROVE  LaunchGood(l)'
  <1>1. \/ launch'[l] = launch[l]
        \/ launch'[l] = [launch[l] EXCEPT !.alone = FALSE]
    BY DEF Processes, EngineStarts, RendererStarts, OtherStarts, Create, Exit, Reap,
           Stops, TerminateGiven, TerminateDetected, ScanEngines, ScanRenderers, NextPair,
           Open, Check, Signal, Finish, StopStep
  <1>2. launch[l] \in LaunchState
    BY DEF TypeOK
  <1>3. CASE launch'[l] = [launch[l] EXCEPT !.alone = FALSE]
    <2>1. /\ launch'[l].pc = launch[l].pc /\ launch'[l].owners = launch[l].owners
          /\ ~launch'[l].alone
      BY <1>2, <1>3 DEF LaunchState
    <2> QED
      BY <2>1 DEF LaunchInv, LaunchGood
  <1>4. CASE launch'[l] = launch[l]
    <2>1. ASSUME NEW role \in Role, NEW p \in Found(role)', launch[l].alone, Waiting(l)
          PROVE  table'[p].owner = l \/ (p \in Found(role) /\ table'[p].owner = table[p].owner)
      <3>1. p \in Pid /\ table'[p].alive /\ table'[p].role = role
        BY DEF Found, Argv0, Role
      <3> QED
        BY <1>4, <2>1, <3>1, NoIntruder DEF Found, Argv0
    <2>2. ASSUME launch[l].pc \in {"renderers", "spawn", "waitEngine"}, launch[l].alone,
                 NEW p \in Found("engine")' \ launch[l].beforeEngines
          PROVE  table'[p].owner = l
      <3>1. Waiting(l)
        BY <2>2 DEF Waiting
      <3> QED
        BY <2>1, <2>2, <3>1 DEF LaunchInv, LaunchGood, Role
    <2>3. ASSUME launch[l].pc \in {"spawn", "waitEngine", "waitRenderer"}, launch[l].alone,
                 NEW p \in Found("renderer")' \ launch[l].beforeRenderers
          PROVE  table'[p].owner = l
      <3>1. Waiting(l)
        BY <2>3 DEF Waiting
      <3> QED
        BY <2>1, <2>3, <3>1 DEF LaunchInv, LaunchGood, Role
    <2> QED
      BY <1>4, <2>2, <2>3 DEF LaunchInv, LaunchGood
  <1> QED
    BY <1>1, <1>3, <1>4

LEMMA FailedGood ==
  ASSUME TypeOK, NEW l \in Launch, NEW from, LaunchFails(l, from)
  PROVE  LaunchGood(l)'
  <1>1. launch'[l].pc = "error"
    BY DEF LaunchFails, LaunchStep, TypeOK, IdleLaunch
  <1> QED
    BY <1>1 DEF LaunchGood

LEMMA LaunchKeepsLaunch ==
  ASSUME TypeOK, LaunchInv, NEW l \in Launch,
         \/ Prepare(l) \/ SnapshotEngines(l) \/ SnapshotRenderers(l)
         \/ Popen(l) \/ WaitForEngine(l) \/ WaitForRenderer(l)
  PROVE  LaunchGood(l)'
  <1> DEFINE st == launch[l]
             new == launch'[l]
  <1>1. st \in LaunchState /\ LaunchGood(l)
    BY DEF TypeOK, LaunchInv
  <1>2. ASSUME NEW from, NEW update, LaunchStep(l, from, update)
        PROVE  st.pc = from /\ new = update /\ table' = table
    BY <1>2 DEF LaunchStep, TypeOK
  <1>3. CASE Prepare(l)
    <2>1. CASE \E from : LaunchFails(l, from)
      BY <2>1, FailedGood
    <2>2. CASE LaunchStep(l, "idle", [st EXCEPT !.pc = "engines"])
      <3>1. new.pc = "engines" /\ new.owners = {}
        BY <1>1, <1>2, <2>2 DEF LaunchState, LaunchGood
      <3> QED
        BY <3>1 DEF LaunchGood
    <2> QED
      BY <1>3, <2>1, <2>2 DEF Prepare, ResolveExeFails, InstancePathsFail, BuildCommand
  <1>4. CASE SnapshotEngines(l)
    <2>1. LaunchStep(l, "engines", [st EXCEPT !.pc = "renderers", !.beforeEngines = Found("engine")])
      BY <1>4 DEF SnapshotEngines
    <2>2. /\ st.pc = "engines" /\ table' = table
          /\ new = [st EXCEPT !.pc = "renderers", !.beforeEngines = Found("engine")]
      BY <2>1 DEF LaunchStep, TypeOK
    <2>3. new.pc = "renderers" /\ new.owners = {} /\ new.beforeEngines = Found("engine")
      BY <1>1, <2>2 DEF LaunchState, LaunchGood
    <2> QED
      BY <2>2, <2>3 DEF LaunchGood, Found, Argv0
  <1>5. CASE SnapshotRenderers(l)
    <2>1. LaunchStep(l, "renderers", [st EXCEPT !.pc = "spawn", !.beforeRenderers = Found("renderer")])
      BY <1>5 DEF SnapshotRenderers
    <2>2. /\ st.pc = "renderers" /\ table' = table
          /\ new = [st EXCEPT !.pc = "spawn", !.beforeRenderers = Found("renderer")]
      BY <2>1 DEF LaunchStep, TypeOK
    <2>3. /\ new.pc = "spawn" /\ new.owners = {} /\ new.alone = st.alone
          /\ new.beforeEngines = st.beforeEngines /\ new.beforeRenderers = Found("renderer")
      BY <1>1, <2>2 DEF LaunchState, LaunchGood
    <2> QED
      BY <1>1, <2>2, <2>3 DEF LaunchGood, Found, Argv0
  <1>6. CASE Popen(l)
    <2>1. CASE LaunchFails(l, "spawn")
      BY <2>1, FailedGood
    <2>2. CASE LaunchStep(l, "spawn", [st EXCEPT !.pc = "waitEngine"])
      <3>1. /\ st.pc = "spawn" /\ new.pc = "waitEngine" /\ new.owners = {} /\ new.alone = st.alone
            /\ new.beforeEngines = st.beforeEngines /\ new.beforeRenderers = st.beforeRenderers
            /\ table' = table
        BY <1>1, <1>2, <2>2 DEF LaunchState, LaunchGood
      <3> QED
        BY <1>1, <3>1 DEF LaunchGood, Found, Argv0
    <2> QED
      BY <1>6, <2>1, <2>2 DEF Popen
  <1>7. CASE WaitForEngine(l)
    <2> DEFINE found == New(Found("engine"), st.beforeEngines)
               then == [st EXCEPT !.pc = "waitRenderer"]
    <2>1. CASE LaunchFails(l, "waitEngine")
      BY <2>1, FailedGood
    <2>2. CASE \E p \in found : LaunchStep(l, "waitEngine", [then EXCEPT !.owners = @ \cup {table[p].owner}])
      <3>1. PICK p \in found : LaunchStep(l, "waitEngine", [then EXCEPT !.owners = @ \cup {table[p].owner}])
        BY <2>2
      <3>2. st.pc = "waitEngine" /\ table' = table /\ new = [then EXCEPT !.owners = @ \cup {table[p].owner}]
        BY <1>2, <3>1
      <3>3. /\ new.pc = "waitRenderer" /\ new.owners = {table[p].owner} /\ new.alone = st.alone
            /\ new.beforeRenderers = st.beforeRenderers
        BY <1>1, <3>2 DEF LaunchState, LaunchGood
      <3>4. st.alone => table[p].owner = l
        BY <1>1, <3>2 DEF LaunchGood, New
      <3> QED
        BY <1>1, <3>2, <3>3, <3>4 DEF LaunchGood, Found, Argv0
    <2> QED
      BY <1>7, <2>1, <2>2 DEF WaitForEngine, WaitForNew
  <1>8. CASE WaitForRenderer(l)
    <2> DEFINE found == New(Found("renderer"), st.beforeRenderers)
               then == [st EXCEPT !.pc = "done", !.beforeEngines = {}, !.beforeRenderers = {}]
    <2>1. CASE LaunchFails(l, "waitRenderer")
      BY <2>1, FailedGood
    <2>2. CASE \E p \in found : LaunchStep(l, "waitRenderer", [then EXCEPT !.owners = @ \cup {table[p].owner}])
      <3>1. PICK p \in found : LaunchStep(l, "waitRenderer", [then EXCEPT !.owners = @ \cup {table[p].owner}])
        BY <2>2
      <3>2. st.pc = "waitRenderer" /\ new = [then EXCEPT !.owners = @ \cup {table[p].owner}]
        BY <1>2, <3>1
      <3>3. new.pc = "done" /\ new.owners = st.owners \cup {table[p].owner} /\ new.alone = st.alone
        BY <1>1, <3>2 DEF LaunchState
      <3>4. st.alone => table[p].owner = l /\ st.owners = {l}
        BY <1>1, <3>2 DEF LaunchGood, New
      <3> QED
        BY <3>3, <3>4 DEF LaunchGood
    <2> QED
      BY <1>8, <2>1, <2>2 DEF WaitForRenderer, WaitForNew
  <1> QED
    BY <1>3, <1>4, <1>5, <1>6, <1>7, <1>8

LEMMA LaunchInvStep == TypeOK /\ LaunchInv /\ [Next]_vars => LaunchInv'
  <1> SUFFICES ASSUME TypeOK, LaunchInv, [Next]_vars, NEW l \in Launch PROVE LaunchGood(l)'
    BY DEF LaunchInv
  <1>1. CASE Processes \/ Stops
    BY <1>1, OthersKeepLaunch
  <1>2. CASE UNCHANGED <<table, launch[l]>>
    BY <1>2 DEF LaunchInv, LaunchGood, Found, Argv0
  <1>3. CASE Launches
    <2>1. PICK k \in Launch : \/ Prepare(k) \/ SnapshotEngines(k) \/ SnapshotRenderers(k)
                              \/ Popen(k) \/ WaitForEngine(k) \/ WaitForRenderer(k)
      BY <1>3 DEF Launches
    <2>2. CASE k = l
      BY <2>1, <2>2, LaunchKeepsLaunch
    <2>3. CASE k # l
      <3>1. \E from, update : LaunchStep(k, from, update)
        BY <2>1 DEF Prepare, ResolveExeFails, InstancePathsFail, BuildCommand, LaunchFails,
             SnapshotEngines, SnapshotRenderers, Popen, WaitForEngine, WaitForRenderer, WaitForNew
      <3>2. UNCHANGED <<table, launch[l]>>
        BY <2>3, <3>1 DEF LaunchStep, TypeOK
      <3> QED
        BY <1>2, <3>2
    <2> QED
      BY <2>2, <2>3
  <1>4. CASE UNCHANGED vars
    BY <1>2, <1>4 DEF vars
  <1> QED
    BY <1>1, <1>3, <1>4 DEF Next

LEMMA LaunchFromInv == LaunchInv => ReturnsOwn
  BY DEF LaunchInv, LaunchGood, ReturnsOwn

LEMMA InitLaunch == Init => LaunchInv
  <1> SUFFICES ASSUME Init, NEW l \in Launch PROVE LaunchGood(l)
    BY DEF LaunchInv
  <1>1. launch[l].pc \in {"idle", "error"} /\ launch[l].owners = {}
    BY DEF Init, IdleLaunch
  <1> QED
    BY <1>1 DEF LaunchGood

(* A launch that nothing else came up beside returns its own processes,    *)
(* however many instances were there before and whatever they do.          *)
THEOREM LaunchReturnsOwn == Spec => []ReturnsOwn
  BY LauncherInitType, LauncherStepType, InitLaunch, LaunchInvStep, LaunchFromInv, PTL DEF Spec
=============================================================================
