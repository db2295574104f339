------------------------------ MODULE Launcher ------------------------------
(***************************************************************************)
(* Starting and stopping Resonite from Python.  launch spawns umu-run and  *)
(* waits until an engine and a renderer process appear that were not there *)
(* before; terminate and terminate_all find processes in the table, check  *)
(* what they are, and send SIGTERM and then SIGKILL.  Nobody holds the     *)
(* process table still meanwhile: processes come and go between any two    *)
(* looks at it, and the system hands out a freed PID again.                *)
(*                                                                         *)
(* psutil (external) remembers the creation time of a process it was asked *)
(* for, here its number, and refuses to signal a PID that has changed      *)
(* hands.  One pass of process_iter is one step.                           *)
(***************************************************************************)
EXTENDS Naturals, FiniteSets

CONSTANTS
  Pid,          \* process ids the system hands out
  NoPid,        \* None, or the 0 of a LaunchResult
  Launch,       \* calls of launch
  Foreign,      \* the instance that Steam or Gale started, without a token
  Stop,         \* calls of terminate and terminate_all
  MaxProcess    \* bound: processes created in a behaviour

ASSUME LauncherAssumption ==
  /\ IsFiniteSet(Pid) /\ NoPid \notin Pid
  /\ Foreign \notin Launch
  /\ MaxProcess \in Nat

VARIABLES
  table,     \* the process table
  created,   \* processes created so far
  chain,     \* what the umu-run chain of a launch has started
  launch,    \* the calls of launch
  stop,      \* the calls of terminate and terminate_all
  hit        \* history: what was asked for and what was signalled

vars == <<table, created, chain, launch, stop, hit>>

Role    == {"engine", "renderer"}
Owner   == Launch \cup {Foreign}
PidRef  == Pid \cup {NoPid}
Number  == 0 .. MaxProcess
NoProcess == [role |-> "none", alive |-> FALSE, owner |-> Foreign, parent |-> NoPid, born |-> 0]

(* What runs: the engine or the renderer of this install, a program that   *)
(* lies elsewhere but whose path ends as theirs does, another, or nothing. *)
Program == Role \cup {"engineLike", "rendererLike", "other", "none"}
Process == [role : Program, alive : BOOLEAN, owner : Owner, parent : PidRef, born : Number]

Known(p) == table[p] # NoProcess

(* _argv0_realpath: a process that is gone or a zombie has no argv[0].     *)
Argv0(p) == IF table[p].alive THEN table[p].role ELSE "none"

(* What _argv0_endswith lets pass: the end of the path only.               *)
EndsAs(role) == {role, IF role = "engine" THEN "engineLike" ELSE "rendererLike"}

(* _find_engine_pids and _find_renderer_pids, by the whole path.           *)
Found(role) == {p \in Pid : Argv0(p) = role}

(* _instance_token: launch puts a token of its own into the environment of *)
(* the chain; what was started otherwise has none.                         *)
Token(p) == IF table[p].alive THEN table[p].owner ELSE Foreign

(* children(recursive=True): the chain is two deep at most.                *)
ChildRenderers(p, renderers) == {r \in renderers : Known(r) /\ table[r].parent = p}

(* A call of launch; `owners`, whose processes it returns, and `alone` are *)
(* history.                                                                *)
LaunchPc == {"idle", "engines", "renderers", "spawn", "waitEngine", "waitRenderer",
             "done", "error"}
LaunchState == [pc : LaunchPc, beforeEngines : SUBSET Pid, beforeRenderers : SUBSET Pid,
                owners : SUBSET Owner, alone : BOOLEAN]
IdleLaunch == [pc |-> "idle", beforeEngines |-> {}, beforeRenderers |-> {},
               owners |-> {}, alone |-> TRUE]

(* A call that stops: what it found, the pair it is at and the process of  *)
(* the pair.  The rows it reports are the pairs that were signalled.        *)
(* `seen`, `owners` and `mixed` are history.                               *)
StopPc == {"idle", "engines", "renderers", "next", "open", "check", "signal", "wait",
           "done", "error", "escaped"}
Pair == [engine : PidRef, renderer : PidRef]
NoPair == [engine |-> NoPid, renderer |-> NoPid]
StopState == [pc : StopPc, all : BOOLEAN, engines : SUBSET Pid, renderers : SUBSET Pid,
              pair : Pair, role : Role, born : Number, tokens : [Pid -> Owner],
              owners : SUBSET Owner, mixed : BOOLEAN, seen : SUBSET Number]
IdleStop == [pc |-> "idle", all |-> FALSE, engines |-> {}, renderers |-> {},
             pair |-> NoPair, role |-> "engine", born |-> 0,
             tokens |-> [p \in Pid |-> Foreign], owners |-> {}, mixed |-> FALSE, seen |-> {}]

TypeOK ==
  /\ table \in [Pid -> Process]
  /\ created \in Number
  /\ chain \in [Launch -> {"none", "umu", "engine", "renderer"}]
  /\ launch \in [Launch -> LaunchState]
  /\ stop \in [Stop -> StopState]
  /\ hit \subseteq [asked : Role, was : Program, found : BOOLEAN]

(* An instance that something else started may be there from the outset;   *)
(* Wine may have taken its renderer out of the engine's process tree.  And *)
(* what a launch spawned whose caller gave up may yet come up.             *)
Instance(e, r, parent) ==
  [p \in Pid |->
     IF p = e THEN [NoProcess EXCEPT !.role = "engine", !.alive = TRUE, !.born = 1]
     ELSE IF p = r
     THEN [NoProcess EXCEPT !.role = "renderer", !.alive = TRUE, !.born = 2, !.parent = parent]
     ELSE NoProcess]

Init ==
  /\ \/ table = [p \in Pid |-> NoProcess] /\ created = 0
     \/ /\ MaxProcess >= 2
        /\ \E e \in Pid, r \in Pid : /\ e # r
                                     /\ \E parent \in {e, NoPid} : table = Instance(e, r, parent)
        /\ created = 2
  /\ chain \in [Launch -> {"none", "umu"}]
  /\ launch = [l \in Launch |->
                 IF chain[l] = "none" THEN IdleLaunch ELSE [IdleLaunch EXCEPT !.pc = "error"]]
  /\ stop = [s \in Stop |-> IdleStop]
  /\ hit = {}

-----------------------------------------------------------------------------
(* The processes.                                                          *)

Waiting(l) == launch[l].pc \notin {"idle", "done", "error"}

(* A free PID goes to a new process; launches that have begun to watch see *)
(* that another than theirs came up (history).                             *)
Create(p, role, owner, parent) ==
  /\ ~Known(p)
  /\ created < MaxProcess
  /\ created' = created + 1
  /\ table' = [table EXCEPT ![p] = [role |-> role, alive |-> TRUE, owner |-> owner,
                                    parent |-> parent, born |-> created + 1]]
  /\ launch' = [l \in Launch |->
       IF Waiting(l) /\ role \in Role /\ owner # l
       THEN [launch[l] EXCEPT !.alone = FALSE] ELSE launch[l]]
  /\ UNCHANGED <<stop, hit>>

EngineStarts(l, p) ==
  /\ chain[l] = "umu"
  /\ Create(p, "engine", l, NoPid)
  /\ chain' = [chain EXCEPT ![l] = "engine"]

(* The engine starts its renderer; Wine may reparent it.                   *)
RendererStarts(l, p) ==
  /\ chain[l] = "engine"
  /\ \E e \in Found("engine") :
       /\ table[e].owner = l
       /\ \E parent \in {e, NoPid} : Create(p, "renderer", l, parent)
  /\ chain' = [chain EXCEPT ![l] = "renderer"]

OtherStarts(p) ==
  /\ \E program \in Program \ (Role \cup {"none"}) : Create(p, program, Foreign, NoPid)
  /\ UNCHANGED chain

(* A process ends and is a zombie until it is reaped, when nothing but its *)
(* number can be told of it; its children are reparented.                  *)
Ended(p) == [q \in Pid |-> IF q = p THEN [NoProcess EXCEPT !.born = table[p].born]
                           ELSE IF table[q].parent = p THEN [table[q] EXCEPT !.parent = NoPid]
                           ELSE table[q]]

Exit(p) ==
  /\ table[p].alive
  /\ table' = Ended(p)
  /\ UNCHANGED <<created, chain, launch, stop, hit>>

Reap(p) ==
  /\ Known(p) /\ ~table[p].alive
  /\ table' = [table EXCEPT ![p] = NoProcess]
  /\ UNCHANGED <<created, chain, launch, stop, hit>>

-----------------------------------------------------------------------------
(* launch                                                                  *)

LaunchStep(l, from, update) ==
  /\ launch[l].pc = from
  /\ launch' = [launch EXCEPT ![l] = update]
  /\ UNCHANGED <<table, created, stop, hit>>

LaunchFails(l, from) == LaunchStep(l, from, [IdleLaunch EXCEPT !.pc = "error"]) /\ UNCHANGED chain

(* All that is refused is refused before anything is started: an engine    *)
(* that is not there, a name or directories that cannot be, and a mod or   *)
(* umu-run that is missing.                                                *)
ResolveExeFails(l) == LaunchFails(l, "idle")
InstancePathsFail(l) == LaunchFails(l, "idle")
BuildCommand(l) ==
  \/ LaunchFails(l, "idle")
  \/ LaunchStep(l, "idle", [launch[l] EXCEPT !.pc = "engines"]) /\ UNCHANGED chain

Prepare(l) == ResolveExeFails(l) \/ InstancePathsFail(l) \/ BuildCommand(l)

SnapshotEngines(l) ==
  /\ LaunchStep(l, "engines", [launch[l] EXCEPT !.pc = "renderers",
                                                !.beforeEngines = Found("engine")])
  /\ UNCHANGED chain

SnapshotRenderers(l) ==
  /\ LaunchStep(l, "renderers", [launch[l] EXCEPT !.pc = "spawn",
                                                  !.beforeRenderers = Found("renderer")])
  /\ UNCHANGED chain

(* Opening the log or the exec may fail.                                   *)
Popen(l) ==
  \/ LaunchFails(l, "spawn")
  \/ /\ LaunchStep(l, "spawn", [launch[l] EXCEPT !.pc = "waitEngine"])
     /\ chain' = [chain EXCEPT ![l] = "umu"]

(* Mutant: the set difference is forgotten.                                *)
NewAny(found, before) == found

(* _wait_for_new: a poll that shows exactly one new process ends the wait, *)
(* one that shows more fails, and so does one that shows none once the     *)
(* deadline is over.  The deadline may come at any time.                   *)
New(found, before) == found \ before

WaitForNew(l, from, new, then) ==
  \/ Cardinality(new) # 1 /\ LaunchFails(l, from)
  \/ /\ Cardinality(new) = 1
     /\ \E p \in new : LaunchStep(l, from, [then EXCEPT !.owners = @ \cup {table[p].owner}])
     /\ UNCHANGED chain

WaitForEngine(l) ==
  WaitForNew(l, "waitEngine", New(Found("engine"), launch[l].beforeEngines),
             [launch[l] EXCEPT !.pc = "waitRenderer"])

WaitForRenderer(l) ==
  WaitForNew(l, "waitRenderer", New(Found("renderer"), launch[l].beforeRenderers),
             [launch[l] EXCEPT !.pc = "done", !.beforeEngines = {}, !.beforeRenderers = {}])

-----------------------------------------------------------------------------
(* terminate and terminate_all                                             *)

StopStep(s, from, update) ==
  /\ stop[s].pc = from
  /\ stop' = [stop EXCEPT ![s] = update]
  /\ UNCHANGED <<created, chain, launch>>

Quiet == UNCHANGED <<table, hit>>

(* The call ends and its locals with it.                                   *)
Return(s, pc) == [IdleStop EXCEPT !.pc = pc, !.all = stop[s].all, !.mixed = stop[s].mixed,
                                  !.seen = IF pc = "done" THEN stop[s].seen ELSE {}]

At(s) == IF stop[s].role = "engine" THEN stop[s].pair.engine ELSE stop[s].pair.renderer

(* terminate with a PID, whatever process has it by now.  With two it goes *)
(* from the engine to the renderer as it does with a pair it detected.     *)
TerminateGiven(s) ==
  /\ \E p \in Pid, role \in Role :
       StopStep(s, "idle", [stop[s] EXCEPT !.pc = "open", !.role = role,
                                           !.pair = [NoPair EXCEPT ![role] = p]])
  /\ Quiet

(* terminate without PIDs, and terminate_all.                              *)
TerminateDetected(s) ==
  /\ \E all \in BOOLEAN : StopStep(s, "idle", [stop[s] EXCEPT !.pc = "engines", !.all = all])
  /\ Quiet

Born(pids) == {table[p].born : p \in pids}

ScanEngines(s) ==
  /\ LET found == Found("engine")
     IN StopStep(s, "engines", [stop[s] EXCEPT !.pc = "renderers", !.engines = found,
                                               !.seen = Born(found)])
  /\ Quiet

(* Mutant: the list instead of its element.                                *)
OneAll(pids) == pids
One(pids) == IF pids = {} THEN NoPid ELSE CHOOSE p \in pids : TRUE

ScanRenderers(s) ==
  /\ LET found    == Found("renderer")
         engines  == stop[s].engines
         scanned  == [stop[s] EXCEPT !.renderers = found, !.seen = @ \cup Born(found)]
         several  == Cardinality(engines) > 1 \/ Cardinality(found) > 1
     IN StopStep(s, "renderers",
          IF stop[s].all
          THEN [scanned EXCEPT !.pc = "next",
                               !.tokens = [p \in Pid |-> IF p \in found THEN Token(p) ELSE Foreign]]
          ELSE IF several THEN Return(s, "error")
          ELSE [scanned EXCEPT !.pc = "open",
                               !.pair = [engine |-> One(engines), renderer |-> One(found)],
                               !.engines = {}, !.renderers = {}])
  /\ Quiet

(* _match_renderer: by the token, failing that by the process tree.  The   *)
(* renderers' tokens were read before any of them was killed; the PIDs     *)
(* left in `renderers` are the ones not paired yet.                        *)
Partner(s, e) ==
  LET left    == stop[s].renderers
      tokened == {r \in left : Token(e) # Foreign /\ stop[s].tokens[r] = Token(e)}
  IN IF tokened # {} THEN tokened
     ELSE IF ChildRenderers(e, left) # {} THEN ChildRenderers(e, left)
     ELSE {NoPid}

(* Mutant: a renderer without an engine is left alone.                     *)
UnpairedIgnored(s) == {}

(* The renderers that no engine claimed.                                   *)
Unpaired(s) == stop[s].renderers

(* The next engine with its renderer, then each renderer left over.        *)
NextPair(s) ==
  LET Goes(e, r) == [stop[s] EXCEPT !.pc = "open", !.role = "engine",
                       !.pair = [engine |-> e, renderer |-> r], !.owners = {},
                       !.engines = @ \ {e}, !.renderers = @ \ {r}]
  IN /\ \/ /\ stop[s].all
           /\ \E e \in stop[s].engines : \E r \in Partner(s, e) : StopStep(s, "next", Goes(e, r))
        \/ /\ stop[s].all /\ stop[s].engines = {}
           /\ \E r \in Unpaired(s) : StopStep(s, "next", Goes(NoPid, r))
        \/ /\ stop[s].engines = {} /\ Unpaired(s) = {}
           /\ StopStep(s, "next", Return(s, "done"))
     /\ Quiet

(* The process of the pair is dealt with: on to the renderer, or to the    *)
(* next pair.                                                              *)
Proceed(st) ==
  IF st.role = "engine" THEN [st EXCEPT !.pc = "open", !.role = "renderer"]
  ELSE [st EXCEPT !.pc = "next", !.role = "engine", !.pair = NoPair, !.born = 0,
                  !.owners = {}, !.mixed = @ \/ Cardinality(st.owners) > 1]

(* _kill_pid: psutil.Process notes which process has the PID; none has, or *)
(* no PID was asked for, and it counts as gone.                            *)
Open(s) ==
  /\ IF At(s) = NoPid \/ ~Known(At(s))
     THEN StopStep(s, "open", Proceed(stop[s]))
     ELSE StopStep(s, "open", [stop[s] EXCEPT !.pc = "check", !.born = table[At(s)].born])
  /\ Quiet

(* Mutant: the PID is trusted without a look at argv[0].                   *)
CheckNothing(s) ==
  /\ StopStep(s, "check", [stop[s] EXCEPT !.pc = "signal"])
  /\ Quiet

(* _argv0_endswith, by the PID alone: a path that does not end as that of  *)
(* the role asked for, or nothing to be read any more, is refused.         *)
Check(s) ==
  /\ At(s) \in Pid
  /\ StopStep(s, "check", IF Argv0(At(s)) \in EndsAs(stop[s].role)
                          THEN [stop[s] EXCEPT !.pc = "signal"] ELSE Return(s, "error"))
  /\ Quiet

SameProcess(s) == At(s) \in Pid /\ Known(At(s)) /\ table[At(s)].born = stop[s].born

(* The instance of a running process that the scan had found.              *)
Witnessed(s) ==
  IF table[At(s)].alive /\ stop[s].born \in stop[s].seen THEN {table[At(s)].owner} ELSE {}

(* proc.terminate(): NoSuchProcess leaves the call if the process is gone. *)
Signal(s) ==
  IF SameProcess(s)
  THEN /\ StopStep(s, "signal", [stop[s] EXCEPT !.pc = "wait",
            !.owners = @ \cup Witnessed(s)])
       /\ hit' = IF table[At(s)].alive
                 THEN hit \cup {[asked |-> stop[s].role, was |-> table[At(s)].role,
                                  found |-> stop[s].born \in stop[s].seen]}
                 ELSE hit
       /\ UNCHANGED table
  ELSE StopStep(s, "signal", Return(s, "escaped")) /\ Quiet

(* wait_procs, then kill() for a process that is still there; it may go    *)
(* between the two.                                                        *)
Finish(s) ==
  \/ ~SameProcess(s) /\ StopStep(s, "wait", Proceed(stop[s])) /\ Quiet
  \/ ~SameProcess(s) /\ StopStep(s, "wait", Return(s, "escaped")) /\ Quiet
  \/ /\ SameProcess(s)
     /\ StopStep(s, "wait", Proceed(stop[s]))
     /\ table' = Ended(At(s))
     /\ UNCHANGED hit

Processes == \E p \in Pid : \/ \E l \in Launch : EngineStarts(l, p) \/ RendererStarts(l, p)
                            \/ OtherStarts(p) \/ Exit(p) \/ Reap(p)

Launches == \E l \in Launch : \/ Prepare(l) \/ SnapshotEngines(l) \/ SnapshotRenderers(l)
                              \/ Popen(l) \/ WaitForEngine(l) \/ WaitForRenderer(l)

Stops == \E s \in Stop : \/ TerminateGiven(s) \/ TerminateDetected(s) \/ ScanEngines(s)
                         \/ ScanRenderers(s) \/ NextPair(s) \/ Open(s) \/ Check(s)
                         \/ Signal(s) \/ Finish(s)

Next == Processes \/ Launches \/ Stops

Spec == Init /\ [][Next]_vars

-----------------------------------------------------------------------------
(* Properties.                                                             *)

(* Whatever PIDs change hands before, between or after the steps of        *)
(* _kill_pid, only a program whose path ends as that of the role asked for *)
(* is ever signalled; and where the process is one that the scan had       *)
(* found, it is the engine or the renderer that it was found as.           *)
OnlyAsked ==
  \A h \in hit : h.was \in EndsAs(h.asked) /\ (h.found => h.was = h.asked)

(* A terminate or terminate_all that detects its targets and returns       *)
(* normally leaves none of them running, whatever pairing it made.         *)
StopsAllSeen ==
  \A s \in Stop : stop[s].pc = "done" =>
    \A p \in Pid : table[p].alive => table[p].born \notin stop[s].seen

(* terminate_all never kills the engine of one instance and the renderer   *)
(* of another, both found running, as one pair: however Wine reparents     *)
(* renderers, and where an instance without a token runs beside.           *)
PairsOneInstance == \A s \in Stop : stop[s].all => ~stop[s].mixed

TerminatesWhole == StopsAllSeen /\ PairsOneInstance

(* A launch that nothing else came up beside returns its own engine and    *)
(* its own renderer, also where other instances were running before.       *)
ReturnsOwn ==
  \A l \in Launch : launch[l].pc = "done" /\ launch[l].alone => launch[l].owners = {l}

=============================================================================
