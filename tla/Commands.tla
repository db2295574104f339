------------------------------ MODULE Commands ------------------------------
(***************************************************************************)
(* A user of the resoio command line: one command after the other, each in *)
(* a process of its own, against engines that start, hang, end and leave   *)
(* sockets behind, and a dash whose controls change meanwhile.  A command  *)
(* takes the steps of CommandTable one at a time; a call is sent and later *)
(* answered.                                                               *)
(***************************************************************************)
EXTENDS CommandTable

CONSTANTS
  Engine,       \* engines, each with a socket of its own, named after its PID
  NoEngine,     \* None
  Panels,       \* what the dash may show: sequences of controls, each with its ref_id
  MaxChange     \* bound: changes of engines and dash while a command runs

ASSUME CommandsAssumption ==
  /\ NoEngine \notin Engine
  /\ MaxChange \in Nat
  /\ \A p \in Panels : p \in Seq([ref : Nat \ {0}, keys : SUBSET Key, enabled : BOOLEAN])

VARIABLES
  engine,    \* what each engine's socket leads to
  panel,     \* the controls of the dash, in their order
  seen,      \* the numbered listing on the user's terminal
  proc,      \* the process of the command
  changes    \* changes since the command was started (bound)

vars == <<engine, panel, seen, proc, changes>>

(* Nothing; a socket file that an engine left, its PID free or with another*)
(* process; a socket without a listener; an engine that has not finished   *)
(* starting, that answers, that takes a call and never answers.            *)
EngineState == {"down", "stale", "squatted", "bound", "starting", "ready", "hung"}
EngineRef == Engine \cup {NoEngine}
Connected == {"starting", "ready", "hung"}

Items == (UNION {{p[i] : i \in DOMAIN p} : p \in Panels}) \cup {NoItem}
Refs == {i.ref : i \in Items}

(* The enabled ones of a listing, in its order: the n-th is the one up to  *)
(* which there are n.                                                      *)
Enabled(items) ==
  LET on == {i \in DOMAIN items : items[i].enabled}
      Place(n) == CHOOSE i \in on : Cardinality({j \in on : j <= i}) = n
  IN [n \in 1 .. Cardinality(on) |-> items[Place(n)]]

AnyListing == {<<>>} \cup Panels \cup {Enabled(p) : p \in Panels}

(* A call that was sent: what it does, to which engine and to which item,  *)
(* and which item the user's listing shows under the index that was given. *)
Sent == [effect : Effect, engine : Engine, ref : Refs, meant : Refs]

Status == {"none", "running", "0", "1", "2", "130"}

(* named: the engine that -s names; socket: what the handler gets of it;   *)
(* to: where the channel leads; lost: the connection broke under a call.   *)
Idle == [words |-> <<>>, fmt |-> "human", inner |-> TRUE, named |-> NoEngine, socket |-> NoEngine,
         to |-> NoEngine, probing |-> FALSE, sending |-> FALSE, lost |-> FALSE, late |-> FALSE,
         menu |-> "", steps |-> <<>>, listing |-> <<>>, chosen |-> NoItem, meant |-> 0,
         lacked |-> FALSE, docs |-> 0, sent |-> {}, status |-> "none"]

AllCommands == CommandModules("human") \cup CommandModules("json")
Words == {c.words : c \in AllCommands} \cup {<<>>}

TypeOK ==
  /\ engine \in [Engine -> EngineState]
  /\ panel \in Panels
  /\ seen \in [items : AnyListing, fresh : BOOLEAN, all : BOOLEAN]
  /\ changes \in 0 .. MaxChange
  /\ DOMAIN proc = DOMAIN Idle
  /\ proc.words \in Words
  /\ {proc.named, proc.socket, proc.to} \subseteq EngineRef
  /\ proc.status \in Status /\ proc.menu \in {"", "grabber", "inventory"}
  /\ proc.listing \in AnyListing /\ proc.chosen \in Items /\ proc.meant \in Refs
  /\ proc.docs \in 0 .. 2 /\ proc.sent \subseteq Sent
  /\ proc.status # "running" => proc.to = NoEngine /\ proc.steps = <<>>
  /\ proc.probing \/ proc.sending => proc.to \in Engine

Init ==
  /\ engine \in [Engine -> EngineState]
  /\ panel \in Panels
  /\ seen = [items |-> <<>>, fresh |-> FALSE, all |-> FALSE]
  /\ proc = Idle
  /\ changes = 0

Running == proc.status = "running"

-----------------------------------------------------------------------------
(* The engines and the dash (external).                                    *)

Leads == {<<"down", "bound">>, <<"stale", "squatted">>, <<"bound", "starting">>,
          <<"starting", "ready">>, <<"ready", "hung">>, <<"hung", "ready">>,
          <<"ready", "down">>, <<"ready", "stale">>, <<"starting", "stale">>}

Change == changes < MaxChange /\ changes' = changes + 1 /\ UNCHANGED seen

EngineChanges(e) ==
  /\ Running /\ Change
  /\ \E s \in EngineState : /\ <<engine[e], s>> \in Leads
                            /\ engine' = [engine EXCEPT ![e] = s]
  /\ proc' = IF proc.to = e /\ engine'[e] \notin Connected THEN [proc EXCEPT !.lost = TRUE] ELSE proc
  /\ UNCHANGED panel

PanelChanges ==
  /\ Running /\ changes < MaxChange /\ changes' = changes + 1
  /\ panel' \in Panels
  /\ seen' = [seen EXCEPT !.fresh = @ /\ panel' = panel]
  /\ UNCHANGED <<engine, proc>>

-----------------------------------------------------------------------------
(* main                                                                    *)

(* Mutant: the handler resolves the socket afresh.                         *)
SocketOptionIgnored(c, named, inner) == NoEngine

(* Every parser has the -s of the common parent, and the innermost parser's*)
(* default overwrites what an outer one has read.                          *)
SocketOption(c, named, inner) == IF inner \/ Len(c.words) = 1 THEN named ELSE NoEngine

(* _build_parser, _amain: the handler of the subcommand runs.              *)
Start(c, named, inner) ==
  /\ ~Running
  /\ proc' = [Idle EXCEPT !.words = c.words, !.fmt = c.fmt, !.steps = c.steps, !.inner = inner,
                !.named = named, !.socket = SocketOption(c, named, inner), !.status = "running"]
  /\ changes' = 0
  /\ UNCHANGED <<engine, panel, seen>>

Update(p) == proc' = p /\ UNCHANGED <<engine, panel, seen, changes>>

(* Mutant: the channel stays open.                                         *)
EndedOpen(p, status) == [p EXCEPT !.status = status, !.steps = <<>>]

(* The process ends; __aexit__ closes the channel on the way out.          *)
Ended(p, status) ==
  [p EXCEPT !.status = status, !.to = NoEngine, !.probing = FALSE, !.sending = FALSE,
            !.lost = FALSE, !.late = FALSE, !.menu = "", !.steps = <<>>]

Now == proc.steps[1]
AtStep(do) == Running /\ proc.steps # <<>> /\ Now.do = do
Rest == [proc EXCEPT !.steps = Tail(@)]

Finish == Running /\ proc.steps = <<>> /\ Update(Ended(proc, "0"))

(* Ctrl-C; at the prompt of the inventory shell it only empties the line.  *)
Interrupt ==
  /\ Running
  /\ ~(AtStep("prompt") /\ proc.menu = "inventory")
  /\ Update(Ended(proc, "130"))

-----------------------------------------------------------------------------
(* _client.py                                                              *)

(* _socket_owner_alive: of the sockets whose PID exists, by whatever name. *)
Live == {e \in Engine : engine[e] \notin {"down", "stale"}}

(* resolve_socket_path with _pick_single_socket; several are ambiguous.    *)
Resolved(socket) ==
  IF socket # NoEngine THEN {socket} ELSE IF Cardinality(Live) = 1 THEN Live ELSE {}

(* The steps behind the try block in which the first of them stands.       *)
Remaining(p, error) ==
  LET outside == {i \in DOMAIN p.steps : p.steps[i].error # error}
  IN IF outside = {} THEN <<>> ELSE SubSeq(p.steps, Min(outside), Len(p.steps))

(* What an exception does to the command, after the channel is closed.     *)
Failed(p) ==
  LET s == p.steps[1]
  IN CASE s.error = "quiet"   -> [Ended(p, "0") EXCEPT !.docs = @ + 1]
       [] s.error = "dropped" -> [p EXCEPT !.steps = Remaining(p, "dropped"), !.to = NoEngine,
                                           !.sending = FALSE, !.lost = FALSE]
       [] s.error = "line"    -> [p EXCEPT !.steps = Remaining(p, "line"), !.sending = FALSE]
       [] OTHER               -> Ended(p, "1")

(* __aenter__: the path is resolved, the channel made, and the first client*)
(* of the process asks for the version.                                    *)
Open ==
  /\ AtStep("open") \/ AtStep("connect")
  /\ \/ Resolved(proc.socket) = {} /\ Update(Failed(proc))
     \/ \E e \in Resolved(proc.socket) :
          Update([Rest EXCEPT !.to = e, !.lost = FALSE, !.probing = AtStep("open")])

(* _maybe_warn_version_mismatch: whatever comes of it goes on, but it waits*)
(* for an answer.                                                          *)
Probe ==
  /\ Running /\ proc.probing
  /\ proc.lost \/ engine[proc.to] # "hung"
  /\ Update([proc EXCEPT !.probing = FALSE])

Close == AtStep("close") /\ ~proc.probing /\ Update([Rest EXCEPT !.to = NoEngine, !.lost = FALSE])

Send ==
  /\ AtStep("call") /\ ~proc.probing /\ ~proc.sending
  /\ Update([proc EXCEPT !.sending = TRUE,
       !.sent = @ \cup {[effect |-> Now.effect, engine |-> proc.to,
                         ref |-> IF Now.effect = "act" THEN proc.chosen.ref ELSE 0,
                         meant |-> IF Now.effect = "act" THEN proc.meant ELSE 0]}])

(* What a listing call answers.                                            *)
Shown(step) == IF step.rpc = "ListControls" /\ ~step.selector.all
               THEN Enabled(panel) ELSE panel

Answering == AtStep("call") /\ proc.sending

(* The engine answers; the answer may lack its payload.                    *)
Answer ==
  /\ Answering /\ ~proc.lost /\ engine[proc.to] \in {"starting", "ready"}
  /\ \/ /\ Now.lacking # "raises"
        /\ \E lacked \in {FALSE, Now.lacking = "shown"} :
             Update([Rest EXCEPT !.sending = FALSE, !.lacked = lacked,
                       !.listing = IF Now.effect = "list" THEN Shown(Now) ELSE @])
     \/ Now.lacking = "raises" /\ Update([Rest EXCEPT !.sending = FALSE])
     \/ Now.lacking = "raises" /\ Update(Ended(proc, "1"))

(* It answers with a status: GRPCError.                                    *)
AnswerStatus ==
  /\ Answering /\ ~proc.lost /\ engine[proc.to] \in {"starting", "ready"}
  /\ \/ Now.error \notin {"prompt", "totp"} /\ Update(Failed(proc))
     \/ /\ Now.error = "prompt"
        /\ Update([proc EXCEPT !.steps = Remaining(proc, "prompt"), !.sending = FALSE])
     \/ Now.error = "totp" /\ Update(Ended(proc, "1"))
     \/ /\ Now.error = "totp"   \* the code is asked for, the call made again
        /\ Update([proc EXCEPT !.steps[1].error = "fails", !.sending = FALSE])

(* Nobody listens, or the connection breaks: OSError, StreamTerminated.    *)
Disconnect ==
  /\ Answering /\ (proc.lost \/ engine[proc.to] \notin Connected)
  /\ Update(Failed(proc))

(* ping alone waits no longer than its timeout.                            *)
PingTimeout == Answering /\ proc.words = <<"ping">> /\ Update(Ended(proc, "1"))

-----------------------------------------------------------------------------
(* The steps of a command beside its calls.                                *)

(* The index that the user read off the listing on the terminal, if the    *)
(* dash has not changed since.                                             *)
Meant(selector) ==
  IF selector.by = "index" /\ seen.fresh /\ selector.at < Len(seen.items)
     /\ Len(proc.words) = 2 /\ proc.words[2] # "tab"
  THEN seen.items[selector.at + 1].ref ELSE 0

ChooseItem ==
  /\ AtStep("choose")
  /\ LET item == ResolveSelector(proc.listing, Now.selector)
     IN Update(IF item = NoItem THEN Ended(proc, "2")
               ELSE [Rest EXCEPT !.chosen = item, !.meant = Meant(Now.selector)])

(* parser.error, or a message and `return 2`.                              *)
RefuseArguments == AtStep("refuse") /\ Update(Ended(proc, "2"))

(* A ValueError of the client.                                             *)
RaiseError == AtStep("raise") /\ ~proc.probing /\ Update(Ended(proc, "1"))

PrintResult == AtStep("print") /\ Update([Rest EXCEPT !.docs = IF @ < 2 THEN @ + 1 ELSE @])

ShowResult ==
  AtStep("show") /\ Update(IF proc.lacked THEN Rest ELSE [Rest EXCEPT !.docs = @ + 1])

(* `ls` numbers the controls.                                              *)
NumberListing ==
  /\ AtStep("number")
  /\ proc' = Rest
  /\ seen' = [items |-> proc.listing, fresh |-> proc.listing \in {panel, Enabled(panel)},
              all |-> \E i \in DOMAIN proc.listing : ~proc.listing[i].enabled]
  /\ UNCHANGED <<engine, panel, changes>>

(* A file of the local disk may not open.                                  *)
WriteFile == AtStep("file") /\ (Update(Rest) \/ Update(Ended(proc, "1")))

(* launch, terminate and terminate_all: see module Launcher.               *)
HostStep == AtStep("host") /\ (Update(Rest) \/ Update(Ended(proc, "1")))

(* The prompt: a line, then the prompt again; or the end of the input.     *)
Line ==
  /\ AtStep("prompt") /\ ~proc.probing
  /\ \/ \E line \in Menu(Now.rpc) :
          Update([proc EXCEPT !.menu = Now.rpc, !.steps = line \o @, !.docs = 0, !.lacked = FALSE])
     \/ Update(Rest)

-----------------------------------------------------------------------------
(* wait_for_ready                                                          *)

(* Mutant: the deadline is not looked at.                                  *)
RetryForever(p) == [p EXCEPT !.to = NoEngine, !.sending = FALSE, !.lost = FALSE]

(* After an attempt that may succeed later: the deadline, or a nap.        *)
Retry(p) == IF p.late THEN Ended(p, "1")
            ELSE [p EXCEPT !.to = NoEngine, !.sending = FALSE, !.lost = FALSE]

Attempt ==
  /\ AtStep("await") /\ ~proc.sending
  /\ \/ proc.socket = NoEngine /\ Cardinality(Live) > 1 /\ Update(Ended(proc, "1"))
     \/ proc.socket = NoEngine /\ Live = {} /\ Update(Retry(proc))
     \/ \E e \in Resolved(proc.socket) : Update([proc EXCEPT !.to = e, !.sending = TRUE])

(* A ping is answered; FAILED_PRECONDITION and a refused connection are    *)
(* tried again, any other status and a broken connection are not.          *)
Pong ==
  /\ AtStep("await") /\ proc.sending
  /\ \/ /\ proc.lost
        /\ Update(Ended(proc, "1"))
     \/ /\ ~proc.lost /\ engine[proc.to] \notin Connected
        /\ Update(Retry(proc))
     \/ /\ ~proc.lost /\ engine[proc.to] = "starting"
        /\ Update(Retry(proc))
     \/ /\ ~proc.lost /\ engine[proc.to] = "ready"
        /\ Update([Rest EXCEPT !.to = NoEngine, !.sending = FALSE, !.late = FALSE]) \/ Update(Ended(proc, "1"))

Deadline == AtStep("await") /\ ~proc.late /\ Update([proc EXCEPT !.late = TRUE])

Progress ==
  \/ Finish \/ Open \/ Probe \/ Close \/ Send \/ Answer \/ AnswerStatus \/ Disconnect
  \/ PingTimeout \/ ChooseItem \/ RefuseArguments \/ RaiseError \/ PrintResult \/ ShowResult
  \/ NumberListing \/ WriteFile \/ HostStep \/ Attempt \/ Pong

Next ==
  \/ ~Running /\ \E c \in AllCommands, named \in EngineRef, inner \in BOOLEAN : Start(c, named, inner)
  \/ Progress \/ Deadline \/ Line \/ Interrupt
  \/ \E e \in Engine : EngineChanges(e)
  \/ PanelChanges

Spec == Init /\ [][Next]_vars

(* Calls are answered, messages read and clocks run; no user is bound to   *)
(* answer a prompt.                                                        *)
FairSpec == Spec /\ WF_vars(Progress) /\ WF_vars(Deadline)

-----------------------------------------------------------------------------
(* Properties.                                                             *)

Changing == {"write", "act", "press", "release"}

(* A command that exits with 2 has changed nothing in any engine: what is  *)
(* refused is refused before the first call that does, also where a listing*)
(* had to be fetched first.                                                *)
RefusalIsHarmless == proc.status = "2" => \A s \in proc.sent : s.effect \notin Changing

(* --format json: one document on stdout when the command succeeds, none   *)
(* when it fails, whichever call of it fails and however.                  *)
DocumentIffSuccess ==
  proc.fmt = "json" => /\ proc.status = "0" => proc.docs = 1
                       /\ proc.status \in {"1", "2"} => proc.docs = 0

(* An index read off `dash ls` means the control of that number to the     *)
(* commands that follow, as long as the dash does not change.  The         *)
(* numbers of --all are others.                                            *)
IndexAsListed == \A s \in proc.sent : s.meant # 0 /\ ~seen.all => s.ref = s.meant

(* A command that is given -s after its last word calls no other engine,   *)
(* through every channel it opens.                                         *)
AsksNamedEngine ==
  proc.inner /\ proc.named # NoEngine => \A s \in proc.sent : s.engine = proc.named

AtPrompt == AtStep("prompt")
Hanging == proc.to # NoEngine /\ engine[proc.to] = "hung"

(* Every command ends, unless it is at a prompt or its engine hangs: wait  *)
(* by its deadline, the others because each step is answered.              *)
CommandEnds == Running ~> (~Running \/ AtPrompt \/ Hanging)
=============================================================================
