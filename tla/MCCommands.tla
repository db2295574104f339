----------------------------- MODULE MCCommands -----------------------------
(***************************************************************************)
(* An instance of Commands for TLC.                                        *)
(***************************************************************************)
EXTENDS Commands, TLC

CONSTANTS e1, e2

Keys == {"Save", "Save As", "sa"}

(* "sa" is a part of both labels but for case, "Save" of "Save As".        *)
MatchTable ==
  [query \in Keys |-> [key \in Keys |->
     CASE query = key -> "exact"
       [] query = "sa" \/ (query = "Save" /\ key = "Save As") -> "part"
       [] OTHER -> "none"]]

Control(ref, key, enabled) == [ref |-> ref, keys |-> {key}, enabled |-> enabled]
TwoPanels == {<<Control(1, "Save", FALSE), Control(2, "Save As", TRUE), Control(3, "Save", TRUE)>>,
              <<Control(3, "Save", TRUE), Control(2, "Save As", TRUE)>>}

(* -s with e1 only, and where it stands matters only if it is given; e2 is *)
(* the engine that makes a resolution ambiguous.  Of the commands only     *)
(* those of the dash look at the panel; they find one engine, in any state.*)
(* A second command follows `dash ls`, whose listing is all that a command *)
(* leaves behind on the terminal.                                          *)
OfDash == proc'.words # <<>> /\ proc'.words[1] = "dash"
Given == proc'.named # e2 /\ (proc'.named = NoEngine => proc'.inner)
Setting == /\ OfDash => engine[e2] = "down"
           /\ ~OfDash => panel = <<Control(3, "Save", TRUE), Control(2, "Save As", TRUE)>>
Listed == proc.words = <<"dash", "ls">> /\ proc.status = "0" /\ proc.fmt = "human"
          /\ proc.named = NoEngine /\ changes = 0
MCNext ==
  /\ Running \/ proc = Idle \/ Listed
  /\ Next
  /\ ~Running => Given /\ Setting /\ (proc = Idle \/ OfDash)
  /\ ~OfDash => UNCHANGED panel

MCInit == Init /\ engine[e2] \in {"down", "ready"}

MCSpec == MCInit /\ [][MCNext]_vars
MCFairSpec == MCSpec /\ WF_vars(Progress) /\ WF_vars(Deadline)
=============================================================================
