----------------------------- MODULE MCLauncher -----------------------------
(***************************************************************************)
(* An instance of Launcher for TLC.                                        *)
(***************************************************************************)
EXTENDS Launcher, TLC

CONSTANTS p1, p2, p3, p4, l1, l2

(* A PID is only compared, but for the choice of the one PID of a set.     *)
Symmetric == Permutations(Pid) \cup Permutations(Launch)

(* No launch beside or after a stop, nor beside another launch: each sees  *)
(* of the other only processes that come and go, which they do anyway,     *)
(* those of a launch whose caller gave up among them.  A program that is   *)
(* neither an engine nor a renderer shows only to a stop that has its PID, *)
(* and so takes one of those; to the step for one role a program like the  *)
(* other role's is any other program.                                      *)
Stopping == \E s \in Stop : stop[s].pc # "idle"
Held(s)  == stop[s].engines \cup stop[s].renderers \cup {stop[s].pair.engine, stop[s].pair.renderer}

Apart == /\ Stopping' => \A l \in Launch : launch'[l] \in {IdleLaunch, [IdleLaunch EXCEPT !.pc = "error"]}
         /\ Stopping => UNCHANGED launch
         /\ Cardinality({l \in Launch : Waiting(l)'}) <= 1
         /\ \A p \in Pid : OtherStarts(p) =>
              table'[p].role # "other" /\ \E s \in Stop : p \in Held(s)

MCSpec == Init /\ [][Next /\ Apart]_vars
=============================================================================
