----------------------------- MODULE MCGrabber -----------------------------
(***************************************************************************)
(* Instances of Grabber for TLC.                                           *)
(***************************************************************************)
EXTENDS Grabber

CONSTANTS Right, Left, Trigger, Pen, w1, w2

Request(id, op, hand) == [id |-> id, op |-> op, hand |-> hand, button |-> Trigger]

(* One hand presses, lets go and presses again.                            *)
HoldCalls == {Request(1, "use", Primary), Request(2, "unuse", Right),
              Request(3, "use", Right)}

(* One hand grabs, releases, equips and dequips while the other grabs too. *)
ObjectCalls == {Request(4, "grab", Right), Request(5, "grab", Left),
                Request(6, "equip", Right), Request(7, "dequip", Right),
                Request(8, "release", Right)}

Calls == HoldCalls \cup ObjectCalls

(* Who may give up: the clients that hold, and the one that equips.        *)
Hasty == {c \in Calls : c.op \in {"use", "unuse", "equip"}}

(* A behaviour has either the calls that hold, over two worlds, or those   *)
(* that move objects, in one world that keeps the focus until it closes:   *)
(* `usable` says which.                                                    *)
VARIABLE usable

Usable ==
  /\ \A c \in Call \ usable : rpc[c] = "idle"
  /\ usable = ObjectCalls => focusChanges = 0 /\ w2 \notin opened

MCInit == Init /\ usable \in {HoldCalls, ObjectCalls} /\ Usable
MCNext == Next /\ usable' = usable /\ Usable'
MCSpec == MCInit /\ [][MCNext]_<<vars, usable>>

(* For liveness, the calls that hold alone.                                *)
HoldInit == Init /\ usable = HoldCalls
HoldFairSpec == HoldInit /\ [][Next /\ UNCHANGED usable]_<<vars, usable>> /\ Fairness
=============================================================================
