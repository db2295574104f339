------------------------------ MODULE MCCursor ------------------------------
(***************************************************************************)
(* An instance of Cursor for TLC.  The worlds are alike, and only safety   *)
(* is checked.                                                             *)
(***************************************************************************)
EXTENDS Cursor, TLC

Request(id, op) == [id |-> id, op |-> op]

(* Three holds, to leave a world and come back, and a release to race them.*)
HoldsAndRelease ==
  {Request(1, "set"), Request(2, "set"), Request(3, "set"), Request(4, "release"), Unregister}

(* A hold whose client may give up, which does not take the hold back. *)
HoldGivenUp == {Request(3, "set")}

WorldSymmetry == Permutations(World)
=============================================================================
