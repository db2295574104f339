---------------------------- MODULE MCMicrophone ----------------------------
(***************************************************************************)
(* Instances of Microphone for TLC.  Chunks below, at and above the        *)
(* capacity, and a tick that takes less than the ring can hold.            *)
(***************************************************************************)
EXTENDS Microphone

MCFrameSize == {2, 4}

(* A behaviour has either chunks or another mod that takes the override,   *)
(* which have only the end of Dispose in common.                           *)
Apart ==
  /\ OtherOverride => sent = 0
  /\ sent' # sent => chosen \in {"own", "none"}

MCSpec == Init /\ [][Next /\ Apart]_vars /\ Fairness
=============================================================================
