---------------------------- MODULE MCLocomotion ----------------------------
(***************************************************************************)
(* Instances of Locomotion for TLC.                                        *)
(***************************************************************************)
EXTENDS Locomotion, TLC

CONSTANTS Move, Forward

MCGroup    == {Move}
MCValue    == {Neutral, Forward}
MCCommands == {[sets |-> Move :> Forward, jump |-> FALSE],
               [sets |-> <<>>, jump |-> TRUE]}
=============================================================================
