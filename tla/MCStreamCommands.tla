-------------------------- MODULE MCStreamCommands --------------------------
(***************************************************************************)
(* An instance of StreamCommands for TLC.                                  *)
(***************************************************************************)
EXTENDS StreamCommands, TLC

CONSTANTS s1, s2
=============================================================================
