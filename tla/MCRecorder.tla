----------------------------- MODULE MCRecorder -----------------------------
(***************************************************************************)
(* An instance of Recorder for TLC.                                        *)
(***************************************************************************)
EXTENDS Recorder, TLC

CONSTANTS s1, s2
=============================================================================
