------------------------------ MODULE MCCamera ------------------------------
(***************************************************************************)
(* An instance of Camera for TLC.  The window is turned on its side, which *)
(* keeps its area, or made smaller.                                        *)
(***************************************************************************)
EXTENDS Camera

SizeOf(w, h) == [width |-> w, height |-> h]

Sizes == {SizeOf(3, 2), SizeOf(2, 3), SizeOf(2, 2)}
=============================================================================
