------------------------------- MODULE Worlds -------------------------------
(***************************************************************************)
(* The worlds of the engine as the bridges of the mod see them: which are  *)
(* open, which one has the focus, and that a closed one stays closed.  The *)
(* engine is not part of the repository; this is what the bridges rely on  *)
(* in WorldManager.FocusedWorld, World.IsDisposed and WorldFocused.        *)
(***************************************************************************)
EXTENDS Naturals

CONSTANTS World,     \* the worlds the engine opens during a run
          NoWorld,   \* the null reference
          MaxFocus   \* bound on the changes of focus in a run

ASSUME WorldsAssumption == NoWorld \notin World /\ MaxFocus \in Nat

VARIABLES
  alive,          \* worlds not disposed
  opened,         \* worlds opened so far: a disposed world never comes back
  focused,        \* WorldManager.FocusedWorld
  focusChanges    \* changes of focus so far

worldVars == <<alive, opened, focused, focusChanges>>
WorldRef  == World \cup {NoWorld}

WorldsTypeOK ==
  /\ alive \subseteq opened /\ opened \subseteq World
  /\ focused \in WorldRef
  /\ focusChanges \in 0..MaxFocus

(* A bridge is constructed while w, or no world, has the focus. *)
WorldsInit(w) ==
  /\ focused = w
  /\ focusChanges = 0
  /\ opened = {w} \cap World
  /\ alive = opened

(* The engine focuses another world, opening it if need be, or none. *)
Focus(w) ==
  /\ focusChanges < MaxFocus
  /\ focusChanges' = focusChanges + 1
  /\ w # focused
  /\ w \in alive \cup (World \ opened) \cup {NoWorld}
  /\ focused' = w
  /\ opened' = opened \cup ({w} \cap World)
  /\ alive' = alive \cup ({w} \cap World)

(* A world is disposed; nothing has the focus until the engine picks one. *)
Close(w) ==
  /\ w \in alive
  /\ alive' = alive \ {w}
  /\ focused' = IF focused = w THEN NoWorld ELSE focused
  /\ UNCHANGED <<opened, focusChanges>>
=============================================================================
