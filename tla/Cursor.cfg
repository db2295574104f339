SPECIFICATION Spec
CONSTANTS
  World = {w1, w2}
  NoWorld = NoWorld
  MaxFocus = 2
  Unregister = Unregister
  Call <- HoldsAndRelease
  Impatient <- HoldGivenUp
INVARIANTS
  LocksHidden
  HeldIsLocked
  DisposeReleases
SYMMETRY WorldSymmetry
CHECK_DEADLOCK FALSE
