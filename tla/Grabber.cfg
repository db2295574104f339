SPECIFICATION MCSpec
CONSTANTS
  w1 = w1
  w2 = w2
  World = {w1, w2}
  NoWorld = NoWorld
  MaxFocus = 1
  Right = Right
  Left = Left
  Trigger = Trigger
  Pen = Pen
  Primary = Primary
  PrimaryHand = Right
  Hand = {Right, Left}
  Button = {Trigger}
  Object = {Pen}
  Tool = {Pen}
  NoCall = NoCall
  PinUpdates = 2
  Impatient <- Hasty
  Call <- Calls
INVARIANTS
  TypeOK
  HoldsKept
PROPERTIES
  ImplementsSingleTick
  LetGoOnAccount
CHECK_DEADLOCK FALSE
