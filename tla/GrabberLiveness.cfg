SPECIFICATION HoldFairSpec
CONSTANTS
  w1 = w1
  w2 = w2
  World = {w1}
  NoWorld = NoWorld
  MaxFocus = 1
  Right = Right
  Left = Left
  Trigger = Trigger
  Pen = Pen
  Primary = Primary
  PrimaryHand = Right
  Hand = {Right}
  Button = {Trigger}
  Object = {}
  Tool = {}
  NoCall = NoCall
  PinUpdates = 2
  Impatient <- HoldCalls
  Call <- HoldCalls
PROPERTIES
  CallsSettle
CHECK_DEADLOCK FALSE
