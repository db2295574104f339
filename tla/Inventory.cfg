SPECIFICATION Spec
CONSTANTS
  A = A
  B = B
  C = C
  X = X
  Name = {A, B, C, X}
  Pen = Pen
  Hat = Hat
  Asset = {Pen, Hat}
  NoAsset = NoAsset
  MaxOpen = 2
  Initial <- MCInitial
  Call <- MCCalls
INVARIANTS
  TypeOK
  WritesStayWhole
PROPERTIES
  DoneMeansDone
CHECK_DEADLOCK FALSE
