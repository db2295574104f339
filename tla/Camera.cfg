SPECIFICATION FairSpec
CONSTANTS
  Size <- Sizes
  NoTexture = NoTexture
  Stream = {s1, s2}
  QueueCapacity = 2
  MaxFrames = 3
  MaxResizes = 1
INVARIANTS
  TypeOK
  OrderedOnce
  HeadersTrue
PROPERTIES
  CaptureGoesOn
CHECK_DEADLOCK FALSE
