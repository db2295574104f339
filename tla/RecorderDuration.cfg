SPECIFICATION RecorderFairSpec
CONSTANTS
  s1 = s1
  s2 = s2
  Size = {s1}
  NoSize = NoSize
  StepMicros = 20
  Samples = 1
  Period = 1
  MaxTime = 1
  MaxStall = 1
  MaxPts = 2
PROPERTIES
  DurationEnds
CHECK_DEADLOCK FALSE
