SPECIFICATION StreamFairSpec
CONSTANTS
  s1 = s1
  s2 = s2
  Size = {s1, s2}
  NoSize = NoSize
  StepMicros = 20
  Samples = 1
  Period = 1
  MaxTime = 1
  MaxStall = 2
  MaxPts = 3
  Axis = {"forward", "sprint"}
  OneWay = {"sprint"}
  MaxKeys = 3
  Chunk = 2
  Warmup = 1
  MaxSamples = 9
  MaxWait = 4
INVARIANTS
  StreamTypeOK
  FileWellFormed
  PacerSound
  KeysSent
  FeedSound
PROPERTIES
  StreamsEnd
CHECK_DEADLOCK FALSE
