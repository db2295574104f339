SPECIFICATION MCSpec
CONSTANTS
  World = {w1}
  NoWorld = NoWorld
  MaxFocus = 1
  Caller = {s1}
  Engine = Engine
  RingBufferCapacity = 3
  MaxTickSamples = 2
  FrameSize <- MCFrameSize
  MaxFrames = 3
INVARIANTS
  OverrideKept
  SamplesKept
PROPERTIES
  ImplementsDropOldest
  SamplesDrain
CHECK_DEADLOCK FALSE
