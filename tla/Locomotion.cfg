SPECIFICATION FairSpec
CONSTANTS
  World = {w1, w2}
  NoWorld = NoWorld
  Caller = {s1}
  Engine = Engine
  MaxFocus = 1
  Move = Move
  Forward = Forward
  Jump = Jump
  Neutral = Neutral
  Group <- MCGroup
  Value <- MCValue
  Commands <- MCCommands
  MaxCalls = 2
INVARIANTS
  ChainNotLost
  ResetHolds
  PulseOnce
PROPERTIES
  DisposeIsFinal
  CrashNeutralises
CHECK_DEADLOCK FALSE
