SPECIFICATION MCFairSpec
CONSTANTS
  e1 = e1
  e2 = e2
  Engine = {e1, e2}
  NoEngine = NoEngine
  Key <- Keys
  Match <- MatchTable
  Panels <- TwoPanels
  MaxChange = 1
CHECK_DEADLOCK FALSE
INVARIANTS
  TypeOK
  RefusalIsHarmless
  DocumentIffSuccess
  IndexAsListed
  AsksNamedEngine
PROPERTIES
  CommandEnds
