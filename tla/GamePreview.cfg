SPECIFICATION FairSpec
CONSTANTS
  NoTab = NoTab
  Tab = {a, b, c}
  Stopper = {a, b}
  Configurer = {c}
  MaxGames = 3
INVARIANTS OneGame
PROPERTY EveryCallEnds
CHECK_DEADLOCK FALSE
