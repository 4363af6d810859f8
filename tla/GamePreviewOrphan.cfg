SPECIFICATION Spec
CONSTANTS
  NoTab = NoTab
  Tab = {a, b}
  Stopper = {a}
  Configurer = {}
  MaxGames = 4
INVARIANT NeverForgotten
CHECK_DEADLOCK FALSE
