SPECIFICATION Spec
CONSTANTS
  Map = {A, B}
  NoMap = NoMap
  Stored = {A}
  WithText = {A}
  MaxEdits = 2
  MaxLink = 2
INVARIANTS  OneVersion UnsavedIsMarked
