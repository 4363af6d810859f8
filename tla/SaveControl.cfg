SPECIFICATION Spec
CONSTANTS
  spells = spells
  items = items
  enemies = enemies
  Editor = {spells, items, enemies}
  Kind <- EachKind
  MaxMounts = 3
  MaxEdits = 3
  MaxLink = 2
INVARIANTS BarIsTrue UnsavedIsFlagged ReloadSeesEdits
CHECK_DEADLOCK FALSE
