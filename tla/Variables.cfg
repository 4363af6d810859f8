SPECIFICATION Spec
CONSTANTS
  Opened = {"dialogs"}
  MaxMade = 4
  MaxEdits = 1
  MaxDialogEdits = 2
  Variables = {"x", "y"}
  ActionEvents = {"a", "b"}
  MaxActions = 6
  MaxScriptEdits = 1
  MaxChanges = 4
  Look = {x, y}
  Body = {p, q}
  MaxLen = 2
  Highest = 6
INVARIANT VariablesApart
CHECK_DEADLOCK FALSE
