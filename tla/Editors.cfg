SPECIFICATION Spec
CONSTANTS
  Opened = {"items", "enemies", "shops", "characters", "spells", "facts", "facteditor",
            "dialogs", "script", "translation", "formats"}
  MaxMade = 4
  MaxEdits = 1
  MaxDialogEdits = 1
  Variables = {}
  ActionEvents = {"a", "b"}
  MaxActions = 6
  MaxScriptEdits = 1
  MaxChanges = 4
  Look = {x, y}
  Body = {p, q}
  MaxLen = 2
  Highest = 6
INVARIANTS ReopensAsSaved TargetsExist DiagramShows  RecordsKept DialogKept OthersStay
PROPERTIES  DeletesConfirmed JumpsFollow
CHECK_DEADLOCK FALSE
