SPECIFICATION ServerSpec
CONSTANTS
  Tab = {t1, t2}
  Project = {p, q}
  File = {f}
  First = p
  Torn = Torn
  Ops = {"create", "copy", "delete", "switch"}
  Switchers = {t1}
  ConfigFails = TRUE
  MaxVersion = 2
  MaxSwitch = 2
  MaxWaiting = 1
  MaxUnread = 1
  Conversion = {c1, c2}
  Name = {film, other}
  MaxPictures = 2
  Wrap = 8
  Caller = {a, b}
  Game = {g, h}
  NoOne = NoOne
  MaxCommands = 3
INVARIANTS CreateOnce  FilmsWhole CommandsWhole
