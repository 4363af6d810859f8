SPECIFICATION FairCacheSpec
CONSTANTS
  Tab = {t1, t2}
  Project = {p}
  File = {items, shops}
  Late = {shops}
  Reader = {t1}
  First = p
  Torn = Torn
  Ops = {"get", "put"}
  Switchers = {}
  ConfigFails = FALSE
  MaxVersion = 2
  MaxSwitch = 0
  MaxWaiting = 2
  MaxUnread = 3
INVARIANTS StaleIsTold ReadYourSave
PROPERTY EventuallyFresh
CHECK_DEADLOCK FALSE
