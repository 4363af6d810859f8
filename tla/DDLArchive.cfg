SPECIFICATION FairSpec
CONSTANTS
  Name = {a, b}
  NoName = NoName
  Value = {v, w, EmptyVal}
  EmptyVal = EmptyVal
  Damaged = Damaged
  Group = {0, 1}
  NoFile = NoFile
  Absent = Absent
  Blank = Blank
  Reserve = 1
  MaxLog = 4
  Faults = {"crash"}
INVARIANT TypeOK
PROPERTIES PutReturns ImplementsStore
VIEW Relevant
