SPECIFICATION Spec
CONSTANTS
  Name = {a, b}
  NoName = NoName
  Value = {v, EmptyVal}
  EmptyVal = EmptyVal
  Damaged = Damaged
  Group = {0}
  NoFile = NoFile
  Absent = Absent
  Blank = Blank
  Reserve = 1
  MaxLog = 5
  Faults = {"crash", "disk_full"}
INVARIANT UniqueNames
PROPERTY RevisionsKept
SYMMETRY Symmetric
VIEW Relevant
