SPECIFICATION MapSpec
CONSTANTS
  Width = 2
  Height = 2
  Level <- GroundLevel
  Limit = 4
  KeepUndo = 1
  MaxChanges = 4
  Sector = {1, 2}
  Plan <- Two
  Places <- TwoPlaces
  SectorFlag = {"f"}
  Wall = {0, 1}
  Links = {0}
  SideFlag = {p}
  Modes = {"active", "both", "direction", "perimeter", "inner", "edge", "outer", "all", "north"}
  MaxApply = 1
INVARIANTS LinksAreMutual NoOpenEdge OnePerCell
PROPERTIES OnlyMeantSides EditsArrive 
