SPECIFICATION Spec
CONSTANTS
  Name = {"x", "X", "xy"}
  File = {"x:1", "xy:1"}
  Class = {k1, k2}
  Context = {c1, c2}
  Serves <- MCServes
  Begins <- MCBegins
  MaxSize = 2
  MaxAdded = 3
  Rules = {"no_nul"}
SYMMETRY AnyContext
INVARIANTS InputTypeOK ReadInOrder
PROPERTIES FirstAddedServes OthersStay NoContextLost
CHECK_DEADLOCK FALSE
