SPECIFICATION Spec
CONSTANTS
  Names = {p}
  People = {u}
  Limit = 1
  MaxGen = 2
INVARIANT
  OneCopy
CHECK_DEADLOCK FALSE
