SPECIFICATION Spec
CONSTANTS
  Names = {p}
  People = {u, v}
  Limit = 1
  MaxGen = 3
INVARIANTS
  NoneGoesOnUnseen
  ChoiceStands
PROPERTIES
  TeardownEnds
CHECK_DEADLOCK FALSE
