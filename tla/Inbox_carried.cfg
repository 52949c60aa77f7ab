SPECIFICATION InboxSpec
CONSTANTS
  Users = {}
  Notices = {n1, n2}
  Handlers = {h1}
  Actions = {a1}
  Turns = {t1, t2}
  Ring = 2
  Lines = 1
  PerKind = 2
  MaxMoves = 6
  MaxLate = 1
  None = None
SYMMETRY Symmetry
INVARIANTS
  OnlyCarriedAreRead
CHECK_DEADLOCK FALSE
