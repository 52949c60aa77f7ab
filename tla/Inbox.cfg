SPECIFICATION InboxSpec
CONSTANTS
  Users = {u1}
  Notices = {n1, n2}
  Handlers = {h1, h2}
  Actions = {a1}
  Turns = {t1, t2}
  Ring = 2
  Lines = 2
  PerKind = 1
  MaxMoves = 5
  MaxLate = 1
  None = None
SYMMETRY Symmetry
INVARIANTS
  WaitingIsShown
  DecisionStands
  AnnouncedOnce
CHECK_DEADLOCK FALSE
