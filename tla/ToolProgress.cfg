CONSTANTS
    one = one
    two = two
    Ticks = {one, two}
    None = None
    MaxFaults = 2
SPECIFICATION ProgressSpec
SYMMETRY TickSymmetry
INVARIANTS
    AnswerStands
    NoneIsLeft
CHECK_DEADLOCK FALSE
