CONSTANTS
    one = one
    two = two
    Ticks = {one, two}
    None = None
    MaxFaults = 2
SPECIFICATION ProgressSpec
SYMMETRY TickSymmetry
INVARIANTS
    ProgressDisappears
CHECK_DEADLOCK FALSE
