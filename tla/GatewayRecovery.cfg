SPECIFICATION Spec
CONSTANTS
    r1 = r1
    r2 = r2
    r3 = r3
    t1 = t1
    t2 = t2
    Rooms <- MCRooms
    RoomOf <- MCRoomOf
    Tasks <- MCTasks
    Capacity = 2
    MaxRooms = 2
    ScanRooms = 2
    Limit = 2
    MaxReplayed = 1
    MaxOutages = 1
    MaxCrashes = 1
INVARIANTS
    NoEarlyRepeat
    NeverAhead
    OnlyOvertakenAreLost
SYMMETRY TaskSymmetry
CHECK_DEADLOCK FALSE
