SPECIFICATION FairSpec
CONSTANTS
    m1 = m1
    m2 = m2
    m3 = m3
    m4 = m4
    a = a
    b = b
    Messages = {m1, m2, m3, m4}
    Rooms = {a, b}
    RoomOf <- MCRoomOf
    MaxDirected = 2
    Copies = {1, 2}
    None = None
INVARIANTS
    NobodyForgotten
    TurnIsTracked
PROPERTIES
    OldestGivesWay
    LineSpec
    EachLeavesTheLine
CHECK_DEADLOCK FALSE
