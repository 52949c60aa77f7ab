SPECIFICATION Spec
CONSTANTS
    m1 = m1
    m2 = m2
    m3 = m3
    m4 = m4
    a = a
    b = b
    Messages = {m1, m2, m3, m4}
    Rooms = {a, b}
    RoomOf <- MCRoomOf
    MaxDirected = 2
    Copies = {1, 2}
    None = None
PROPERTIES
    DirectedNeverDropped
CHECK_DEADLOCK FALSE
