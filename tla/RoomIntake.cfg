CONSTANTS
    hall = hall
    den = den
    ann = ann
    bob = bob
    first = first
    second = second
    chat = chat
    aside = aside
    Rooms = {hall, den}
    Messages = {first, second, chat, aside}
    RoomOf <- MCRoomOf
    AuthorOf <- MCAuthorOf
    Direct = {first, second, aside}
    None = None
SPECIFICATION FairSpec
PROPERTIES
    AnsweredOnce
    StoppedStayStopped
    DirectIsHandedOn
CHECK_DEADLOCK FALSE
