\* Two clients of one room, two events, room for one in each buffer.
CONSTANTS
    Clients = {"c1", "c2"}
    Rooms = {"math", "art"}
    RoomOf <- MCRoomOf
    SendCap = 1
    MaxEvents = 2
SPECIFICATION FairSpec
INVARIANTS
    TypeOK
    NeverSendsOnClosed
    RoomsAreExact
    Accounted
PROPERTIES
    FeedSpec
    NoLeak
    HubComesFree
    BufferDrains
\* All connections over and all events consumed.
CHECK_DEADLOCK FALSE
