\* Three connections, two room ids, two keys, a hub with room for one; ids may collide.
SPECIFICATION Spec
CONSTANTS
    None = None
    Clients = {c1, c2, c3}
    RoomIds = {r1, r2}
    Keys = {k1, k2}
    Names = {n1}
    AskedIds <- AnyIds
    MaxClientsPerRoom = 2
    MaxGlobalRooms = 1
    Faults = TRUE
    Expiry = FALSE
CHECK_DEADLOCK FALSE
SYMMETRY Symmetry
INVARIANTS
    TypeOK
    RoomInv
    NoSplitBrain
    LiveRoomsBounded
    
PROPERTIES
    ImplementsSession
