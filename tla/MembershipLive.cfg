\* Three connections with ids of their own, no faults: what must eventually happen.
SPECIFICATION FairSpec
CONSTANTS
    None = None
    Clients = {c1, c2, c3}
    RoomIds = {r1}
    Keys = {k1}
    Names = {n1}
    AskedIds <- OwnIds
    MaxClientsPerRoom = 2
    MaxGlobalRooms = 0
    Faults = FALSE
    Expiry = TRUE
CHECK_DEADLOCK FALSE

    
PROPERTIES
    EmptyRoomForgotten
    CloseReachesDatabase
