\* Three members, one message; the host may break or quit.
\* Deadlock is not checked: everybody may have left.
SPECIFICATION FairSpec
CONSTANTS
    None = None
    Clients = {c1, c2, c3}
    Founders = {c1, c2, c3}
    Hosting = c1
    Jobs = {}
    Capacity = 1
    MaxSends = 1
    Unsteady = {c1}
CHECK_DEADLOCK FALSE
PROPERTIES
    ShutdownCloses
    
