\* Three members, one message.
SPECIFICATION Spec
CONSTANTS
    None = None
    Clients = {c1, c2, c3}
    Founders = {c1, c2, c3}
    Hosting = c1
    Jobs = {}
    Capacity = 1
    MaxSends = 1
    Unsteady = {c1}
CHECK_DEADLOCK FALSE
INVARIANT
    QueueSafe
