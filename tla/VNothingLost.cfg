\* Two snapshots that reach the store in the wrong order.
SPECIFICATION Spec
CONSTANTS
    None = None
    Updates = {u1, u2}
    Snapshots = {s1, s2}
    Joiners = {}
    Size <- Sizes
    MaxStorage = 9
    Faults = FALSE
SYMMETRY Symmetry
CHECK_DEADLOCK FALSE
INVARIANT
    NothingLost
