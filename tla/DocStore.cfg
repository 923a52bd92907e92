\* Two updates, two snapshots, nobody joining; queries fail and the process crashes.
\* Deadlock is not checked: every message is sent once, so the instance stops.
SPECIFICATION Spec
CONSTANTS
    None = None
    Updates = {u1, u2}
    Snapshots = {s1, s2}
    Joiners = {}
    Size <- Sizes
    MaxStorage = 3
    Faults = TRUE
SYMMETRY Symmetry
CHECK_DEADLOCK FALSE
INVARIANTS
    TypeOK
    Durable
    WritesExclusive
    LimitKept
    CountersSound
