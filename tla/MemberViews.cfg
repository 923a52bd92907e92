\* A founder and two newcomers, the second of whom presents the id of the first.
\* Deadlock is not checked: everybody leaves in the end.
SPECIFICATION Spec
CONSTANTS
    None = None
    c1 = c1
    c2 = c2
    c3 = c3
    i1 = i1
    i2 = i2
    i3 = i3
    Clients = {c1, c2, c3}
    Wanted <- Reconnecting
    Founder = c1
CHECK_DEADLOCK FALSE
INVARIANTS
    TypeOK
    
    
    RoleTruthful
