\* A host that may break or quit, a newcomer and a job; two messages in all.
\* Deadlock is not checked: everybody may have left.
SPECIFICATION Spec
CONSTANTS
    None = None
    Clients = {c1, c2}
    Founders = {c1}
    Hosting = c1
    Jobs = {j1}
    Capacity = 1
    MaxSends = 2
    Unsteady = {c1}
CHECK_DEADLOCK FALSE
INVARIANTS
    TypeOK
    SenderOrder
    KickedIsTold
    HandOverHolds
