\* A start killed between executing and recording 002_counters.sql makes the later
\* ones fail (sqlite.go:68): MigrationIsIdempotent fails.
SPECIFICATION FairSpec
CONSTANTS
    Fields <- FieldsHere
    HubFields <- FieldsHere
    FromEnv <- FromEnvHere
    Default <- DefaultHere
    Floor <- FloorHere
    HubDefault <- DefaultHere
    Unset = Unset
    Text = Text
    Garbled = Garbled
    Setups <- SetupsHere
    MaxStarts = 3
    MaxSignals = 2
    None = None
INVARIANT MigrationIsIdempotent
CHECK_DEADLOCK FALSE
