SPECIFICATION FairSpec
CONSTANTS
    Fields <- FieldsHere
    HubFields <- FieldsHere
    FromEnv <- FromEnvHere
    Default <- DefaultHere
    Floor <- FloorHere
    HubDefault <- DefaultHere
    Unset = Unset
    Text = Text
    Garbled = Garbled
    Setups <- SetupsHere
    MaxStarts = 3
    MaxSignals = 2
    None = None
INVARIANTS
    TypeOK
    RecordedMeansApplied
    WorksOnCompleteSchema
    ServedStartsAgain
    HubRunsAsConfigured
    
PROPERTY SignalEnds
CHECK_DEADLOCK FALSE
