CONSTANTS
    Policies <- AAndA1
    Exceptions = {}
    Modes = {http}
    PolicyModes = {http}
    None = None
    RvSteps = {5}
    MaxRv = 15
    MaxCounter = 0
    MaxRestarts = 0
    Requests = {r1}
    InStore = InStore
    Precedes <- ByName
SPECIFICATION SourceSpec
INVARIANTS ServedAsAsked
CHECK_DEADLOCK FALSE
