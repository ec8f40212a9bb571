CONSTANTS
    Policies <- JustA
    Exceptions = {e1}
    Modes = {http}
    PolicyModes = {http}
    None = None
    RvSteps = {1}
    MaxRv = 2
    MaxCounter = 0
    MaxRestarts = 0
    Requests = {r1}
    InStore = InStore
    Precedes <- ByName
SPECIFICATION SourceFairSpec
PROPERTY PoliciesConverge
CHECK_DEADLOCK FALSE
