CONSTANTS
    Policies <- AAndA1
    Exceptions = {e1}
    Modes = {http, envoy}
    PolicyModes = {http}
    None = None
    RvSteps = {1}
    MaxRv = 2
    MaxCounter = 0
    MaxRestarts = 1
    Requests = {r1}
    InStore = InStore
    Precedes <- ByName
SPECIFICATION SourceSpec
INVARIANTS SourceTypeOK CacheFreshByVersion BuildFresh RevokedNotServedInStore
CHECK_DEADLOCK FALSE
