CONSTANTS
    Policies = {p1, p2}
    Exceptions = {e1}
    Modes = {http}
    PolicyModes = {http}
    None = None
    RvSteps = {1}
    MaxRv = 3
    MaxCounter = 1
    MaxRestarts = 1
SPECIFICATION FairSpec
INVARIANTS TypeOK LinksConsistent LinkedAreStored
PROPERTIES VersionAdvances PoliciesConverge RevocationConverges
CHECK_DEADLOCK FALSE
