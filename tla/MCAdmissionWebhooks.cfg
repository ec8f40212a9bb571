SPECIFICATION Spec
CONSTANTS
    Replicas = {r1, r2}
    MaxCa = 3
    MaxRestarts = 2
INVARIANTS OwnCertificateTrusted NothingLeftBehind
PROPERTY BootstrapEnds
CHECK_DEADLOCK FALSE
