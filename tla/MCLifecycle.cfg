CONSTANTS
    Started <- AllCommands
    MaxRequests = 2
    MaxArrivals = 2
SPECIFICATION FairSpec
INVARIANTS TypeOK ServedInSync NoneCutOff
PROPERTIES ImplementsGroup AlwaysEnds
CHECK_DEADLOCK FALSE
