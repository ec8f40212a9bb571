CONSTANTS
    Size = 2
    Elements <- AllElements
    Zero = Zero
    Torn = Torn
    None = None
    ChanSize = 1
    PushedKinds = {"Allowed"}
    MaxEvents = 3
    MaxFaults = 1
SPECIFICATION Spec
INVARIANTS TypeOK RingHoldsNewest EventsAccounted
PROPERTIES UpdateCountsItsResults ReportIsExact ReportCatchesUp
CHECK_DEADLOCK FALSE
