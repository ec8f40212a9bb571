CONSTANTS
    Size = 2
    Elements <- AllElements
    Zero = Zero
    Torn = Torn
    None = None
    ChanSize = 1
    PushedKinds = {"Allowed"}
    MaxEvents = 3
    MaxFaults = 0
SPECIFICATION Spec
INVARIANT ValuesInBounds
CHECK_DEADLOCK FALSE
