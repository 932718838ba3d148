CONSTANTS
    Clients = {c1, c2}
    RemoteMode = {c2}
    DefaultLimit = 1
    Scale = 3
    LegacyMax = 1
    Estimate = 1
    Costs = {0, 1, 2}
    MaxFaults = 2
    None = None
SPECIFICATION Spec
INVARIANTS TypeOK UsedIsBetween UsedNearLimit ChargedTwiceHasACause
PROPERTIES RefusedWhenSpent
CHECK_DEADLOCK FALSE
