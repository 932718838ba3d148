CONSTANTS
    k1 = k1  k2 = k2
    Keys = {k1, k2}
    Bundle <- BothKeys
    Processes = {p1, p2}
    Sessions = {s1, s2}
    HistoryLimit = 1
    MaxChanges = 3
    MaxRequests = 4
    MaxFaults = 1
    MaxKills = 1
    None = None
SPECIFICATION Spec
INVARIANTS TypeOK VersionsCount PublishedIsKept
SYMMETRY SessionSymmetry
CHECK_DEADLOCK FALSE
