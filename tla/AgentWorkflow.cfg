CONSTANTS
    Snapshots = {s1}
    Requests = {r1,r2,r3}
    UserBreakpoints <- MCBreakpoints
    MaxCalls = 4
    None = None
SYMMETRY Symmetry
SPECIFICATION Spec
INVARIANTS TypeOK StoresAgree ResultsInOrder GatesHold
CHECK_DEADLOCK FALSE
