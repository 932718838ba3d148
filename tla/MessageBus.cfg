\* Two processes and one file, a supplied offset, two appends or reads that fail, and a kill; a history of two messages and pages of one.
CONSTANTS
    Processes = {p1, p2}
    Receivers = {a}
    Kinds = {k1}
    Everybody = Everybody
    MaxHistory = 2
    PageSize = 1
    ClientOffsets = {2}
    MaxSent = 3
    MaxGiven = 1
    MaxFaults = 2
    MaxKills = 1
    None = None
SPECIFICATION Spec
INVARIANTS TypeOK SameOffsetHasACause HistoryIsComplete PassedOverHasACause
PROPERTY ImplementsMailbox
SYMMETRY ProcessSymmetry
CHECK_DEADLOCK FALSE
VIEW Seen
