SPECIFICATION Spec
CONSTANTS
    Creators = {c1, c2}
    Names = {n1, n2}
    None = None
    MaxVersion = 2
    MaxKeys = 2
    MaxMoves = 3
    MaxFaults = 1
SYMMETRY Symmetry
INVARIANTS FailureLeavesNoApp ServedIsNewest PlistOpensConfig
CHECK_DEADLOCK FALSE
