SPECIFICATION Spec
CONSTANTS
    p1 = p1
    p2 = p2
    p3 = p3
    Procs = {p1, p2, p3}
    Latest = 6
    Origins <- MCOrigins
    Artifacts = {"registry"}
    MaxCalls = 4
    MaxCrashes = 1
    MaxTouches = 2
SYMMETRY ProcSymmetry
CHECK_DEADLOCK FALSE
INVARIANTS
    OneAuthority
