CONSTANTS
    Processes = {p1, p2}
    MaxRuns = 3
SPECIFICATION Spec
CHECK_DEADLOCK FALSE
INVARIANTS
    
    ReadsWhole
