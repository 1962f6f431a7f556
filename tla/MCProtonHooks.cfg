SPECIFICATION Spec
CONSTANTS
    LaunchHook = LaunchHook
    InstrumentationHooks = {i1}
    MaxSessions = 3
    Toggles = TRUE
INVARIANTS
    HooksConsistent
CHECK_DEADLOCK FALSE
