CONSTANTS
    Threads = {"t1", "t2"}
    ModeThreads = {"t1"}
    Devices = {"d0", "d1"}
    Specs = {"s"}
    TargetOf <- OwnTargets
    IgnoreErrors = {FALSE, TRUE}
    MayFail = TRUE
    MaxCalls <- ThreeAndOne
SPECIFICATION FairSpec
CHECK_DEADLOCK FALSE

    
PROPERTIES FinalizedAtExit ExitReturns
