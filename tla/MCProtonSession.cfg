SPECIFICATION Spec
CONSTANTS
    main = main
    worker = worker
    Threads <- TheThreads
    Starters <- MainOnly
    Paths = {f, g}
    Profilers = {cupti}
    Modes = {m, n}
    Addrs = {x, y}
    Names = {A, B}
    MaxSessions = 3
    MaxDepth = 2
    ToggleInScope = FALSE
    StartMayFail = FALSE
    NoSession = NoSession
    NoMode = NoMode
INVARIANTS
    ContextIsNest
    NodesAreOpenScopes
    
    LifeCycle
SYMMETRY Symmetry
CHECK_DEADLOCK FALSE
