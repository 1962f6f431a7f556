SPECIFICATION Spec
CONSTANTS
    t1 = t1
    t2 = t2
    s1 = s1
    s2 = s2
    Threads <- OneThread
    Streams <- OneStream
    MaxKernels = 5
    MaxPhase = 3
    Uses <- OneWayOnly
INVARIANTS
    CompleteIsFinal
    NothingLost
    FilesWhole
PROPERTIES
    WrittenOnce
CHECK_DEADLOCK FALSE
