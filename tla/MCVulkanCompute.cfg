CONSTANTS
    Bindings = {0, 1}
    PushSizes = {4, 8}
    MaxPushConstantsSize = 4
    BuffersAfterDispatch = FALSE
    MaxHandles = 17
SPECIFICATION Spec
CHECK_DEADLOCK FALSE
INVARIANTS
    FailuresContained
    DispatchesCurrent
