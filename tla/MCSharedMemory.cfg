SPECIFICATION SharedMemorySpec
CONSTANT Programs <- MCPrograms
INVARIANTS
    AccessesOrdered
    ExitIsSafe
    AllocationSound
PROPERTY Settles
