CONSTANTS
    t1 = t1
    t2 = t2
    t3 = t3
    t4 = t4
    CudaThreads <- MCCudaThreads
SPECIFICATION LockFairSpec
INVARIANTS Exclusion WordAccounts
PROPERTIES ReaderProgress ImplementsRWLock
