CONSTANTS
    Partitions <- MCPartitions
    Program <- MCProgram
    Arefs <- MCArefs
    Producers <- MCProducers
    Consumers <- MCConsumers
    Depth <- MCDepth
    Buffers <- MCBuffers
    AsyncOps <- MCAsyncOps
    Kernel <- MCKernel
    DefaultWarps = 2
    WarpGroupSize = 4
    MaxNReg = 128
SPECIFICATION FairSpec
INVARIANTS
    ItemsOutlive
    WorkersInStep
    
PROPERTIES
    ImplementsChannel
    KernelEnds
