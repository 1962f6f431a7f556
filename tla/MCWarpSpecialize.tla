-------------------------- MODULE MCWarpSpecialize --------------------------
(* A kernel with two warp_specialize operations: a matmul, and a partition *)
(* that feeds two others.                                                  *)
EXTENDS WarpSpecialize, TLC

Do(o, a) == [op |-> o, aref |-> a]
On(o, a, b) == [op |-> o, aref |-> a, buffer |-> b]
Times(n, trace) == FlattenSeq([i \in 1 .. n |-> trace])

\* Tiles of two steps: both operands of a step are loaded by TMA into one aref,
\* the accumulator goes to the epilogue in another.
Tiles == 2
LoadPartition ==
    Times(2 * Tiles, <<Do("put", "ab"), On("load", "ab", 1), On("load", "ab", 2), Do("put.exit", "ab")>>)

MmaStep == <<Do("get", "ab"), On("mma", "acc", 1), Do("get.exit", "ab")>>
MmaPartition == Times(Tiles, <<Do("put", "acc")>> \o Times(2, MmaStep) \o <<Do("put.exit", "acc")>>)

Epilogue == Times(Tiles, <<Do("get", "acc"), Do("get.exit", "acc")>>)

\* One producer, which loads one buffer and stores another, and two consumers.
Rounds == 3
Producer == Times(Rounds, <<Do("put", "x"), On("load", "x", 1), On("store", "x", 2), Do("put.exit", "x")>>)
Consumer == Times(Rounds, <<Do("get", "x"), Do("get.exit", "x")>>)

MCProgram ==
    (<<1, 0>> :> Epilogue) @@ (<<1, 1>> :> LoadPartition) @@ (<<1, 2>> :> MmaPartition)
      @@ (<<2, 0>> :> Consumer) @@ (<<2, 1>> :> Producer) @@ (<<2, 2>> :> Consumer)
MCPartitions == DOMAIN MCProgram

MCArefs == {"ab", "acc", "x"}
MCProducers == [ab |-> {<<1, 1>>}, acc |-> {<<1, 2>>}, x |-> {<<2, 1>>}]
MCConsumers == [ab |-> {<<1, 2>>}, acc |-> {<<1, 0>>}, x |-> {<<2, 0>>, <<2, 2>>}]
MCDepth == [ab |-> 2, acc |-> 2, x |-> 2]
MCBuffers == [ab |-> 2, acc |-> 1, x |-> 2]
MCAsyncOps ==
    [ab |-> (<<1, 1>> :> {"TMALoad"}) @@ (<<1, 2>> :> {"TC5MMA"}),
     acc |-> (<<1, 2>> :> {"TC5MMA"}) @@ (<<1, 0>> :> {"NONE"}),
     x |-> (<<2, 1>> :> {"TMALoad", "NONE"}) @@ (<<2, 0>> :> {"NONE"}) @@ (<<2, 2>> :> {"WGMMA"})]

\* The first operation gets two warps of padding, the second one.
MCKernel ==
    << [numWarps |-> <<1, 1>>, requestedRegisters |-> <<24, 80>>],
       [numWarps |-> <<1, 2>>, requestedRegisters |-> <<24, 150>>] >>

\* The hypothesis of the theorems about WarpSpecialize.
ASSUME KernelHasStates == StatesCover
=============================================================================
