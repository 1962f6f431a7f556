--------------------------- MODULE MCGSanRuntime ---------------------------
(* Small GPUs and small kernels for the race detector.                     *)
EXTENDS GSanRuntime, TLC

CONSTANTS w0, w1, w2

\* Worker i on SM i, and two of them on SM 0.
OnePerSm2 == (w0 :> 0) @@ (w1 :> 1)
OnePerSm3 == (w0 :> 0) @@ (w1 :> 1) @@ (w2 :> 2)
CoResident == (w0 :> 0) @@ (w1 :> 0)

TwoWorkers == {w0, w1}
ThreeWorkers == {w0, w1, w2}

Plain(kind, cells) == [kind |-> kind, cells |-> cells, sem |-> "relaxed", scope |-> "nonatomic"]
Atomic(kind, cells, sem, scope) == [kind |-> kind, cells |-> cells, sem |-> sem, scope |-> scope]

\* A payload cell and a flag that orders some of its accesses.
MessagePassing == {Plain("load", <<1>>), Plain("store", <<1>>), Atomic("rmw", <<2>>, "acq_rel", "gpu")}

\* Ranges that overlap in part, atomics of several scopes and a compare-and-swap.
Ranges ==
    {Plain("store", <<1, 2>>), Atomic("rmw", <<1, 2>>, "acq_rel", "gpu"),
     Atomic("rmw", <<2, 3>>, "relaxed", "gpu"), Atomic("cas", <<2>>, "acquire", "sys")}

ReleasesOnly == {Atomic("rmw", <<c>>, "release", "gpu") : c \in Cells}

Program(ops, n, perDevice) ==
    [operations |-> ops, accesses |-> n, launches |-> [d \in Devices |-> perDevice[d + 1]]]

Launched == {Program(MessagePassing, 2, <<2, 0>>), Program(Ranges, 1, <<1, 1>>)}
RangesOnce == {Program(Ranges, 1, <<1, 1>>)}
TwoReleases == {Program(ReleasesOnly, 2, <<1>>)}
ThreeReleases == {Program(ReleasesOnly, 3, <<1>>)}
=============================================================================
