--------------------------- MODULE MCAsyncCompile ---------------------------
(* Two devices of one target or of two, for the compilation of kernels.    *)
EXTENDS AsyncCompile, TLC

Calls(n, other) == [t \in Threads |-> IF t \in ModeThreads THEN n ELSE other]
ThreeAndOne == Calls(3, 1)
ThreeCalls == Calls(3, 3)

OneTarget == [d \in Devices |-> "sm90"]
OwnTargets == [d \in Devices |-> d]
=============================================================================
