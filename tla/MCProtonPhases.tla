---------------------------- MODULE MCProtonPhases ----------------------------
(* One profile with few kernels, phases and streams.                       *)
EXTENDS ProtonPhases
CONSTANTS t1, t2, s1, s2

OneThread == {t1}
TwoThreads == {t1, t2}
OneStream == {s1}
TwoStreams == {s1, s2}

\* Phases read by the program, or by periodic flushing, and never by both.
FlushAndClear == {[periodic |-> FALSE, flush |-> TRUE, clear |-> TRUE]}
PeriodicOnly == {[periodic |-> TRUE, flush |-> FALSE, clear |-> FALSE]}
OneWayOnly == FlushAndClear \cup PeriodicOnly
NeitherWay == {[periodic |-> FALSE, flush |-> FALSE, clear |-> FALSE]}
BothFlushes == {[periodic |-> TRUE, flush |-> TRUE, clear |-> FALSE]}
=============================================================================
