-------------------------- MODULE MCProtonSession --------------------------
(* Two threads, of which one or both start and finalize sessions.          *)
EXTENDS ProtonSession, TLC
CONSTANTS main, worker

TheThreads == {main, worker}
MainOnly == {main}

\* Nothing tells names, paths, profilers, modes or addresses apart.
Symmetry ==
    Permutations(Names) \cup Permutations(Paths) \cup Permutations(Profilers)
        \cup Permutations(Modes) \cup Permutations(Addrs)
=============================================================================
