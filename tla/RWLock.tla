------------------------------- MODULE RWLock -------------------------------
(***************************************************************************)
(* What a reader-writer lock promises to the code it protects: any number  *)
(* of workers may hold it for reading, or a single one for writing.        *)
(* GSanRWLock shows that the lock word of the GSan runtime keeps this      *)
(* promise; GSanRuntime is built on it.                                    *)
(***************************************************************************)
CONSTANT Workers

VARIABLES readers,  \* workers inside a read section
          writers   \* workers inside a write section

lockVars == <<readers, writers>>

Init == readers = {} /\ writers = {}

\* A worker outside the lock.
Outside(w) == w \notin readers \cup writers

EnterRead(w) == /\ Outside(w)
                /\ writers = {}
                /\ readers' = readers \cup {w}
                /\ UNCHANGED writers

EnterWrite(w) == /\ Outside(w)
                 /\ readers = {} /\ writers = {}
                 /\ writers' = {w}
                 /\ UNCHANGED readers

ExitRead(w) == /\ w \in readers
               /\ readers' = readers \ {w}
               /\ UNCHANGED writers

ExitWrite(w) == /\ w \in writers
                /\ writers' = writers \ {w}
                /\ UNCHANGED readers

Next == \E w \in Workers :
            EnterRead(w) \/ EnterWrite(w) \/ ExitRead(w) \/ ExitWrite(w)

Spec == Init /\ [][Next]_lockVars
=============================================================================
