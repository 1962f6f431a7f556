----------------------------- MODULE GSanRWLock -----------------------------
(***************************************************************************)
(* The reader-writer lock of a GSan ThreadState (GSanLibrary.cu), one      *)
(* action per atomic instruction on the lock word.                         *)
(*                                                                         *)
(* The word's top bit is kWriterFlag, its low 31 bits count the readers.   *)
(* A reader adds itself first and looks at the flag afterwards: it never   *)
(* takes its increment back, it waits for the writer to leave.  That is    *)
(* why the writer leaves by clearing its own bit and not by storing zero.  *)
(* The word is the record [flag, count]; the CUDA threads of one SM are    *)
(* too few to carry out of the count (CudaThreadsAssumption).              *)
(***************************************************************************)
EXTENDS Naturals, FiniteSets

CONSTANT CudaThreads

ASSUME CudaThreadsAssumption == IsFiniteSet(CudaThreads)

VARIABLES lockWord,  \* the lock word
          lockPc     \* where each worker is in its use of the lock

lockVars == <<lockWord, lockPc>>

LockPCs == {"idle", "readSpin", "reading", "writeSpin", "writing"}

LockInit ==
    /\ lockWord = [flag |-> FALSE, count |-> 0]
    /\ lockPc = [w \in CudaThreads |-> "idle"]

LockGoto(w, label) == lockPc' = [lockPc EXCEPT ![w] = label]

-----------------------------------------------------------------------------
(* Plausible slips in the lock code; no specification here uses them.      *)

\* An acquire that takes its increment back when it meets a writer, and still
\* proceeds once the flag is clear.
BackOffAcquireRead(w) ==
    /\ lockPc[w] = "idle"
    /\ lockWord' = IF lockWord.flag THEN lockWord ELSE [lockWord EXCEPT !.count = @ + 1]
    /\ LockGoto(w, IF lockWord.flag THEN "readSpin" ELSE "reading")

\* A reader that does not look at the flag of the old value.
UncheckedAcquireRead(w) ==
    /\ lockPc[w] = "idle"
    /\ lockWord' = [lockWord EXCEPT !.count = @ + 1]
    /\ LockGoto(w, "reading")

\* A writer that looks at the flag only.
FlagOnlyAcquireWrite(w) ==
    /\ lockPc[w] = "writeSpin"
    /\ ~lockWord.flag
    /\ lockWord' = [lockWord EXCEPT !.flag = TRUE]
    /\ LockGoto(w, "writing")

\* A release by storing zero, what the comment in rwLockReleaseWrite warns of.
ZeroingReleaseWrite(w) ==
    /\ lockPc[w] = "writing"
    /\ lockWord' = [flag |-> FALSE, count |-> 0]
    /\ LockGoto(w, "idle")
-----------------------------------------------------------------------------

\* rwLockAcquireRead: fetch_add(1); the old value's flag decides whether the
\* lock is held at once or the worker has to wait for the writer.
RWLockAcquireRead(w) ==
    /\ lockPc[w] = "idle"
    /\ lockWord' = [lockWord EXCEPT !.count = @ + 1]
    /\ LockGoto(w, IF lockWord.flag THEN "readSpin" ELSE "reading")

\* rwLockAcquireRead: the load that sees the flag clear ends the wait.
SpinRead(w) ==
    /\ lockPc[w] = "readSpin"
    /\ ~lockWord.flag
    /\ LockGoto(w, "reading")
    /\ UNCHANGED lockWord

\* A worker turns to rwLockAcquireWrite.
BeginWrite(w) ==
    /\ lockPc[w] = "idle"
    /\ LockGoto(w, "writeSpin")
    /\ UNCHANGED lockWord

\* rwLockAcquireWrite: the compare-exchange succeeds on a zero word only.
RWLockAcquireWrite(w) ==
    /\ lockPc[w] = "writeSpin"
    /\ lockWord = [flag |-> FALSE, count |-> 0]
    /\ lockWord' = [lockWord EXCEPT !.flag = TRUE]
    /\ LockGoto(w, "writing")

\* rwLockReleaseRead: fetch_sub(1).
RWLockReleaseRead(w) ==
    /\ lockPc[w] = "reading"
    /\ lockWord' = [lockWord EXCEPT !.count = @ - 1]
    /\ LockGoto(w, "idle")

\* rwLockReleaseWrite: fetch_and(~kWriterFlag).
RWLockReleaseWrite(w) ==
    /\ lockPc[w] = "writing"
    /\ lockWord' = [lockWord EXCEPT !.flag = FALSE]
    /\ LockGoto(w, "idle")

LockNext == \E w \in CudaThreads :
            \/ RWLockAcquireRead(w)
            \/ SpinRead(w)
            \/ BeginWrite(w)
            \/ RWLockAcquireWrite(w)
            \/ RWLockReleaseRead(w)
            \/ RWLockReleaseWrite(w)

LockSpec == LockInit /\ [][LockNext]_lockVars

\* A spinning or lock-holding CUDA thread is scheduled again and again; a
\* worker is never forced to start an access.
LockFairness ==
    \A w \in CudaThreads :
        /\ WF_lockVars(SpinRead(w))
        /\ WF_lockVars(RWLockAcquireWrite(w))
        /\ WF_lockVars(RWLockReleaseRead(w))
        /\ WF_lockVars(RWLockReleaseWrite(w))

LockFairSpec == LockSpec /\ LockFairness

-----------------------------------------------------------------------------
LockTypeOK ==
    /\ lockWord \in [flag : BOOLEAN, count : Nat]
    /\ lockPc \in [CudaThreads -> LockPCs]

\* Workers that have added themselves to the count.
Counted == {w \in CudaThreads : lockPc[w] \in {"readSpin", "reading"}}

In(label) == {w \in CudaThreads : lockPc[w] = label}

\* A write section excludes every other section on the same lock: the vector
\* clock and the clock buffer never change under a plain access of the SM.
Exclusion ==
    \A w, v \in CudaThreads :
        lockPc[w] = "writing" /\ v # w => lockPc[v] \notin {"reading", "writing"}

WordCounts ==
    /\ lockWord.count = Cardinality(Counted)
    /\ lockWord.flag <=> In("writing") # {}

\* The word never drifts from the sections it stands for: the count is the
\* number of readers inside or waiting, the flag says a writer is inside.
\* An acquire that gave up without its decrement, or a release that stored
\* zero, would break it and free the lock too early or never.
WordAccounts == LockTypeOK /\ WordCounts

\* A reader that has announced itself gets in: writers cannot take the lock
\* again past its increment, however many of them keep trying.
ReaderProgress == \A w \in CudaThreads : lockPc[w] = "readSpin" ~> lockPc[w] = "reading"

\* The word implements the promise of RWLock.
Abstract ==
    INSTANCE RWLock WITH Workers <- CudaThreads, readers <- In("reading"), writers <- In("writing")

ImplementsRWLock == Abstract!Spec
=============================================================================
