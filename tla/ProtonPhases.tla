---------------------------- MODULE ProtonPhases ----------------------------
(***************************************************************************)
(* The phases of one Proton profile: application threads that launch       *)
(* kernels as ops of the current phase and advance it, the GPU that        *)
(* finishes kernels in order on each stream, and the CUPTI thread that     *)
(* delivers their records, completes phases and, in periodic flushing      *)
(* mode, writes and clears them.                                           *)
(*                                                                         *)
(* completeBelow is the number of complete phases: completeUpToPhase + 1,  *)
(* or 0 for kNoCompletePhase.  A phase's payload (its tree) is the set of  *)
(* the kernels whose records it holds.                                     *)
(***************************************************************************)
EXTENDS Naturals, FiniteSets, Sequences, SequencesExt

CONSTANTS
    Threads,        \* application threads
    Streams,        \* streams of the one CUDA context
    MaxKernels,     \* bound: ops entered in a behaviour
    MaxPhase,       \* bound: phases advanced to
    Uses            \* how a program may use its profile, see Use

\* periodic: the profiler's mode is periodic_flushing; flush: the program
\* calls deactivate(flushing=True) and goes on; clear: it clears complete
\* phases.
Use == [periodic : BOOLEAN, flush : BOOLEAN, clear : BOOLEAN]

ASSUME BoundsAssumption == MaxKernels \in Nat /\ MaxPhase \in Nat
ASSUME UsesAssumption == Uses \subseteq Use

VARIABLES
    current,        \* Data::currentPhase
    completeBelow,  \* Data::completeUpToPhase, plus one
    store,          \* the phases that have a slot in the phase store
    activePhases,   \* Data::activePhases, what dump goes through
    tree,           \* the payload of each phase
    files,          \* the part files written, by phase
    cleared,        \* the phases the program itself has cleared
    stage,          \* where each kernel is on its way
    phaseOf,        \* DataEntry::phase of each kernel
    opOf,           \* the op a thread is in, or 0
    queue,          \* kernels on each stream, first to finish first
    worker,         \* the CUPTI thread in completeBuffer
    use             \* how the program uses the profile

dataVars == <<current, completeBelow, store, activePhases, tree, files, cleared>>
kernelVars == <<stage, phaseOf, opOf, queue>>
vars == <<dataVars, kernelVars, worker, use>>

Kernels == 1 .. MaxKernels
Phases == 0 .. MaxPhase
At(s) == {k \in Kernels : stage[k] = s}
Idle == [pc |-> "idle", first |-> 0, end |-> 0]
Larger(m, n) == IF m < n THEN n ELSE m
Written(p) == p \in DOMAIN files

Init ==
    /\ current = 0 /\ completeBelow = 0
    /\ store = {0} /\ activePhases = {0}
    /\ tree = [p \in Phases |-> {}]
    /\ files = <<>>
    /\ cleared = {}
    /\ stage = [k \in Kernels |-> "none"]
    /\ phaseOf = [k \in Kernels |-> 0]
    /\ opOf = [t \in Threads |-> 0]
    /\ queue = [s \in Streams |-> <<>>]
    /\ worker = Idle
    /\ use \in Uses
-----------------------------------------------------------------------------
(* startOp: Data::addOp reads the current phase without the lock ...       *)
EnterOp(t) ==
    /\ opOf[t] = 0
    /\ At("none") # {}
    /\ LET k == CHOOSE n \in At("none") : \A m \in At("none") : n <= m
       IN  /\ stage' = [stage EXCEPT ![k] = "entered"]
           /\ phaseOf' = [phaseOf EXCEPT ![k] = current]
           /\ opOf' = [opOf EXCEPT ![t] = k]
    /\ UNCHANGED <<dataVars, queue, worker, use>>

(* ... and adds the op to that phase, which throws if it has been cleared. *)
AddOp(t) ==
    LET k == opOf[t]
    IN  /\ k # 0 /\ stage[k] = "entered"
        /\ IF phaseOf[k] \in store
           THEN stage' = [stage EXCEPT ![k] = "added"] /\ UNCHANGED opOf
           ELSE stage' = [stage EXCEPT ![k] = "refused"] /\ opOf' = [opOf EXCEPT ![t] = 0]
        /\ UNCHANGED <<dataVars, phaseOf, queue, worker, use>>

(* The launch itself, between the callbacks that correlate it and submit it.*)
Launch(t, s) ==
    LET k == opOf[t]
    IN  /\ k # 0 /\ stage[k] = "added"
        /\ stage' = [stage EXCEPT ![k] = "running"]
        /\ queue' = [queue EXCEPT ![s] = Append(@, k)]
        /\ opOf' = [opOf EXCEPT ![t] = 0]
        /\ UNCHANGED <<dataVars, phaseOf, worker, use>>

Finish(s) ==
    /\ queue[s] # <<>>
    /\ stage' = [stage EXCEPT ![Head(queue[s])] = "finished"]
    /\ queue' = [queue EXCEPT ![s] = Tail(@)]
    /\ UNCHANGED <<dataVars, phaseOf, opOf, worker, use>>
-----------------------------------------------------------------------------
(* advancePhase, under the session manager's mutex and the data's.         *)
Advance(t) ==
    /\ opOf[t] = 0
    /\ current < MaxPhase
    /\ current' = current + 1
    /\ store' = store \cup {current + 1}
    /\ activePhases' = activePhases \cup {current + 1}
    /\ UNCHANGED <<completeBelow, tree, files, cleared, kernelVars, worker, use>>

\* Slip: kernels that are running are not waited for.
UnsyncedFlush(t) ==
    /\ use.flush
    /\ opOf[t] = 0
    /\ At("finished") = {}
    /\ worker = Idle
    /\ completeBelow' = Larger(completeBelow, current)
    /\ UNCHANGED <<current, store, activePhases, tree, files, cleared, kernelVars, worker, use>>

(* Profiler::flush of a thread of the context: it waits for the kernels    *)
(* that have been launched and for their records, and then treats every    *)
(* phase before the current one as complete.                               *)
Flush(t) ==
    /\ use.flush
    /\ opOf[t] = 0
    /\ At("running") = {} /\ At("finished") = {}
    /\ worker = Idle
    /\ completeBelow' = Larger(completeBelow, current)
    /\ UNCHANGED <<current, store, activePhases, tree, files, cleared, kernelVars, worker, use>>

(* Data::clear of phase p, or of all the phases up to p; the current phase *)
(* is there again afterwards.                                              *)
ClearedPhases(ps) ==
    /\ store' = (store \ ps) \cup {current}
    /\ activePhases' = (activePhases \ ps) \cup {current}
    /\ tree' = [p \in Phases |-> IF p \in ps THEN {} ELSE tree[p]]

ClearByUser(t, p, upTo) ==
    /\ use.clear
    /\ opOf[t] = 0
    /\ p < completeBelow
    /\ LET ps == IF upTo THEN 0 .. p ELSE {p}
       IN  ClearedPhases(ps) /\ cleared' = cleared \cup ps
    /\ UNCHANGED <<current, completeBelow, files, kernelVars, worker, use>>
-----------------------------------------------------------------------------
(* completeBuffer: the records of the kernels that have finished go to the *)
(* phases of their ops, and the last of these phases ends the range that   *)
(* can be flushed.                                                         *)
Deliver ==
    /\ worker = Idle
    /\ At("finished") # {}
    /\ LET ks == At("finished")
           last == CHOOSE p \in {phaseOf[k] : k \in ks} : \A k \in ks : phaseOf[k] <= p
       IN  /\ tree' = [p \in Phases |->
                          IF p \in store THEN tree[p] \cup {k \in ks : phaseOf[k] = p} ELSE tree[p]]
           /\ stage' = [k \in Kernels |-> IF k \in ks THEN "delivered" ELSE stage[k]]
           /\ worker' = [pc |-> "complete", first |-> 0, end |-> last]
    /\ UNCHANGED <<current, completeBelow, store, activePhases, files, cleared, phaseOf, opOf, queue, use>>

\* Slip: the last phase seen is flushed with those before it.
InclusiveCompleteRange ==
    /\ worker.pc = "complete"
    /\ IF worker.end < completeBelow
       THEN worker' = Idle /\ UNCHANGED completeBelow
       ELSE /\ completeBelow' = worker.end + 1
            /\ worker' = IF use.periodic
                         THEN [pc |-> "write", first |-> completeBelow, end |-> worker.end + 1]
                         ELSE Idle
    /\ UNCHANGED <<current, store, activePhases, tree, files, cleared, kernelVars, use>>

\* Slip: the range starts at phase 0.
FromZeroCompleteRange ==
    /\ worker.pc = "complete"
    /\ IF worker.end <= completeBelow
       THEN worker' = Idle /\ UNCHANGED completeBelow
       ELSE /\ completeBelow' = worker.end
            /\ worker' = IF use.periodic
                         THEN [pc |-> "write", first |-> 0, end |-> worker.end]
                         ELSE Idle
    /\ UNCHANGED <<current, store, activePhases, tree, files, cleared, kernelVars, use>>

(* computeFlushRangesAndPeekPhases and completePhase.                      *)
CompleteRange ==
    /\ worker.pc = "complete"
    /\ IF worker.end <= completeBelow
       THEN worker' = Idle /\ UNCHANGED completeBelow
       ELSE /\ completeBelow' = worker.end
            /\ worker' = IF use.periodic
                         THEN [pc |-> "write", first |-> completeBelow, end |-> worker.end]
                         ELSE Idle
    /\ UNCHANGED <<current, store, activePhases, tree, files, cleared, kernelVars, use>>

(* periodicFlushDataPhases.                                                *)
WriteRange ==
    /\ worker.pc = "write"
    /\ LET ps == worker.first .. (worker.end - 1)
       IN  files' = [p \in DOMAIN files \cup ps |-> IF p \in ps THEN tree[p] ELSE files[p]]
    /\ worker' = [worker EXCEPT !.pc = "clear"]
    /\ UNCHANGED <<current, completeBelow, store, activePhases, tree, cleared, kernelVars, use>>

\* Slip: the phase after the range is cleared with it.
InclusiveClearRange ==
    /\ worker.pc = "clear"
    /\ ClearedPhases(0 .. (worker.end))
    /\ worker' = Idle
    /\ UNCHANGED <<current, completeBelow, files, cleared, kernelVars, use>>

(* periodicClearDataPhases: everything up to the end of the range.         *)
ClearRange ==
    /\ worker.pc = "clear"
    /\ ClearedPhases(0 .. (worker.end - 1))
    /\ worker' = Idle
    /\ UNCHANGED <<current, completeBelow, files, cleared, kernelVars, use>>

Next ==
    \/ \E t \in Threads :
          \/ EnterOp(t)
          \/ AddOp(t)
          \/ \E s \in Streams : Launch(t, s)
          \/ Advance(t)
          \/ Flush(t)
          \/ \E p \in Phases, upTo \in BOOLEAN : ClearByUser(t, p, upTo)
    \/ \E s \in Streams : Finish(s)
    \/ Deliver
    \/ CompleteRange
    \/ WriteRange
    \/ ClearRange

Spec == Init /\ [][Next]_vars
-----------------------------------------------------------------------------
Stages == {"none", "entered", "added", "refused", "running", "finished", "delivered"}

TypeOK ==
    /\ use \in Uses
    /\ current \in Phases
    /\ completeBelow \in 0 .. current
    /\ store \subseteq Phases /\ current \in store
    /\ activePhases = store
    /\ tree \in [Phases -> SUBSET Kernels]
    /\ DOMAIN files \subseteq Phases
    /\ \A p \in DOMAIN files : files[p] \subseteq Kernels
    /\ cleared \subseteq Phases
    /\ stage \in [Kernels -> Stages]
    /\ phaseOf \in [Kernels -> Phases]
    /\ opOf \in [Threads -> {0} \cup Kernels]
    /\ queue \in [Streams -> Seq(Kernels)]
    /\ worker \in [pc : {"idle", "complete", "write", "clear"}, first : Phases, end : Phases]

(* A complete phase gets no more records: no kernel of it is still to be   *)
(* added, launched, finished or delivered.                                 *)
CompleteIsFinal ==
    \A k \in Kernels : stage[k] \in {"entered", "added", "running", "finished"}
                           => phaseOf[k] >= completeBelow

(* No op is refused because its phase has been cleared before it is added. *)
NoOpRefused == At("refused") = {}

(* A record that has been delivered is kept until somebody has it: it is   *)
(* in its phase's payload, in the phase's part file, or the program has    *)
(* cleared the phase itself.                                               *)
RecordsKept ==
    \A k \in At("delivered") :
        LET p == phaseOf[k]
        IN  \/ p \in activePhases /\ k \in tree[p]
            \/ Written(p) /\ k \in files[p]
            \/ p \in cleared

(* A part file holds its phase: all the kernels launched in it.            *)
FilesWhole ==
    \A p \in DOMAIN files :
        files[p] = {k \in Kernels : stage[k] # "none" /\ phaseOf[k] = p}

(* A part file is written once, after its phase is complete and before the *)
(* phase is cleared.                                                       *)
WrittenOnce ==
    [][\A p \in Phases :
          /\ Written(p) => Written(p)' /\ files'[p] = files[p]
          /\ ~Written(p) /\ Written(p)' => p < completeBelow /\ p \in store]_vars

(* No record is lost and nothing is kept for a phase that is gone.         *)
NothingLost == TypeOK /\ RecordsKept
=============================================================================
