------------------------- MODULE ProtonPhasesProofs -------------------------
(***************************************************************************)
(* One application thread and one stream: a complete phase is final, no    *)
(* record is lost and a part file is whole, for any number of kernels and  *)
(* phases, whether the program flushes and clears or the profiler does.    *)
(*                                                                         *)
(* The inductive invariant says that the kernels are in line: in the order *)
(* in which they were entered, first those delivered, then those finished, *)
(* those running and at most one that is being launched.  Phases do not    *)
(* decrease along the line, so the phase of the last record delivered      *)
(* bounds the phases of all that is still under way: that is why a range   *)
(* may end there.  The rest of it says what is in the store, in the trees  *)
(* and in the files on both sides of the complete phases.                  *)
(***************************************************************************)
EXTENDS ProtonPhases, SequenceTheorems, TLAPS

OneThread == \A t, u \in Threads : t = u
OneStream == \A s, u \in Streams : s = u

\* Phases are read by the program or flushed periodically, never both.
OneWay == \A u \in Uses : u.periodic => ~u.flush /\ ~u.clear

\* Kernels 1 .. d are delivered, up to f finished, up to r running and up to e
\* entered.
InLine(d, f, r, e) ==
    /\ d \in Nat /\ f \in Nat /\ r \in Nat /\ e \in Nat
    /\ d <= f /\ f <= r /\ r <= e /\ e <= MaxKernels /\ e <= r + 1
    /\ \A k \in Kernels : /\ stage[k] = "delivered" <=> k <= d
                          /\ stage[k] = "finished" <=> d < k /\ k <= f
                          /\ stage[k] = "running" <=> f < k /\ k <= r
                          /\ stage[k] \in {"entered", "added"} <=> r < k /\ k <= e
                          /\ stage[k] = "none" <=> e < k
    /\ \A t \in Threads : opOf[t] = IF r < e THEN e ELSE 0
    /\ \A s \in Streams : queue[s] = [i \in 1 .. (r - f) |-> f + i]

Line == \E d, f, r, e \in 0 .. MaxKernels : InLine(d, f, r, e)

Entered(k) == stage[k] # "none"
Pending(k) == stage[k] \in {"entered", "added", "running", "finished"}

PhasesInOrder ==
    /\ \A k, m \in Kernels : k <= m /\ Entered(m) => phaseOf[k] <= phaseOf[m]
    /\ \A k \in Kernels : phaseOf[k] <= current

\* While the CUPTI thread has records at hand no phase before their last one has
\* a kernel under way; while it writes and clears, its range ends at the
\* complete phases.
WorkerInPlace ==
    /\ worker.pc = "complete" => /\ worker.end <= current
                                 /\ \A k \in Kernels : Pending(k) => phaseOf[k] >= worker.end
    /\ worker.pc \in {"write", "clear"} => /\ use.periodic
                                           /\ worker.first <= worker.end
                                           /\ worker.end = completeBelow

\* The first phase that is not written in periodic mode.
Frontier == IF worker.pc = "write" THEN worker.first ELSE completeBelow

StoreHoldsTheRest == \A p \in Phases : Frontier <= p /\ p <= current => p \in store

TreesOfDelivered == \A p \in Phases : \A k \in tree[p] : stage[k] = "delivered" /\ phaseOf[k] = p

\* Where a delivered record is.
Kept(k) ==
    LET p == phaseOf[k] IN
    IF use.periodic THEN IF Written(p) THEN k \in files[p] ELSE p \in store /\ k \in tree[p]
                    ELSE (p \in store /\ k \in tree[p]) \/ p \in cleared

WrittenPhases ==
    DOMAIN files = IF use.periodic THEN {p \in Phases : p < Frontier} ELSE {}

IInv == /\ TypeOK /\ Line /\ PhasesInOrder
        /\ WorkerInPlace /\ StoreHoldsTheRest /\ TreesOfDelivered /\ WrittenPhases
        /\ \A k \in Kernels : stage[k] = "delivered" => Kept(k)
        /\ CompleteIsFinal /\ FilesWhole

\* The kernel entered next is the first one in no stage.
LEMMA NextKernel ==
    ASSUME NEW e \in Nat, e < MaxKernels, \A k \in Kernels : stage[k] = "none" <=> e < k
    PROVE  /\ At("none") # {}
           /\ (CHOOSE n \in At("none") : \A m \in At("none") : n <= m) = e + 1
           /\ e + 1 \in Kernels
  <1>1. e + 1 \in At("none")
    BY BoundsAssumption DEF At, Kernels
  <1>2. \A m \in At("none") : e + 1 <= m
    BY DEF At, Kernels
  <1>3. \A n \in At("none") : (\A m \in At("none") : n <= m) => n = e + 1
    BY <1>1, <1>2 DEF At, Kernels
  <1> QED
    BY <1>1, <1>2, <1>3 DEF At

\* Nothing is under way at the start.
LEMMA InitIInv == Init => IInv
  <1> SUFFICES ASSUME Init PROVE IInv
    OBVIOUS
  <1> USE BoundsAssumption DEF Init
  <1>1. TypeOK
    BY DEF TypeOK, Phases, Kernels, Stages, Idle
  <1>2. InLine(0, 0, 0, 0)
    <2>1. \A s \in Streams : queue[s] = [i \in 1 .. (0 - 0) |-> 0 + i]
      OBVIOUS
    <2> QED
      BY <2>1 DEF InLine, Kernels
  <1>3. PhasesInOrder /\ WorkerInPlace /\ CompleteIsFinal
    BY DEF PhasesInOrder, WorkerInPlace, CompleteIsFinal, Entered, Idle, Kernels
  <1>4. StoreHoldsTheRest /\ TreesOfDelivered /\ WrittenPhases /\ FilesWhole
    BY <1>1, UsesAssumption DEF StoreHoldsTheRest, TreesOfDelivered, WrittenPhases, FilesWhole, Frontier, Phases,
                     Idle, TypeOK, Use
  <1> QED
    BY <1>1, <1>2, <1>3, <1>4 DEF IInv, Line

\* The complete phases, as far as they have been written, are behind the range.
LEMMA FrontierBelow == IInv => Frontier \in Nat /\ Frontier <= completeBelow
  BY DEF IInv, TypeOK, WorkerInPlace, Frontier, Phases

\* The thread begins an op in the current phase: at the end of the line.
LEMMA EnterOpStep == ASSUME OneThread, NEW t \in Threads, IInv, EnterOp(t) PROVE IInv'
  <1>1. PICK d, f, r, e \in 0 .. MaxKernels : InLine(d, f, r, e)
    BY DEF IInv, Line
  <1>2. r = e /\ e < MaxKernels /\ e \in Nat
    <2>1. r = e /\ e \in Nat
      BY <1>1 DEF EnterOp, InLine
    <2>2. PICK k \in Kernels : stage[k] = "none"
      BY DEF EnterOp, At
    <2>3. e < k
      BY <1>1, <2>2 DEF InLine
    <2> QED
      BY <2>1, <2>2, <2>3, BoundsAssumption DEF Kernels
  <1> DEFINE k == e + 1
  <1>3. /\ k \in Kernels /\ stage' = [stage EXCEPT ![k] = "entered"]
        /\ phaseOf' = [phaseOf EXCEPT ![k] = current] /\ opOf' = [opOf EXCEPT ![t] = k]
        /\ UNCHANGED <<dataVars, queue, worker, use>>
    BY <1>1, <1>2, NextKernel DEF EnterOp, InLine
  <1>4. /\ current' = current /\ completeBelow' = completeBelow /\ store' = store /\ activePhases' = activePhases
        /\ tree' = tree /\ files' = files /\ cleared' = cleared
    BY <1>3 DEF dataVars
  <1>5. TypeOK /\ stage[k] = "none"
    BY <1>1, <1>2, <1>3 DEF IInv, InLine
  <1>6. TypeOK'
    BY <1>3, <1>4, <1>5 DEF TypeOK, Stages
  <1>7. InLine(d, f, r, k)'
    <2>1. /\ stage'[k] = "entered" /\ \A m \in Kernels : m # k => stage'[m] = stage[m]
          /\ \A u \in Threads : opOf'[u] = k
          /\ queue' = queue
      BY <1>3, <1>5 DEF TypeOK, OneThread
    <2> QED
      BY <1>1, <1>2, <2>1, BoundsAssumption DEF InLine, Kernels
  <1>8. Line'
    BY <1>3, <1>7 DEF Line, Kernels
  <1>9. /\ phaseOf'[k] = current /\ \A m \in Kernels : m # k => phaseOf'[m] = phaseOf[m] /\ stage'[m] = stage[m]
        /\ stage'[k] = "entered"
    BY <1>3, <1>5 DEF TypeOK
  <1>10. PhasesInOrder'
    <2>1. \A m \in Kernels : k < m => stage[m] = "none"
      BY <1>1, <1>2 DEF InLine, Kernels
    <2>2. current' = current /\ current \in Phases
      BY <1>4, <1>5 DEF TypeOK
    <2>3. \A m \in Kernels : phaseOf'[m] <= current'
      BY <1>9, <2>2 DEF IInv, PhasesInOrder, Phases
    <2>4. ASSUME NEW m, NEW n \in Kernels, m \in Kernels, m <= n, stage'[n] # "none"
          PROVE  phaseOf'[m] <= phaseOf'[n]
      <3>1. CASE n = k
        BY <1>9, <2>2, <2>3, <2>4, <3>1
      <3>2. CASE n # k
        <4>1. ~(k < n) /\ m # k
          BY <1>1, <1>2, <1>9, <2>1, <2>4, <3>2 DEF Kernels
        <4> QED
          BY <4>1, <1>9, <2>4, <3>2 DEF IInv, PhasesInOrder, Entered
      <3> QED
        BY <3>1, <3>2
    <2> QED
      BY <2>3, <2>4 DEF PhasesInOrder, Entered
  <1>11. WorkerInPlace' /\ CompleteIsFinal'
    BY <1>3, <1>4, <1>5, <1>9 DEF IInv, WorkerInPlace, CompleteIsFinal, Pending, TypeOK, Phases, Kernels
  <1>12. StoreHoldsTheRest' /\ WrittenPhases'
    BY <1>3, <1>4 DEF IInv, StoreHoldsTheRest, WrittenPhases, Frontier
  <1>13. TreesOfDelivered'
    BY <1>4, <1>5, <1>9 DEF IInv, TreesOfDelivered, TypeOK
  <1>14. \A m \in Kernels : stage'[m] = "delivered" => Kept(m)'
    BY <1>3, <1>4, <1>9 DEF IInv, Kept, Written
  <1>15. FilesWhole'
    <2>1. \A p \in DOMAIN files : p # current
      BY <1>5, FrontierBelow DEF IInv, WrittenPhases, TypeOK, Phases
    <2> QED
      BY <1>4, <1>5, <1>9, <2>1 DEF IInv, FilesWhole
  <1> QED
    BY <1>6, <1>8, <1>10, <1>11, <1>12, <1>13, <1>14, <1>15 DEF IInv

\* A step that moves one kernel on that has been entered and is not delivered yet
\* and touches no phase leaves the rest of the invariant alone.
LEMMA MoveOnStep ==
    ASSUME IInv, NEW k \in Kernels, Pending(k), NEW s \in {"added", "running", "finished"},
           stage' = [stage EXCEPT ![k] = s], UNCHANGED <<dataVars, phaseOf, worker, use>>,
           Line', TypeOK'
    PROVE  IInv'
  <1>1. TypeOK
    BY DEF IInv
  <1>2. /\ stage'[k] = s /\ \A m \in Kernels : m # k => stage'[m] = stage[m]
        /\ \A m \in Kernels : /\ Entered(m)' <=> Entered(m)
                              /\ Pending(m)' <=> Pending(m)
                              /\ stage'[m] = "delivered" <=> stage[m] = "delivered"
    BY <1>1 DEF TypeOK, Entered, Pending
  <1>3. /\ current' = current /\ completeBelow' = completeBelow /\ store' = store /\ activePhases' = activePhases
        /\ tree' = tree /\ files' = files /\ cleared' = cleared /\ phaseOf' = phaseOf /\ worker' = worker /\ use' = use
    BY DEF dataVars
  <1>4. PhasesInOrder'
    BY <1>2, <1>3 DEF IInv, PhasesInOrder
  <1>5. WorkerInPlace'
    BY <1>2, <1>3 DEF IInv, WorkerInPlace
  <1>6. CompleteIsFinal'
    BY <1>2, <1>3 DEF IInv, CompleteIsFinal, Pending
  <1>7. StoreHoldsTheRest' /\ WrittenPhases'
    BY <1>3 DEF IInv, StoreHoldsTheRest, WrittenPhases, Frontier
  <1>8. TreesOfDelivered'
    BY <1>1, <1>2, <1>3 DEF IInv, TreesOfDelivered, TypeOK
  <1>9. \A m \in Kernels : stage'[m] = "delivered" => Kept(m)'
    BY <1>2, <1>3 DEF IInv, Kept, Written
  <1>10. FilesWhole'
    BY <1>2, <1>3 DEF IInv, FilesWhole, Entered
  <1> QED
    BY <1>4, <1>5, <1>6, <1>7, <1>8, <1>9, <1>10 DEF IInv

\* An op just entered is of the current phase or of a later one than all that
\* has been cleared: it is never refused.
LEMMA AddOpStep == ASSUME OneThread, NEW t \in Threads, IInv, AddOp(t) PROVE IInv'
  <1>1. PICK d, f, r, e \in 0 .. MaxKernels : InLine(d, f, r, e)
    BY DEF IInv, Line
  <1> DEFINE k == opOf[t]
  <1>2. r < e /\ k = e /\ k \in Kernels /\ stage[k] = "entered"
    BY <1>1, BoundsAssumption DEF AddOp, InLine, Kernels
  <1>3. phaseOf[k] \in store
    <2>1. completeBelow <= phaseOf[k] /\ phaseOf[k] <= current /\ phaseOf[k] \in Phases
      BY <1>2 DEF IInv, CompleteIsFinal, PhasesInOrder, TypeOK
    <2> QED
      BY <2>1, FrontierBelow DEF IInv, StoreHoldsTheRest, TypeOK, Phases
  <1>4. stage' = [stage EXCEPT ![k] = "added"] /\ UNCHANGED <<dataVars, phaseOf, opOf, queue, worker, use>>
    BY <1>3 DEF AddOp
  <1>5. TypeOK /\ TypeOK'
    BY <1>2, <1>4 DEF IInv, TypeOK, Stages, dataVars
  <1>6. InLine(d, f, r, e)'
    <2>1. stage'[k] = "added" /\ \A m \in Kernels : m # k => stage'[m] = stage[m]
      BY <1>2, <1>4, <1>5 DEF TypeOK
    <2> QED
      BY <1>1, <1>2, <1>4, <2>1 DEF InLine
  <1>7. Line'
    BY <1>6 DEF Line
  <1> QED
    BY <1>2, <1>4, <1>5, <1>7, MoveOnStep DEF Pending

\* The launch puts the kernel at the end of the running ones.
LEMMA LaunchStep ==
    ASSUME OneThread, OneStream, NEW t \in Threads, NEW s \in Streams, IInv, Launch(t, s) PROVE IInv'
  <1>1. PICK d, f, r, e \in 0 .. MaxKernels : InLine(d, f, r, e)
    BY DEF IInv, Line
  <1> DEFINE k == opOf[t]
  <1>2. r < e /\ k = e /\ k = r + 1 /\ k \in Kernels /\ stage[k] = "added"
    BY <1>1, BoundsAssumption DEF Launch, InLine, Kernels
  <1>3. /\ stage' = [stage EXCEPT ![k] = "running"] /\ queue' = [queue EXCEPT ![s] = Append(@, k)]
        /\ opOf' = [opOf EXCEPT ![t] = 0] /\ UNCHANGED <<dataVars, phaseOf, worker, use>>
    BY DEF Launch
  <1>4. TypeOK /\ TypeOK'
    <2>1. TypeOK
      BY DEF IInv
    <2>2. queue' \in [Streams -> Seq(Kernels)]
      BY <1>2, <1>3, <2>1 DEF TypeOK
    <2> QED
      BY <1>2, <1>3, <2>1, <2>2 DEF TypeOK, Stages, dataVars
  <1>5. queue'[s] = [i \in 1 .. (r + 1 - f) |-> f + i]
    <2> DEFINE q == [i \in 1 .. (r - f) |-> f + i]
               q2 == [i \in 1 .. (r + 1 - f) |-> f + i]
    <2>1. queue[s] = q /\ queue'[s] = Append(queue[s], k) /\ queue[s] \in Seq(Kernels)
      BY <1>1, <1>3, <1>4 DEF InLine, TypeOK
    <2>2. r - f \in Nat /\ DOMAIN q = 1 .. (r - f)
      BY <1>1 DEF InLine
    <2>3. Len(queue[s]) = r - f
      BY <2>1, <2>2, LenProperties
    <2>4. /\ Append(queue[s], k) \in Seq(Kernels) /\ Len(Append(queue[s], k)) = r + 1 - f
          /\ \A i \in 1 .. (r - f) : Append(queue[s], k)[i] = f + i
          /\ Append(queue[s], k)[r + 1 - f] = k
      BY <1>2, <2>1, <2>2, <2>3
    <2>5. DOMAIN Append(queue[s], k) = 1 .. (r + 1 - f)
      BY <2>4, LenProperties
    <2>6. \A i \in 1 .. (r + 1 - f) : Append(queue[s], k)[i] = f + i
      <3> TAKE i \in 1 .. (r + 1 - f)
      <3>1. i \in 1 .. (r - f) \/ i = r + 1 - f
        BY <2>2
      <3> QED
        BY <3>1, <2>2, <2>4, <1>2
    <2>7. Append(queue[s], k) = q2
      BY <2>4, <2>5, <2>6, LenProperties
    <2> QED
      BY <2>1, <2>7
  <1>6. InLine(d, f, r + 1, e)'
    <2>1. stage'[k] = "running" /\ \A m \in Kernels : m # k => stage'[m] = stage[m]
      BY <1>2, <1>3, <1>4 DEF TypeOK
    <2> DEFINE r2 == r + 1
    <2>2. /\ d \in Nat /\ f \in Nat /\ r2 \in Nat /\ e \in Nat
          /\ d <= f /\ f <= r2 /\ r2 <= e /\ e <= MaxKernels /\ e <= r2 + 1
      BY <1>1, <1>2 DEF InLine
    <2>3. \A m \in Kernels : /\ stage'[m] = "delivered" <=> m <= d
                             /\ stage'[m] = "finished" <=> d < m /\ m <= f
                             /\ stage'[m] = "running" <=> f < m /\ m <= r2
                             /\ stage'[m] \in {"entered", "added"} <=> r2 < m /\ m <= e
                             /\ stage'[m] = "none" <=> e < m
      BY <1>1, <1>2, <2>1 DEF InLine, Kernels
    <2>4. \A u \in Threads : opOf'[u] = IF r2 < e THEN e ELSE 0
      BY <1>2, <1>3, <1>4 DEF OneThread, TypeOK
    <2>5. \A u \in Streams : queue'[u] = [i \in 1 .. (r2 - f) |-> f + i]
      BY <1>5 DEF OneStream
    <2> HIDE DEF r2
    <2>6. InLine(d, f, r2, e)'
      BY <2>2, <2>3, <2>4, <2>5 DEF InLine
    <2> QED
      BY <2>6 DEF r2
  <1>7. Line'
    BY <1>2, <1>6 DEF Line, Kernels
  <1> QED
    BY <1>2, <1>3, <1>4, <1>7, MoveOnStep DEF Pending

\* The GPU finishes the first of the running kernels.
LEMMA FinishStep == ASSUME OneStream, NEW s \in Streams, IInv, Finish(s) PROVE IInv'
  <1>1. PICK d, f, r, e \in 0 .. MaxKernels : InLine(d, f, r, e)
    BY DEF IInv, Line
  <1>2. queue[s] = [i \in 1 .. (r - f) |-> f + i] /\ queue[s] \in Seq(Kernels) /\ queue[s] # <<>> /\ r - f \in Nat
    BY <1>1 DEF InLine, IInv, TypeOK, Finish
  <1>3. Len(queue[s]) = r - f
    <2>1. DOMAIN queue[s] = 1 .. (r - f)
      BY <1>2
    <2> QED
      BY <1>2, <2>1, LenProperties
  <1>4. f < r
    BY <1>2, <1>3, EmptySeq
  <1>5. Head(queue[s]) = f + 1
    BY <1>2, <1>3, <1>4
  <1> DEFINE k == f + 1
  <1>6. /\ k \in Kernels /\ stage[k] = "running"
    BY <1>1, <1>4, BoundsAssumption DEF InLine, Kernels
  <1>7. /\ stage' = [stage EXCEPT ![k] = "finished"] /\ queue' = [queue EXCEPT ![s] = Tail(@)]
        /\ UNCHANGED <<dataVars, phaseOf, opOf, worker, use>>
    BY <1>5 DEF Finish
  <1>8. /\ Tail(queue[s]) \in Seq(Kernels) /\ Len(Tail(queue[s])) = r - (f + 1)
        /\ \A i \in 1 .. (r - (f + 1)) : Tail(queue[s])[i] = (f + 1) + i
    <2> DEFINE q == queue[s]
    <2>1. /\ Tail(q) \in Seq(Kernels) /\ Len(Tail(q)) = Len(q) - 1
          /\ \A i \in 1 .. Len(Tail(q)) : Tail(q)[i] = q[i + 1]
      BY <1>2, HeadTailProperties
    <2>2. Len(Tail(q)) = r - (f + 1)
      BY <1>1, <1>3, <2>1 DEF InLine
    <2>3. \A i \in 1 .. (r - (f + 1)) : q[i + 1] = f + (i + 1) /\ f + (i + 1) = (f + 1) + i
      BY <1>1, <1>2 DEF InLine
    <2> QED
      BY <2>1, <2>2, <2>3
  <1>9. Tail(queue[s]) = [i \in 1 .. (r - (f + 1)) |-> (f + 1) + i]
    BY <1>8, LenProperties
  <1>10. TypeOK /\ TypeOK'
    BY <1>6, <1>7, <1>8 DEF IInv, TypeOK, Stages, dataVars
  <1>11. InLine(d, f + 1, r, e)'
    <2>1. stage'[k] = "finished" /\ \A m \in Kernels : m # k => stage'[m] = stage[m]
      BY <1>6, <1>7, <1>10 DEF TypeOK
    <2>2. \A u \in Streams : queue'[u] = [i \in 1 .. (r - (f + 1)) |-> (f + 1) + i]
      BY <1>7, <1>9, <1>10 DEF OneStream, TypeOK
    <2>3. \A m \in Kernels : /\ stage'[m] = "delivered" <=> m <= d
                             /\ stage'[m] = "finished" <=> d < m /\ m <= f + 1
                             /\ stage'[m] = "running" <=> f + 1 < m /\ m <= r
                             /\ stage'[m] \in {"entered", "added"} <=> r < m /\ m <= e
                             /\ stage'[m] = "none" <=> e < m
      BY <1>1, <1>4, <1>6, <2>1 DEF InLine, Kernels
    <2> QED
      BY <1>1, <1>4, <1>7, <2>2, <2>3 DEF InLine
  <1>12. Line'
    BY <1>6, <1>11 DEF Line, Kernels
  <1> QED
    BY <1>6, <1>7, <1>10, <1>12, MoveOnStep DEF Pending

\* A step that moves no kernel keeps the line.
LEMMA LineStands == Line /\ UNCHANGED kernelVars => Line'
  <1> SUFFICES ASSUME Line, UNCHANGED kernelVars PROVE Line'
    OBVIOUS
  <1>1. PICK d, f, r, e \in 0 .. MaxKernels : InLine(d, f, r, e)
    BY DEF Line
  <1>2. InLine(d, f, r, e)'
    BY <1>1 DEF InLine, kernelVars
  <1> QED
    BY <1>2 DEF Line

\* A new current phase has its slot.
LEMMA AdvanceStep == ASSUME NEW t \in Threads, IInv, Advance(t) PROVE IInv'
  <1>1. /\ current < MaxPhase /\ current' = current + 1 /\ store' = store \cup {current + 1}
        /\ activePhases' = activePhases \cup {current + 1}
        /\ UNCHANGED <<completeBelow, tree, files, cleared, stage, phaseOf, opOf, queue, worker, use>>
        /\ TypeOK
    BY DEF Advance, IInv, kernelVars
  <1>2. TypeOK'
    BY <1>1, BoundsAssumption DEF TypeOK, Phases
  <1>3. Line'
    BY <1>1, LineStands DEF IInv, kernelVars
  <1>4. PhasesInOrder' /\ WorkerInPlace' /\ CompleteIsFinal'
    BY <1>1 DEF IInv, PhasesInOrder, WorkerInPlace, CompleteIsFinal, Entered, Pending, TypeOK, Phases
  <1>5. StoreHoldsTheRest' /\ WrittenPhases' /\ TreesOfDelivered'
    BY <1>1 DEF IInv, StoreHoldsTheRest, WrittenPhases, TreesOfDelivered, Frontier, TypeOK, Phases
  <1>6. \A k \in Kernels : stage'[k] = "delivered" => Kept(k)'
    BY <1>1 DEF IInv, Kept, Written
  <1>7. FilesWhole'
    BY <1>1 DEF IInv, FilesWhole
  <1> QED
    BY <1>2, <1>3, <1>4, <1>5, <1>6, <1>7 DEF IInv

\* The thread that flushes is in no op, so nothing is under way at all.
LEMMA FlushStep == ASSUME OneWay, NEW t \in Threads, IInv, Flush(t) PROVE IInv'
  <1>1. PICK d, f, r, e \in 0 .. MaxKernels : InLine(d, f, r, e)
    BY DEF IInv, Line
  <1>2. /\ use.flush /\ opOf[t] = 0 /\ At("running") = {} /\ At("finished") = {} /\ worker = Idle
        /\ completeBelow' = Larger(completeBelow, current)
        /\ UNCHANGED <<current, store, activePhases, tree, files, cleared, stage, phaseOf, opOf, queue, worker, use>>
        /\ TypeOK
    BY DEF Flush, IInv, kernelVars
  <1>3. \A k \in Kernels : ~Pending(k)
    <2>1. r = e
      BY <1>1, <1>2 DEF InLine
    <2>2. \A k \in Kernels : stage[k] \notin {"entered", "added"}
      BY <1>1, <2>1 DEF InLine, Kernels
    <2> QED
      BY <1>2, <2>2 DEF At, Pending
  <1>4. completeBelow' = current
    BY <1>2 DEF Larger, TypeOK, Phases
  <1>5. ~use.periodic /\ worker.pc = "idle"
    BY <1>2 DEF OneWay, TypeOK, Idle
  <1>6. TypeOK'
    BY <1>2, <1>4 DEF TypeOK, Phases
  <1>7. Line'
    BY <1>2, LineStands DEF IInv, kernelVars
  <1>8. PhasesInOrder'
    BY <1>2 DEF IInv, PhasesInOrder, Entered
  <1>9. WorkerInPlace' /\ CompleteIsFinal'
    BY <1>2, <1>3, <1>5 DEF WorkerInPlace, CompleteIsFinal, Pending
  <1>10. StoreHoldsTheRest' /\ WrittenPhases' /\ TreesOfDelivered'
    BY <1>2, <1>4, <1>5 DEF IInv, StoreHoldsTheRest, WrittenPhases, TreesOfDelivered, Frontier, TypeOK, Phases
  <1>11. \A k \in Kernels : stage'[k] = "delivered" => Kept(k)'
    BY <1>2 DEF IInv, Kept, Written
  <1>12. FilesWhole'
    BY <1>2 DEF IInv, FilesWhole
  <1> QED
    BY <1>6, <1>7, <1>8, <1>9, <1>10, <1>11, <1>12 DEF IInv

\* What the program clears is complete.
LEMMA ClearByUserStep ==
    ASSUME OneWay, NEW t \in Threads, NEW p \in Phases, NEW upTo \in BOOLEAN, IInv, ClearByUser(t, p, upTo)
    PROVE  IInv'
  <1> DEFINE ps == IF upTo THEN 0 .. p ELSE {p}
  <1>1. /\ use.clear /\ p < completeBelow /\ cleared' = cleared \cup ps
        /\ store' = (store \ ps) \cup {current} /\ activePhases' = (activePhases \ ps) \cup {current}
        /\ tree' = [q \in Phases |-> IF q \in ps THEN {} ELSE tree[q]]
        /\ UNCHANGED <<current, completeBelow, files, stage, phaseOf, opOf, queue, worker, use>>
        /\ TypeOK
    BY DEF ClearByUser, ClearedPhases, IInv, kernelVars
  <1>2. \A q \in ps : q \in Phases /\ q < completeBelow
    <2>1. p \in Nat /\ p <= MaxPhase /\ \A q \in ps : q \in 0 .. p
      BY <1>1, BoundsAssumption DEF Phases
    <2> QED
      BY <2>1, <1>1, BoundsAssumption DEF Phases, TypeOK
  <1> HIDE DEF ps
  <1>3. ~use.periodic /\ worker.pc \in {"idle", "complete"} /\ use.periodic' = use.periodic
    BY <1>1 DEF OneWay, TypeOK, IInv, WorkerInPlace
  <1>4. TypeOK'
    BY <1>1, <1>2 DEF TypeOK, Phases
  <1>5. Line'
    BY <1>1, LineStands DEF IInv, kernelVars
  <1>6. PhasesInOrder' /\ WorkerInPlace' /\ CompleteIsFinal'
    BY <1>1 DEF IInv, PhasesInOrder, WorkerInPlace, CompleteIsFinal, Entered, Pending
  <1>7. StoreHoldsTheRest' /\ WrittenPhases'
    BY <1>1, <1>2, <1>3 DEF IInv, StoreHoldsTheRest, WrittenPhases, Frontier, Phases, TypeOK
  <1>8. TreesOfDelivered'
    BY <1>1 DEF IInv, TreesOfDelivered
  <1>9. \A k \in Kernels : stage'[k] = "delivered" => Kept(k)'
    <2> SUFFICES ASSUME NEW k \in Kernels, stage[k] = "delivered" PROVE Kept(k)'
      BY <1>1
    <2>1. phaseOf[k] \in Phases /\ phaseOf'[k] = phaseOf[k]
      BY <1>1 DEF TypeOK
    <2>2. (phaseOf[k] \in store /\ k \in tree[phaseOf[k]]) \/ phaseOf[k] \in cleared
      BY <1>3 DEF IInv, Kept
    <2> QED
      BY <1>1, <1>3, <2>1, <2>2 DEF Kept
  <1>10. FilesWhole'
    BY <1>1 DEF IInv, FilesWhole
  <1> QED
    BY <1>4, <1>5, <1>6, <1>7, <1>8, <1>9, <1>10 DEF IInv

\* Records go to phases that still have their slot, or that the program cleared.
\* The last kernel delivered has the last phase, and none before it is left.
LEMMA DeliverStep == ASSUME IInv, Deliver PROVE IInv'
  <1>1. PICK d, f, r, e \in 0 .. MaxKernels : InLine(d, f, r, e)
    BY DEF IInv, Line
  <1> DEFINE ks == At("finished")
             last == CHOOSE p \in {phaseOf[k] : k \in ks} : \A k \in ks : phaseOf[k] <= p
  <1>2. /\ worker = Idle /\ ks # {}
        /\ tree' = [p \in Phases |-> IF p \in store THEN tree[p] \cup {k \in ks : phaseOf[k] = p} ELSE tree[p]]
        /\ stage' = [k \in Kernels |-> IF k \in ks THEN "delivered" ELSE stage[k]]
        /\ worker' = [pc |-> "complete", first |-> 0, end |-> last]
        /\ UNCHANGED <<current, completeBelow, store, activePhases, files, cleared, phaseOf, opOf, queue, use>>
        /\ TypeOK
    BY DEF Deliver, IInv
  <1>3. d < f /\ f \in Kernels /\ f \in ks /\ ks = {k \in Kernels : d < k /\ k <= f}
    <2>1. ks = {k \in Kernels : d < k /\ k <= f}
      BY <1>1 DEF InLine, At
    <2>2. d < f /\ f \in Kernels
      BY <1>1, <1>2, <2>1, BoundsAssumption DEF InLine, Kernels
    <2> QED
      BY <2>1, <2>2
  <1>4. last = phaseOf[f]
    <2>1. \A k \in ks : phaseOf[k] <= phaseOf[f]
      BY <1>3 DEF IInv, PhasesInOrder, Entered, At
    <2>2. \A k \in ks : phaseOf[k] \in Nat
      BY <1>2 DEF At, TypeOK, Phases
    <2>3. \A p \in {phaseOf[k] : k \in ks} : (\A k \in ks : phaseOf[k] <= p) => p = phaseOf[f]
      BY <1>3, <2>1, <2>2
    <2> QED
      BY <1>3, <2>1, <2>3
  <1> HIDE DEF ks, last
  <1>5. /\ \A k \in Kernels : k \in ks => stage'[k] = "delivered" /\ stage[k] = "finished"
        /\ \A k \in Kernels : k \notin ks => stage'[k] = stage[k] /\ stage[k] # "finished"
    BY <1>2 DEF ks, At
  <1>6. TypeOK'
    <2>1. last \in Phases /\ 0 \in Phases
      BY <1>2, <1>3, <1>4, BoundsAssumption DEF TypeOK, Phases
    <2>2. worker' \in [pc : {"idle", "complete", "write", "clear"}, first : Phases, end : Phases]
      BY <1>2, <2>1
    <2>3. stage' \in [Kernels -> Stages]
      BY <1>2 DEF TypeOK, Stages
    <2>4. tree' \in [Phases -> SUBSET Kernels]
      BY <1>2, <1>3 DEF TypeOK
    <2> QED
      BY <1>2, <2>2, <2>3, <2>4 DEF TypeOK
  <1>7. InLine(f, f, r, e)'
    <2>1. \A k \in Kernels : /\ stage'[k] = "delivered" <=> k <= f
                             /\ stage'[k] = "finished" <=> f < k /\ k <= f
                             /\ stage'[k] = "running" <=> f < k /\ k <= r
                             /\ stage'[k] \in {"entered", "added"} <=> r < k /\ k <= e
                             /\ stage'[k] = "none" <=> e < k
      BY <1>1, <1>3, <1>5 DEF InLine, Kernels
    <2> QED
      BY <1>1, <1>2, <2>1 DEF InLine
  <1>8. Line'
    BY <1>7 DEF Line
  <1>9. PhasesInOrder'
    BY <1>2, <1>5 DEF IInv, PhasesInOrder, Entered
  <1>10. WorkerInPlace'
    <2>1. \A k \in Kernels : Pending(k)' => f <= k /\ Entered(k)
      BY <1>1, <1>3, <1>5 DEF InLine, Pending, Entered, Kernels
    <2>2. \A k \in Kernels : Pending(k)' => phaseOf[f] <= phaseOf[k]
      BY <1>3, <2>1 DEF IInv, PhasesInOrder
    <2>3. phaseOf[f] <= current
      BY <1>3 DEF IInv, PhasesInOrder
    <2>4. worker'.pc = "complete" /\ worker'.end = phaseOf[f]
      BY <1>2, <1>4
    <2>5. \A k \in Kernels : Pending(k)' => phaseOf'[k] >= worker'.end
      BY <1>2, <1>3, <2>2, <2>4 DEF TypeOK, Phases
    <2> QED
      BY <1>2, <2>3, <2>4, <2>5 DEF WorkerInPlace
  <1>11. CompleteIsFinal'
    BY <1>2, <1>5 DEF IInv, CompleteIsFinal
  <1>12. Frontier' = Frontier /\ Frontier = completeBelow
    BY <1>2 DEF Frontier, Idle
  <1>13. StoreHoldsTheRest' /\ WrittenPhases'
    BY <1>2, <1>12 DEF IInv, StoreHoldsTheRest, WrittenPhases
  <1>14. TreesOfDelivered'
    <2> SUFFICES ASSUME NEW p \in Phases, NEW k \in tree'[p]
                 PROVE  stage'[k] = "delivered" /\ phaseOf'[k] = p
      BY DEF TreesOfDelivered
    <2>1. k \in tree[p] \/ (k \in ks /\ phaseOf[k] = p)
      BY <1>2
    <2>2. CASE k \in tree[p]
      <3>1. k \in Kernels /\ stage[k] = "delivered" /\ phaseOf[k] = p
        BY <1>2, <2>2 DEF IInv, TreesOfDelivered, TypeOK
      <3> QED
        BY <1>2, <1>5, <3>1
    <2>3. CASE k \in ks /\ phaseOf[k] = p
      BY <1>2, <1>3, <1>5, <2>3
    <2> QED
      BY <2>1, <2>2, <2>3
  <1>15. \A k \in Kernels : stage'[k] = "delivered" => Kept(k)'
    <2> SUFFICES ASSUME NEW k \in Kernels, stage'[k] = "delivered" PROVE Kept(k)'
      OBVIOUS
    <2>1. phaseOf[k] \in Phases /\ phaseOf'[k] = phaseOf[k]
      BY <1>2 DEF TypeOK
    <2>2. CASE k \in ks
      <3>1. completeBelow <= phaseOf[k] /\ phaseOf[k] <= current
        BY <1>5, <2>2 DEF IInv, CompleteIsFinal, PhasesInOrder, TypeOK, Phases
      <3>2. phaseOf[k] \in store
        BY <2>1, <3>1, <1>12 DEF IInv, StoreHoldsTheRest
      <3>3. ~Written(phaseOf[k])
        BY <2>1, <3>1, <1>2, <1>12 DEF IInv, WrittenPhases, Written, TypeOK, Phases
      <3> QED
        BY <1>2, <2>1, <2>2, <3>2, <3>3 DEF Kept, Written
    <2>3. CASE k \notin ks
      <3>1. Kept(k)
        BY <1>5, <2>3 DEF IInv
      <3> QED
        BY <1>2, <2>1, <3>1 DEF Kept, Written
    <2> QED
      BY <2>2, <2>3
  <1>16. FilesWhole'
    BY <1>2, <1>5 DEF IInv, FilesWhole
  <1> QED
    BY <1>6, <1>8, <1>9, <1>10, <1>11, <1>13, <1>14, <1>15, <1>16 DEF IInv

\* The range that can be flushed ends at the last phase seen: what is before it
\* has no kernel under way and is complete.
LEMMA CompleteRangeStep == ASSUME IInv, CompleteRange PROVE IInv'
  <1>1. /\ worker.pc = "complete"
        /\ UNCHANGED <<current, store, activePhases, tree, files, cleared, stage, phaseOf, opOf, queue, use>>
        /\ TypeOK
        /\ \/ worker' = Idle /\ completeBelow' = completeBelow
           \/ /\ completeBelow < worker.end /\ completeBelow' = worker.end /\ ~use.periodic /\ worker' = Idle
           \/ /\ completeBelow < worker.end /\ completeBelow' = worker.end /\ use.periodic
              /\ worker' = [pc |-> "write", first |-> completeBelow, end |-> worker.end]
    BY DEF CompleteRange, IInv, kernelVars, TypeOK, Phases
  <1>2. worker.end <= current /\ \A k \in Kernels : Pending(k) => phaseOf[k] >= worker.end
    BY <1>1 DEF IInv, WorkerInPlace
  <1>3. Frontier = completeBelow /\ completeBelow <= completeBelow' /\ completeBelow' <= current
    BY <1>1, <1>2 DEF Frontier, TypeOK, Phases
  <1>4. TypeOK'
    <2>1. 0 \in Phases /\ completeBelow \in Phases /\ completeBelow' \in 0 .. current
      BY <1>1, <1>2, <1>3, BoundsAssumption DEF Phases, TypeOK
    <2>2. worker' \in [pc : {"idle", "complete", "write", "clear"}, first : Phases, end : Phases]
      BY <1>1, <2>1 DEF Idle, TypeOK
    <2> QED
      BY <1>1, <2>1, <2>2 DEF TypeOK
  <1>5. Line'
    BY <1>1, LineStands DEF IInv, kernelVars
  <1>6. PhasesInOrder'
    BY <1>1 DEF IInv, PhasesInOrder, Entered
  <1>7. WorkerInPlace'
    BY <1>1 DEF WorkerInPlace, Idle, TypeOK, Phases
  <1>8. CompleteIsFinal'
    BY <1>1, <1>2 DEF IInv, CompleteIsFinal, Pending
  <1>9. /\ use.periodic => Frontier' = completeBelow
        /\ Frontier <= Frontier'
    BY <1>1, <1>3 DEF Frontier, Idle, TypeOK, Phases
  <1>10. StoreHoldsTheRest'
    BY <1>1, <1>3, <1>9 DEF IInv, StoreHoldsTheRest, Frontier, TypeOK, Phases, Idle
  <1>11. WrittenPhases'
    BY <1>1, <1>3, <1>9 DEF IInv, WrittenPhases
  <1>12. TreesOfDelivered' /\ FilesWhole'
    BY <1>1 DEF IInv, TreesOfDelivered, FilesWhole
  <1>13. \A k \in Kernels : stage'[k] = "delivered" => Kept(k)'
    BY <1>1 DEF IInv, Kept, Written
  <1> QED
    BY <1>4, <1>5, <1>6, <1>7, <1>8, <1>10, <1>11, <1>12, <1>13 DEF IInv

\* What is written is complete: every kernel of it has its record in the tree.
LEMMA WriteRangeStep == ASSUME OneWay, IInv, WriteRange PROVE IInv'
  <1> DEFINE ps == worker.first .. (worker.end - 1)
  <1>1. /\ worker.pc = "write" /\ worker' = [worker EXCEPT !.pc = "clear"]
        /\ files' = [p \in DOMAIN files \cup ps |-> IF p \in ps THEN tree[p] ELSE files[p]]
        /\ UNCHANGED <<current, completeBelow, store, activePhases, tree, cleared, stage, phaseOf, opOf, queue, use>>
        /\ TypeOK
    BY DEF WriteRange, IInv, kernelVars
  <1>2. /\ use.periodic /\ worker.first <= worker.end /\ worker.end = completeBelow
        /\ worker.first \in Nat /\ completeBelow <= current /\ current <= MaxPhase
    BY <1>1, BoundsAssumption DEF IInv, WorkerInPlace, TypeOK, Phases
  <1>3. Frontier = worker.first /\ Frontier' = completeBelow
    BY <1>1, BoundsAssumption DEF Frontier, TypeOK
  <1>4. \A p \in ps : p \in Phases /\ worker.first <= p /\ p < completeBelow /\ p \in store /\ ~Written(p)
    BY <1>2, <1>3, BoundsAssumption DEF IInv, StoreHoldsTheRest, WrittenPhases, Written, Phases, TypeOK
  <1>5. \A p \in Phases : worker.first <= p /\ p < completeBelow => p \in ps
    BY <1>1, <1>2 DEF Phases, TypeOK
  <1> HIDE DEF ps
  <1>6. worker' = [pc |-> "clear", first |-> worker.first, end |-> worker.end]
    BY <1>1 DEF TypeOK
  <1>7. DOMAIN files' = DOMAIN files \cup ps /\ (\A p \in ps : files'[p] = tree[p])
        /\ \A p \in DOMAIN files \ ps : files'[p] = files[p]
    BY <1>1
  <1>8. TypeOK'
    <2>1. \A p \in DOMAIN files' : p \in Phases /\ files'[p] \subseteq Kernels
      BY <1>1, <1>4, <1>7 DEF TypeOK
    <2>2. worker' \in [pc : {"idle", "complete", "write", "clear"}, first : Phases, end : Phases]
      BY <1>1, <1>6 DEF TypeOK
    <2> QED
      BY <1>1, <2>1, <2>2 DEF TypeOK
  <1>9. Line'
    BY <1>1, LineStands DEF IInv, kernelVars
  <1>10. PhasesInOrder' /\ CompleteIsFinal'
    BY <1>1 DEF IInv, PhasesInOrder, Entered, CompleteIsFinal
  <1>11. WorkerInPlace'
    BY <1>1, <1>2, <1>6 DEF WorkerInPlace
  <1>12. StoreHoldsTheRest'
    BY <1>1, <1>2, <1>3 DEF IInv, StoreHoldsTheRest, Phases, TypeOK
  <1>13. WrittenPhases'
    BY <1>1, <1>2, <1>3, <1>4, <1>5, <1>7 DEF IInv, WrittenPhases, Phases, TypeOK
  <1>14. TreesOfDelivered'
    BY <1>1 DEF IInv, TreesOfDelivered
  <1>15. \A k \in Kernels : stage'[k] = "delivered" => Kept(k)'
    <2> SUFFICES ASSUME NEW k \in Kernels, stage[k] = "delivered" PROVE Kept(k)'
      BY <1>1
    <2>1. Kept(k)
      BY DEF IInv
    <2>2. CASE phaseOf[k] \in ps
      BY <1>1, <1>2, <1>4, <1>7, <2>1, <2>2 DEF Kept, Written
    <2>3. CASE phaseOf[k] \notin ps
      BY <1>1, <1>2, <1>7, <2>1, <2>3 DEF Kept, Written
    <2> QED
      BY <2>2, <2>3
  <1>16. FilesWhole'
    <2> SUFFICES ASSUME NEW p \in DOMAIN files'
                 PROVE  files'[p] = {k \in Kernels : stage[k] # "none" /\ phaseOf[k] = p}
      BY <1>1 DEF FilesWhole
    <2>1. CASE p \in ps
      <3>1. \A k \in Kernels : stage[k] # "none" /\ phaseOf[k] = p => stage[k] = "delivered"
        <4> SUFFICES ASSUME NEW k \in Kernels, stage[k] # "none", phaseOf[k] = p
                     PROVE  stage[k] = "delivered"
          OBVIOUS
        <4>1. PICK d, f, r, e \in 0 .. MaxKernels : InLine(d, f, r, e)
          BY DEF IInv, Line
        <4>2. ~Pending(k)
          BY <1>1, <1>4, <2>1 DEF IInv, CompleteIsFinal, Pending, TypeOK, Phases
        <4> QED
          BY <4>1, <4>2 DEF InLine, Pending, Kernels
      <3>2. \A k \in Kernels : stage[k] = "delivered" /\ phaseOf[k] = p => k \in tree[p]
        BY <1>2, <1>4, <2>1 DEF IInv, Kept
      <3>3. \A k \in tree[p] : k \in Kernels /\ stage[k] = "delivered" /\ phaseOf[k] = p
        BY <1>1, <1>4, <2>1 DEF IInv, TreesOfDelivered, TypeOK
      <3> QED
        BY <1>7, <2>1, <3>1, <3>2, <3>3
    <2>2. CASE p \notin ps
      BY <1>7, <2>2 DEF IInv, FilesWhole
    <2> QED
      BY <2>1, <2>2
  <1> QED
    BY <1>8, <1>9, <1>10, <1>11, <1>12, <1>13, <1>14, <1>15, <1>16 DEF IInv

\* What is cleared has been written.
LEMMA ClearRangeStep == ASSUME OneWay, IInv, ClearRange PROVE IInv'
  <1> DEFINE ps == 0 .. (worker.end - 1)
  <1>1. /\ worker.pc = "clear" /\ worker' = Idle
        /\ store' = (store \ ps) \cup {current} /\ activePhases' = (activePhases \ ps) \cup {current}
        /\ tree' = [p \in Phases |-> IF p \in ps THEN {} ELSE tree[p]]
        /\ UNCHANGED <<current, completeBelow, files, cleared, stage, phaseOf, opOf, queue, use>>
        /\ TypeOK
    BY DEF ClearRange, ClearedPhases, IInv, kernelVars
  <1>2. use.periodic /\ worker.end = completeBelow /\ Frontier = completeBelow /\ Frontier' = completeBelow
    BY <1>1 DEF IInv, WorkerInPlace, Frontier, Idle
  <1>3. \A p \in Phases : p \in ps <=> p < completeBelow
    BY <1>1, <1>2 DEF Phases, TypeOK
  <1> HIDE DEF ps
  <1>4. TypeOK'
    <2>1. 0 \in Phases
      BY BoundsAssumption DEF Phases
    <2>2. worker' \in [pc : {"idle", "complete", "write", "clear"}, first : Phases, end : Phases]
      BY <1>1, <2>1 DEF Idle
    <2> QED
      BY <1>1, <2>2 DEF TypeOK
  <1>5. Line'
    BY <1>1, LineStands DEF IInv, kernelVars
  <1>6. PhasesInOrder' /\ CompleteIsFinal' /\ WorkerInPlace'
    BY <1>1 DEF IInv, PhasesInOrder, Entered, CompleteIsFinal, WorkerInPlace, Idle
  <1>7. StoreHoldsTheRest' /\ WrittenPhases'
    BY <1>1, <1>2, <1>3 DEF IInv, StoreHoldsTheRest, WrittenPhases, TypeOK, Phases
  <1>8. TreesOfDelivered'
    BY <1>1 DEF IInv, TreesOfDelivered
  <1>9. \A k \in Kernels : stage'[k] = "delivered" => Kept(k)'
    <2> SUFFICES ASSUME NEW k \in Kernels, stage[k] = "delivered" PROVE Kept(k)'
      BY <1>1
    <2>1. phaseOf[k] \in Phases /\ phaseOf'[k] = phaseOf[k] /\ Kept(k)
      BY <1>1 DEF IInv, TypeOK
    <2>2. CASE Written(phaseOf[k])
      BY <1>1, <1>2, <2>1, <2>2 DEF Kept, Written
    <2>3. CASE ~Written(phaseOf[k])
      <3>1. phaseOf[k] \notin ps
        BY <1>2, <1>3, <2>1, <2>3 DEF IInv, WrittenPhases, Written
      <3> QED
        BY <1>1, <1>2, <2>1, <2>3, <3>1 DEF Kept, Written
    <2> QED
      BY <2>2, <2>3
  <1>10. FilesWhole'
    BY <1>1 DEF IInv, FilesWhole
  <1> QED
    BY <1>4, <1>5, <1>6, <1>7, <1>8, <1>9, <1>10 DEF IInv

\* Every step of the application, of the GPU and of the CUPTI thread keeps it.
LEMMA NextIInv == ASSUME OneThread, OneStream, OneWay PROVE IInv /\ [Next]_vars => IInv'
  <1> SUFFICES ASSUME IInv, [Next]_vars PROVE IInv'
    OBVIOUS
  <1>1. ASSUME NEW t \in Threads,
               \/ EnterOp(t) \/ AddOp(t) \/ (\E s \in Streams : Launch(t, s))
               \/ Advance(t) \/ Flush(t)
               \/ \E p \in Phases, upTo \in BOOLEAN : ClearByUser(t, p, upTo)
        PROVE  IInv'
    BY <1>1, EnterOpStep, AddOpStep, LaunchStep, AdvanceStep, FlushStep, ClearByUserStep
  <1>2. ASSUME NEW s \in Streams, Finish(s) PROVE IInv'
    BY <1>2, FinishStep
  <1>3. CASE Deliver
    BY <1>3, DeliverStep
  <1>4. CASE CompleteRange
    BY <1>4, CompleteRangeStep
  <1>5. CASE WriteRange
    BY <1>5, WriteRangeStep
  <1>6. CASE ClearRange
    BY <1>6, ClearRangeStep
  <1>7. CASE UNCHANGED vars
    <2>1. Line'
      BY <1>7, LineStands DEF vars, IInv
    <2>2. TypeOK' /\ PhasesInOrder' /\ WorkerInPlace' /\ CompleteIsFinal'
      BY <1>7 DEF vars, dataVars, kernelVars, IInv, TypeOK, PhasesInOrder, Entered, WorkerInPlace, Pending,
                  CompleteIsFinal
    <2>3. StoreHoldsTheRest' /\ TreesOfDelivered' /\ WrittenPhases' /\ FilesWhole'
      BY <1>7 DEF vars, dataVars, kernelVars, IInv, StoreHoldsTheRest, TreesOfDelivered, WrittenPhases, Frontier,
                  FilesWhole
    <2>4. \A k \in Kernels : stage'[k] = "delivered" => Kept(k)'
      BY <1>7 DEF vars, dataVars, kernelVars, IInv, Kept, Written
    <2> QED
      BY <2>1, <2>2, <2>3, <2>4 DEF IInv
  <1> QED
    BY <1>1, <1>2, <1>3, <1>4, <1>5, <1>6, <1>7 DEF Next

\* The kernels stay in line and the phases in their places.
THEOREM Invariance == ASSUME OneThread, OneStream, OneWay PROVE Spec => []IInv
  BY InitIInv, NextIInv, PTL DEF Spec

\* A complete phase gets no more records.
THEOREM CompletePhasesAreFinal ==
    ASSUME OneThread, OneStream, OneWay
    PROVE  Spec => []CompleteIsFinal
  <1>1. IInv => CompleteIsFinal
    BY DEF IInv
  <1> QED
    BY <1>1, Invariance, PTL

\* A record that has been delivered stays where somebody finds it.
THEOREM NoRecordIsLost ==
    ASSUME OneThread, OneStream, OneWay
    PROVE  Spec => []NothingLost
  <1>1. IInv => NothingLost
    BY DEF IInv, TypeOK, NothingLost, RecordsKept, Kept, At
  <1> QED
    BY <1>1, Invariance, PTL

\* A part file holds all the kernels launched in its phase.
THEOREM PartFilesAreWhole ==
    ASSUME OneThread, OneStream, OneWay
    PROVE  Spec => []FilesWhole
  <1>1. IInv => FilesWhole
    BY DEF IInv
  <1> QED
    BY <1>1, Invariance, PTL

\* A part file is written once, after its phase is complete and before it is
\* cleared.
THEOREM PartFilesAreWrittenOnce ==
    ASSUME OneThread, OneStream, OneWay
    PROVE  Spec => WrittenOnce
  <1> DEFINE A == \A p \in Phases :
                     /\ Written(p) => Written(p)' /\ files'[p] = files[p]
                     /\ ~Written(p) /\ Written(p)' => p < completeBelow /\ p \in store
  <1>1. ASSUME IInv, WriteRange PROVE A
    <2>1. /\ worker.pc = "write" /\ TypeOK /\ worker.end = completeBelow /\ use.periodic
          /\ DOMAIN files = {p \in Phases : p < worker.first} /\ worker.first \in Nat
      BY <1>1 DEF WriteRange, IInv, TypeOK, WorkerInPlace, WrittenPhases, Frontier, Phases
    <2>2. \A p \in DOMAIN files : p \notin worker.first .. (worker.end - 1)
      BY <2>1 DEF TypeOK, Phases
    <2>3. \A p \in worker.first .. (worker.end - 1) : p < completeBelow
      BY <2>1 DEF TypeOK, Phases
    <2>4. \A p \in Phases : p \in worker.first .. (worker.end - 1) => p \in store
      <3>1. Frontier = worker.first /\ \A p \in Phases : worker.first <= p /\ p <= current => p \in store
        BY <1>1, <2>1 DEF IInv, StoreHoldsTheRest, Frontier
      <3> QED
        BY <2>1, <3>1 DEF TypeOK, Phases
    <2> QED
      BY <1>1, <2>2, <2>3, <2>4 DEF WriteRange, Written
  <1>2. [Next]_vars => WriteRange \/ files' = files
    BY DEF Next, vars, dataVars, EnterOp, AddOp, Launch, Advance, Flush, ClearByUser, Finish, Deliver,
           CompleteRange, ClearRange
  <1>3. IInv /\ [Next]_vars => [A]_vars
    BY <1>1, <1>2 DEF Written
  <1> QED
    BY <1>3, Invariance, PTL DEF Spec, WrittenOnce
=============================================================================
