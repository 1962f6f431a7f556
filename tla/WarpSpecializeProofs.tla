------------------------ MODULE WarpSpecializeProofs ------------------------
(***************************************************************************)
(* The worker warps follow the default group, for any kernel, any number   *)
(* of warps and any register budget.                                       *)
(*                                                                         *)
(* Nothing but barrier.cta.sync.all ties a worker to the default group, so *)
(* the invariant is which way between two barriers everybody is on, and    *)
(* what the default group has left in shared memory for that way: the      *)
(* states before the first barrier, the captures until the second.         *)
(***************************************************************************)
EXTENDS WarpSpecialize, TLAPS

Planned ==
    plan = [partitionAt |-> PartitionAt, groupRegisters |-> GroupRegisters, leftover |-> Leftover,
            withActual |-> WithActual, partitions |-> Partitioning]

Labels == DOMAIN Follows \cup Barriers \cup {"after", "exited"}

Types ==
    /\ pc \in [Actors -> Labels]
    /\ waiting \subseteq {x \in Actors : pc[x] \in Barriers} /\ waiting # Actors
    /\ op \in 1 .. Len(Kernel) + 1
    /\ states \in [Workers -> 0 .. ExitState]
    /\ captures \in Ops \cup {0} /\ got \in [Workers -> Ops \cup {0}]
    /\ part \in [Workers -> Range(plan.partitions)]

(* The ways between the barriers, and what holds on each.                  *)

Assigned(w) == <<op, plan.partitionAt[op][w]>>

\* What a worker finds when it looks for its state.
Ordered(w) == states[w] = IF op \in Ops THEN StateOf(Assigned(w)) ELSE ExitState

BetweenOps ==
    /\ pc[Default] \in {"enlarge", "store", "fork", "restore", "after"}
    /\ \A w \in Workers : pc[w] \in {"shrink", "fork", "release"}
    /\ pc[Default] \in {"restore", "after"} => op \in Ops
    /\ pc[Default] = "fork" => (\A w \in Workers : Ordered(w)) /\ (op \in Ops => captures = op)

Starting ==
    /\ pc[Default] \in {"resize", "captured"}
    /\ \A w \in Workers : pc[w] \in {"dispatch", "grow", "load", "captured"}
    /\ op \in Ops /\ captures = op
    /\ \A w \in Workers : /\ Ordered(w)
                          /\ pc[w] # "dispatch" => part[w] = Assigned(w)
                          /\ pc[w] = "captured" => got[w] = op

Inside ==
    /\ pc[Default] \in {"region", "body", "join"}
    /\ \A w \in Workers : pc[w] \in {"body", "join"}
    /\ op \in Ops
    /\ \A w \in Workers : part[w] = Assigned(w) /\ got[w] = op

Leaving ==
    /\ pc[Default] = "exited"
    /\ \A w \in Workers : pc[w] \in {"dispatch", "exited"} /\ states[w] = ExitState

IInv ==
    /\ Planned
    /\ Types
    /\ BetweenOps \/ Starting \/ Inside \/ Leaving

-----------------------------------------------------------------------------

LEMMA OpsAreCounted == Len(Kernel) \in Nat \ {0} /\ Ops = 1 .. Len(Kernel)
  BY KernelAssumption DEF Ops

LEMMA DefaultIsNoWorker == ASSUME StatesCover PROVE Default \notin Workers /\ Actors = {Default} \cup Workers
  BY DEF StatesCover, Default, Workers, Actors

LEMMA LabelsAreListed ==
    Labels = {"shrink", "dispatch", "grow", "load", "captured", "body", "join", "release", "fork",
              "enlarge", "store", "resize", "region", "restore", "after", "exited"}
  <1>1. DOMAIN Follows = {"shrink", "dispatch", "grow", "load", "body", "release", "enlarge", "store",
                          "resize", "region", "restore"}
    BY DEF Follows
  <1> QED
    BY <1>1 DEF Labels, Barriers

\* The switch takes a warp to the partition whose state it was given, and only
\* the exit state takes it out.
LEMMA StatesLead ==
    ASSUME StatesCover, Planned, NEW q \in Range(Partitioning)
    PROVE  /\ StateOf(q) \in 0 .. ExitState
           /\ StateOf(q) # ExitState
           /\ plan.partitions[StateOf(q)] = q
  <1>1. plan.partitions = Partitioning
    BY DEF Planned
  <1>2. Len(Partitioning) \in Nat /\ DOMAIN Partitioning = 1 .. Len(Partitioning)
    BY DEF StatesCover
  <1>3. \E s \in DOMAIN Partitioning : Partitioning[s] = q
    BY DEF Range
  <1>4. StateOf(q) \in DOMAIN Partitioning /\ Partitioning[StateOf(q)] = q
    BY <1>1, <1>3 DEF StateOf
  <1>5. ExitState = Len(Partitioning) + 1
    BY <1>1 DEF ExitState
  <1> QED
    BY <1>1, <1>2, <1>4, <1>5

LEMMA InitIInv ==
    ASSUME StatesCover, Init
    PROVE  IInv
  <1>1. Planned
    BY DEF Init, Planned
  <1>2. plan.partitions = Partitioning
    BY <1>1 DEF Planned
  <1>3. ExitState \in Nat
    BY <1>2 DEF ExitState, StatesCover
  <1>4. Types
    <2>1. pc \in [Actors -> Labels]
      BY LabelsAreListed DEF Init
    <2>2. waiting = {} /\ Default \in Actors
      BY DEF Init, Actors
    <2>3. op \in 1 .. Len(Kernel) + 1
      BY OpsAreCounted DEF Init
    <2>4. states \in [Workers -> 0 .. ExitState]
      BY <1>3 DEF Init
    <2>5. captures = 0 /\ got \in [Workers -> Ops \cup {0}]
      BY DEF Init
    <2>6. part \in [Workers -> Range(plan.partitions)]
      BY <1>2 DEF Init, StatesCover
    <2> QED
      BY <2>1, <2>2, <2>3, <2>4, <2>5, <2>6 DEF Types
  <1>5. BetweenOps
    BY DefaultIsNoWorker DEF Init, BetweenOps
  <1> QED
    BY <1>1, <1>4, <1>5 DEF IInv

\* Actors that are on the way to the same barrier come to it together.
LEMMA OneBarrier ==
    ASSUME StatesCover, IInv, NEW x \in Actors, NEW y \in Actors, pc[x] \in Barriers, pc[y] \in Barriers
    PROVE  pc[x] = pc[y]
  BY DefaultIsNoWorker DEF IInv, BetweenOps, Starting, Inside, Leaving, Barriers

LEMMA InStep ==
    ASSUME StatesCover, IInv
    PROVE  WorkersInStep
  <1>1. TypeOK
    BY DEF IInv, Types, TypeOK, Labels
  <1>2. \A x, y \in waiting : pc[x] = pc[y]
    BY OneBarrier DEF IInv, Types
  <1>3. ASSUME NEW w \in Workers, pc[w] = "body"
        PROVE  /\ part[w] = <<op, plan.partitionAt[op][w]>>
               /\ got[w] = op
               /\ pc[Default] \in {"region", "body", "join"}
    BY <1>3 DEF IInv, BetweenOps, Starting, Inside, Leaving, Assigned
  <1> QED
    BY <1>1, <1>2, <1>3 DEF WorkersInStep

-----------------------------------------------------------------------------
(* The steps                                                               *)

\* One actor goes on to the label that follows, and is not at a barrier before.
LEMMA MoveTypes ==
    ASSUME StatesCover, IInv, NEW x \in Actors, NEW label \in DOMAIN Follows \ Barriers, At(x, label)
    PROVE  /\ pc[x] = label /\ pc'[x] = Follows[label]
           /\ \A y \in Actors : y # x => pc'[y] = pc[y]
           /\ pc' \in [Actors -> Labels]
           /\ waiting \subseteq {y \in Actors : pc'[y] \in Barriers}
  <1>1. pc \in [Actors -> Labels] /\ waiting \subseteq {y \in Actors : pc[y] \in Barriers}
    BY DEF IInv, Types
  <1>2. pc[x] = label /\ pc' = [pc EXCEPT ![x] = Follows[label]]
    BY DEF At
  <1>3. Follows[label] \in Labels
    BY LabelsAreListed DEF Follows
  <1> QED
    BY <1>1, <1>2, <1>3

\* What does not touch the plan, the registers in shared memory and the
\* workers' own keeps its types.
LEMMA KeptTypes ==
    ASSUME StatesCover, IInv, UNCHANGED <<plan, waiting, op, states, captures, part, got>>,
           pc' \in [Actors -> Labels], waiting \subseteq {y \in Actors : pc'[y] \in Barriers}
    PROVE  Planned' /\ Types'
  BY DEF IInv, Planned, Types, ExitState

\* A move between two barriers, or up to one, that changes nothing a worker is
\* sent or has read.
LEMMA QuietMove ==
    ASSUME StatesCover, IInv, NEW x \in Actors,
           NEW label \in {"shrink", "release", "enlarge", "restore", "grow", "resize", "body"}, At(x, label),
           UNCHANGED <<plan, waiting, op, states, captures, part, got>>
    PROVE  IInv'
  <1>1. label \in DOMAIN Follows \ Barriers
    BY DEF Follows, Barriers
  <1>2. /\ pc[x] = label /\ pc'[x] = Follows[label]
        /\ \A y \in Actors : y # x => pc'[y] = pc[y]
        /\ pc' \in [Actors -> Labels]
        /\ waiting \subseteq {y \in Actors : pc'[y] \in Barriers}
    BY <1>1, MoveTypes
  <1>3. Planned' /\ Types'
    BY <1>2, KeptTypes
  <1>4. /\ Follows.shrink = "fork" /\ Follows.release = "shrink" /\ Follows.enlarge = "store"
        /\ Follows.restore = "after" /\ Follows.grow = "load" /\ Follows.resize = "captured" /\ Follows.body = "join"
    BY DEF Follows
  <1>5. \A w \in Workers : (Ordered(w) <=> Ordered(w)') /\ Assigned(w)' = Assigned(w)
    BY DEF Ordered, Assigned, StateOf, ExitState
  <1>6. ExitState' = ExitState
    BY DEF ExitState
  <1>7. CASE BetweenOps
    <2>1. BetweenOps'
      BY <1>2, <1>4, <1>5, <1>7, DefaultIsNoWorker DEF BetweenOps
    <2> QED
      BY <1>3, <2>1 DEF IInv
  <1>8. CASE Starting
    <2>1. Starting'
      BY <1>2, <1>4, <1>5, <1>8, DefaultIsNoWorker DEF Starting
    <2> QED
      BY <1>3, <2>1 DEF IInv
  <1>9. CASE Inside
    <2>1. Inside'
      BY <1>2, <1>4, <1>5, <1>9, DefaultIsNoWorker DEF Inside
    <2> QED
      BY <1>3, <2>1 DEF IInv
  <1>10. CASE Leaving
    BY <1>2, <1>10, DefaultIsNoWorker DEF Leaving
  <1> QED
    BY <1>7, <1>8, <1>9, <1>10 DEF IInv

LEMMA ReallocateKeeps ==
    ASSUME StatesCover, IInv, NEW x \in Actors, Reallocate(x)
    PROVE  IInv'
  <1>1. PICK label \in {"shrink", "release", "enlarge", "restore", "grow", "resize"} : At(x, label)
    BY DEF Reallocate
  <1>2. UNCHANGED <<plan, waiting, op, states, captures, part, got>>
    BY DEF Reallocate, SetMaxRegisters
  <1> QED
    BY <1>1, <1>2, QuietMove

\* The last to come finds everybody at the same barrier, and all go on to the
\* same way.
LEMMA ArriveKeeps ==
    ASSUME StatesCover, IInv, NEW x \in Actors, Arrive(x)
    PROVE  IInv'
  <1>1. /\ pc[x] \in Barriers /\ x \notin waiting
        /\ UNCHANGED <<plan, op, states, captures, part, got>>
    BY DEF Arrive
  <1>2. ExitState' = ExitState /\ \A w \in Workers : (Ordered(w) <=> Ordered(w)') /\ Assigned(w)' = Assigned(w)
    BY <1>1 DEF Ordered, Assigned, StateOf, ExitState
  <1>3. CASE waiting \cup {x} # Actors
    <2>1. waiting' = waiting \cup {x} /\ pc' = pc
      BY <1>3 DEF Arrive
    <2>2. Planned' /\ Types'
      BY <1>1, <1>2, <1>3, <2>1 DEF IInv, Planned, Types
    <2>3. BetweenOps' \/ Starting' \/ Inside' \/ Leaving'
      BY <1>1, <1>2, <2>1 DEF IInv, BetweenOps, Starting, Inside, Leaving
    <2> QED
      BY <2>2, <2>3 DEF IInv
  <1>4. CASE waiting \cup {x} = Actors
    <2>1. waiting' = {} /\ pc' = [y \in Actors |-> Released(y)]
      BY <1>4 DEF Arrive
    <2>2. \A y \in Actors : pc[y] \in Barriers
      BY <1>1, <1>4 DEF IInv, Types
    <2>3. PICK barrier \in Barriers : \A y \in Actors : pc[y] = barrier
      BY <2>2, OneBarrier
    <2>4. /\ barrier = "fork" => \A y \in Actors :
                pc'[y] = IF y # Default THEN "dispatch" ELSE IF op \in Ops THEN "resize" ELSE "exited"
          /\ barrier = "captured" => \A y \in Actors : pc'[y] = IF y # Default THEN "body" ELSE "region"
          /\ barrier = "join" => \A y \in Actors : pc'[y] = IF y # Default THEN "release" ELSE "restore"
      BY <2>1, <2>3 DEF Released
    <2>5. barrier \in {"fork", "captured", "join"}
      BY DEF Barriers
    <2>6. pc' \in [Actors -> Labels]
      BY <2>1, <2>4, <2>5, LabelsAreListed
    <2>7. Planned' /\ Types'
      BY <1>1, <1>2, <2>1, <2>6, DefaultIsNoWorker DEF IInv, Planned, Types
    <2>8. CASE barrier = "fork"
      <3>1. BetweenOps /\ pc[Default] = "fork"
        BY <2>3, <2>8, DefaultIsNoWorker DEF IInv, BetweenOps, Starting, Inside, Leaving
      <3>2. op \in Ops => Starting'
        BY <1>1, <1>2, <2>4, <2>8, <3>1, DefaultIsNoWorker DEF BetweenOps, Starting
      <3>3. op \notin Ops => Leaving'
        BY <1>1, <1>2, <2>4, <2>8, <3>1, DefaultIsNoWorker DEF BetweenOps, Leaving, Ordered
      <3> QED
        BY <2>7, <3>2, <3>3 DEF IInv
    <2>9. CASE barrier = "captured"
      <3>1. Starting /\ \A w \in Workers : pc[w] = "captured"
        BY <2>3, <2>9, DefaultIsNoWorker DEF IInv, BetweenOps, Starting, Inside, Leaving
      <3>2. Inside'
        BY <1>1, <1>2, <2>4, <2>9, <3>1, DefaultIsNoWorker DEF Starting, Inside
      <3> QED
        BY <2>7, <3>2 DEF IInv
    <2>10. CASE barrier = "join"
      <3>1. Inside
        BY <2>3, <2>10, DefaultIsNoWorker DEF IInv, BetweenOps, Starting, Inside, Leaving
      <3>2. BetweenOps'
        BY <1>1, <1>2, <2>4, <2>10, <3>1, DefaultIsNoWorker DEF BetweenOps, Inside
      <3> QED
        BY <2>7, <3>2 DEF IInv
    <2> QED
      BY <2>5, <2>8, <2>9, <2>10
  <1> QED
    BY <1>3, <1>4

\* A worker finds its state: that of its partition, or the exit.
LEMMA DispatchKeeps ==
    ASSUME StatesCover, IInv, NEW w \in Workers, Dispatch(w)
    PROVE  IInv'
  <1>1. UNCHANGED <<plan, waiting, op, states, captures, got>>
    BY DEF Dispatch
  <1>2. ExitState' = ExitState /\ \A v \in Workers : (Ordered(v) <=> Ordered(v)') /\ Assigned(v)' = Assigned(v)
    BY <1>1 DEF Ordered, Assigned, StateOf, ExitState
  <1>3. pc[w] = "dispatch" /\ w # Default /\ w \in Actors
    BY DefaultIsNoWorker DEF Dispatch, At
  <1>4. Planned /\ Types
    BY DEF IInv
  <1>5. CASE states[w] = ExitState
    <2>1. pc' = [pc EXCEPT ![w] = "exited"] /\ part' = part
      BY <1>5 DEF Dispatch
    <2>2. Leaving
      <3>1. SUFFICES ASSUME Starting PROVE FALSE
        BY <1>3 DEF IInv, BetweenOps, Inside
      <3>2. states[w] = StateOf(Assigned(w))
        BY <3>1 DEF Starting, Ordered
      <3>3. Assigned(w) \in Range(Partitioning)
        BY <3>1, <1>4 DEF Starting, Assigned, StatesCover, Planned
      <3> QED
        BY <1>4, <1>5, <3>2, <3>3, StatesLead
    <2>3. Planned' /\ Types'
      BY <1>1, <1>2, <1>3, <1>4, <2>1, LabelsAreListed DEF Planned, Types, Barriers
    <2>4. Leaving'
      BY <1>1, <1>2, <1>3, <1>4, <2>1, <2>2, DefaultIsNoWorker DEF Leaving, Types
    <2> QED
      BY <2>3, <2>4 DEF IInv
  <1>6. CASE states[w] # ExitState
    <2>1. At(w, "dispatch") /\ part' = [part EXCEPT ![w] = plan.partitions[states[w]]]
      BY <1>6 DEF Dispatch
    <2>2. Starting
      BY <1>3, <1>6 DEF IInv, BetweenOps, Inside, Leaving
    <2>3. states[w] = StateOf(Assigned(w))
      BY <2>2 DEF Starting, Ordered
    <2>4. Assigned(w) \in Range(Partitioning)
      BY <2>2, <1>4 DEF Starting, Assigned, StatesCover, Planned
    <2>5. plan.partitions[states[w]] = Assigned(w)
      BY <1>4, <2>3, <2>4, StatesLead
    <2>6. "dispatch" \in DOMAIN Follows \ Barriers /\ Follows["dispatch"] = "grow"
      BY DEF Follows, Barriers
    <2>7. /\ pc'[w] = "grow" /\ \A y \in Actors : y # w => pc'[y] = pc[y]
          /\ pc' \in [Actors -> Labels] /\ waiting \subseteq {y \in Actors : pc'[y] \in Barriers}
      BY <1>3, <2>1, <2>6, MoveTypes
    <2>8. part \in [Workers -> Range(plan.partitions)] /\ plan.partitions = Partitioning
      BY <1>4 DEF Types, Planned
    <2>9. part' \in [Workers -> Range(plan.partitions)]
      BY <2>1, <2>4, <2>5, <2>8
    <2>10. Planned' /\ Types'
      BY <1>1, <1>2, <1>4, <2>7, <2>9 DEF Planned, Types
    <2>11. Starting'
      BY <1>1, <1>2, <2>1, <2>2, <2>5, <2>7, <2>8, DefaultIsNoWorker DEF Starting
    <2> QED
      BY <2>10, <2>11 DEF IInv
  <1> QED
    BY <1>5, <1>6

\* The captures that a worker reads are those of the operation.
LEMMA LoadCapturesKeeps ==
    ASSUME StatesCover, IInv, NEW w \in Workers, LoadCaptures(w)
    PROVE  IInv'
  <1>1. /\ At(w, "load") /\ got' = [got EXCEPT ![w] = captures]
        /\ UNCHANGED <<plan, waiting, op, states, captures, part>>
    BY DEF LoadCaptures
  <1>2. ExitState' = ExitState /\ \A v \in Workers : (Ordered(v) <=> Ordered(v)') /\ Assigned(v)' = Assigned(v)
    BY <1>1 DEF Ordered, Assigned, StateOf, ExitState
  <1>3. pc[w] = "load" /\ w # Default /\ w \in Actors
    BY <1>1, DefaultIsNoWorker DEF At
  <1>4. Planned /\ Types
    BY DEF IInv
  <1>5. "load" \in DOMAIN Follows \ Barriers /\ Follows["load"] = "captured"
    BY DEF Follows, Barriers
  <1>6. /\ pc'[w] = "captured" /\ \A y \in Actors : y # w => pc'[y] = pc[y]
        /\ pc' \in [Actors -> Labels] /\ waiting \subseteq {y \in Actors : pc'[y] \in Barriers}
    BY <1>1, <1>3, <1>5, MoveTypes
  <1>7. Planned' /\ Types'
    BY <1>1, <1>2, <1>4, <1>6 DEF Planned, Types
  <1>8. Starting
    BY <1>3 DEF IInv, BetweenOps, Inside, Leaving
  <1>9. got \in [Workers -> Ops \cup {0}]
    BY <1>4 DEF Types
  <1>10. Starting'
    BY <1>1, <1>2, <1>3, <1>6, <1>8, <1>9, DefaultIsNoWorker DEF Starting
  <1> QED
    BY <1>7, <1>10 DEF IInv

LEMMA LeavesKeep ==
    ASSUME StatesCover, IInv, (\E w \in Workers : LeaveBody(w)) \/ LeaveRegion
    PROVE  IInv'
  <1>1. PICK x \in Actors : At(x, "body")
    BY DefaultIsNoWorker DEF LeaveBody, LeaveRegion
  <1>2. UNCHANGED <<plan, waiting, op, states, captures, part, got>>
    BY DEF LeaveBody, LeaveRegion
  <1> QED
    BY <1>1, <1>2, QuietMove

\* Before an operation every worker is told its partition of it, and after the
\* last one to go home.
LEMMA StoreStatesKeeps ==
    ASSUME StatesCover, IInv, StoreStates
    PROVE  IInv'
  <1>1. At(Default, "store") /\ UNCHANGED <<plan, waiting, op, part, got>>
    BY DEF StoreStates
  <1>2. /\ op \in Ops => captures' = op /\ states' = [w \in Workers |-> StateOf(<<op, plan.partitionAt[op][w]>>)]
        /\ op \notin Ops => captures' = captures /\ states' = [w \in Workers |-> ExitState]
    BY DEF StoreStates
  <1>3. Planned /\ Types
    BY DEF IInv
  <1>4. "store" \in DOMAIN Follows \ Barriers /\ Follows["store"] = "fork" /\ Default \in Actors
    BY DefaultIsNoWorker DEF Follows, Barriers
  <1>5. /\ pc[Default] = "store" /\ pc'[Default] = "fork" /\ \A y \in Actors : y # Default => pc'[y] = pc[y]
        /\ pc' \in [Actors -> Labels] /\ waiting \subseteq {y \in Actors : pc'[y] \in Barriers}
    BY <1>1, <1>4, MoveTypes
  <1>6. ExitState' = ExitState /\ ExitState \in Nat
    <2>1. plan.partitions = Partitioning
      BY <1>3 DEF Planned
    <2> QED
      BY <1>1, <2>1 DEF ExitState, StatesCover
  <1>7. op \in Ops => \A w \in Workers : StateOf(<<op, plan.partitionAt[op][w]>>) \in 0 .. ExitState
    <2>1. plan.partitionAt = PartitionAt
      BY <1>3 DEF Planned
    <2>2. op \in Ops => \A w \in Workers : <<op, plan.partitionAt[op][w]>> \in Range(Partitioning)
      BY <2>1 DEF StatesCover
    <2> QED
      BY <1>3, <2>2, StatesLead
  <1>8. states' \in [Workers -> 0 .. ExitState]
    <2>1. CASE op \in Ops
      BY <1>2, <1>7, <2>1
    <2>2. CASE op \notin Ops
      <3>1. ExitState \in 0 .. ExitState
        BY <1>6
      <3> QED
        BY <1>2, <2>2, <3>1
    <2> QED
      BY <2>1, <2>2
  <1>9. captures' \in Ops \cup {0}
    BY <1>2, <1>3 DEF Types
  <1>10. Planned' /\ Types'
    BY <1>1, <1>3, <1>5, <1>6, <1>8, <1>9 DEF Planned, Types
  <1>11. \A w \in Workers : Ordered(w)'
    BY <1>1, <1>2, <1>6 DEF Ordered, Assigned, StateOf
  <1>12. BetweenOps
    BY <1>5 DEF IInv, Starting, Inside, Leaving
  <1>13. BetweenOps'
    BY <1>1, <1>2, <1>5, <1>11, <1>12, DefaultIsNoWorker DEF BetweenOps
  <1> QED
    BY <1>10, <1>13 DEF IInv

LEMMA EnterRegionKeeps ==
    ASSUME StatesCover, IInv, EnterRegion
    PROVE  IInv'
  <1>1. At(Default, "region") /\ captures' = 0 /\ UNCHANGED <<plan, waiting, op, states, part, got>>
    BY DEF EnterRegion
  <1>2. "region" \in DOMAIN Follows \ Barriers /\ Follows["region"] = "body" /\ Default \in Actors
    BY DefaultIsNoWorker DEF Follows, Barriers
  <1>3. /\ pc[Default] = "region" /\ pc'[Default] = "body" /\ \A y \in Actors : y # Default => pc'[y] = pc[y]
        /\ pc' \in [Actors -> Labels] /\ waiting \subseteq {y \in Actors : pc'[y] \in Barriers}
    BY <1>1, <1>2, MoveTypes
  <1>4. Planned' /\ Types'
    BY <1>1, <1>3 DEF IInv, Planned, Types, ExitState
  <1>5. Inside
    BY <1>3 DEF IInv, BetweenOps, Starting, Leaving
  <1>6. Inside'
    BY <1>1, <1>3, <1>5, DefaultIsNoWorker DEF Inside, Assigned
  <1> QED
    BY <1>4, <1>6 DEF IInv

LEMMA AfterOpKeeps ==
    ASSUME StatesCover, IInv, AfterOp
    PROVE  IInv'
  <1>1. /\ pc[Default] = "after" /\ pc' = [pc EXCEPT ![Default] = "store"] /\ op' = op + 1
        /\ UNCHANGED <<plan, waiting, states, captures, part, got>>
    BY DEF AfterOp
  <1>2. Planned /\ Types
    BY DEF IInv
  <1>3. BetweenOps
    BY <1>1 DEF IInv, Starting, Inside, Leaving
  <1>4. op \in Ops
    BY <1>1, <1>3 DEF BetweenOps
  <1>5. op' \in 1 .. Len(Kernel) + 1
    BY <1>1, <1>4, OpsAreCounted
  <1>6. pc' \in [Actors -> Labels] /\ pc'[Default] = "store" /\ \A w \in Workers : pc'[w] = pc[w]
    BY <1>1, <1>2, DefaultIsNoWorker, LabelsAreListed DEF Types
  <1>7. waiting \subseteq {y \in Actors : pc'[y] \in Barriers}
    BY <1>1, <1>2, <1>6, DefaultIsNoWorker DEF Types, Barriers
  <1>8. Planned' /\ Types'
    BY <1>1, <1>2, <1>5, <1>6, <1>7 DEF Planned, Types, ExitState
  <1>9. BetweenOps'
    BY <1>3, <1>6 DEF BetweenOps
  <1> QED
    BY <1>8, <1>9 DEF IInv

LEMMA StutterKeeps ==
    ASSUME IInv, UNCHANGED warpVars
    PROVE  IInv'
  BY DEF IInv, warpVars, Planned, Types, BetweenOps, Starting, Inside, Leaving, Ordered, Assigned,
         StateOf, ExitState

LEMMA NextIInv ==
    ASSUME StatesCover, IInv, [Next]_vars
    PROVE  IInv'
  <1>1. ASSUME NEW x \in Actors, Arrive(x) \/ Reallocate(x) PROVE IInv'
    BY <1>1, ArriveKeeps, ReallocateKeeps
  <1>2. ASSUME NEW w \in Workers, Dispatch(w) \/ LoadCaptures(w) PROVE IInv'
    BY <1>2, DispatchKeeps, LoadCapturesKeeps
  <1>3. ASSUME (\E w \in Workers : LeaveBody(w)) \/ LeaveRegion PROVE IInv'
    BY <1>3, LeavesKeep
  <1>4. ASSUME NEW p \in Partitions, RunPartition(p) \/ RunRegion(p) PROVE UNCHANGED warpVars
    BY <1>4 DEF RunPartition, RunRegion
  <1>5. ASSUME Ended \/ UNCHANGED vars PROVE UNCHANGED warpVars
    BY <1>5 DEF Ended, vars
  <1> QED
    BY <1>1, <1>2, <1>3, <1>4, <1>5, StoreStatesKeeps, EnterRegionKeeps, AfterOpKeeps, StutterKeeps DEF Next

\* Between two barriers everybody is on the same way, and what is in shared
\* memory is for the operation that way leads into.
THEOREM Invariance == ASSUME StatesCover PROVE Spec => []IInv
  <1>1. Init => IInv
    BY InitIInv
  <1>2. IInv /\ [Next]_vars => IInv'
    BY NextIInv
  <1> QED
    BY <1>1, <1>2, PTL DEF Spec

\* A worker that runs a body was sent to it for the operation the default group
\* is in, with its captures, and actors at the barrier have come for the same
\* reason (lowerWarpSpecializeCommon, rewritePartitionRegions).
THEOREM WorkersFollow == ASSUME StatesCover PROVE Spec => []WorkersInStep
  <1>1. IInv => WorkersInStep
    BY InStep
  <1> QED
    BY <1>1, Invariance, PTL
=============================================================================
