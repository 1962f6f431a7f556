--------------------------- MODULE WarpSpecialize ---------------------------
(***************************************************************************)
(* A kernel with warp_specialize operations as it runs: which warps and    *)
(* registers a partition gets (AllocateWarpGroups.cpp), the loop in which  *)
(* the worker warps wait for their next partition                          *)
(* (WarpSpecializeUtility.cpp, ConvertWarpSpecializeToLLVM.cpp), and the   *)
(* bodies of the partitions (Aref).                                        *)
(*                                                                         *)
(* The warps of the default group act as one; every worker warp takes its  *)
(* own steps, except that the warps of a partition execute its body        *)
(* together.  Kernel is the sequence of operations the default group       *)
(* comes to.  barrier.cta.sync.all lets nobody go before everybody came.   *)
(***************************************************************************)
EXTENDS Aref, Functions, SequencesExt

CONSTANTS
    Kernel,          \* Kernel[k]: numWarps and requestedRegisters of each partition
    DefaultWarps,    \* lookupNumWarps
    WarpGroupSize,   \* 4: warps are added by the warp group
    MaxNReg          \* ttg.maxnreg: registers of a thread at the start

Ops == DOMAIN Kernel

\* Registers are in steps of 8; a partition without aref operations has no trace.
ASSUME KernelAssumption ==
    /\ Kernel \in Seq([numWarps : Seq(Nat \ {0}), requestedRegisters : Seq(Nat)]) /\ Kernel # <<>>
    /\ \A k \in Ops : Len(Kernel[k].requestedRegisters) = Len(Kernel[k].numWarps)
    /\ DefaultWarps \in Nat \ {0} /\ WarpGroupSize \in Nat \ {0} /\ MaxNReg \in Nat
    /\ Partitions \subseteq {<<k, i>> : k \in Ops, i \in 0 .. Max({Len(Kernel[j].numWarps) : j \in Ops})}

-----------------------------------------------------------------------------
(* AllocateWarpGroups                                                      *)

Total(seq) == FoldLeft(+, 0, seq)
RoundUp(n, unit) == ((n + unit - 1) \div unit) * unit
RoundDown(n, unit) == (n \div unit) * unit

WorkerWarps == RoundUp(Max({Total(Kernel[k].numWarps) : k \in Ops}), WarpGroupSize)
Workers == 1 .. WorkerWarps

\* padToMaxWarpGroups: powers of two, the largest first, fill every operation up.
PowerBelow(n) == Max({p \in {2 ^ e : e \in 0 .. n} : p <= n})
Padding[n \in 0 .. WorkerWarps] == IF n = 0 THEN <<>> ELSE <<PowerBelow(n)>> \o Padding[n - PowerBelow(n)]
PaddingOf(k) == Padding[WorkerWarps - Total(Kernel[k].numWarps)]

NumWarps == [k \in Ops |-> Kernel[k].numWarps \o PaddingOf(k)]
Requested == [k \in Ops |-> Kernel[k].requestedRegisters \o [i \in DOMAIN PaddingOf(k) |-> 16]]

\* warpGroupStartIds: larger partitions come first.  The partition of each
\* worker warp of operation k.
PartitionAt ==
    [k \in Ops |->
        LET larger(i, j) == NumWarps[k][i] > NumWarps[k][j] \/ (NumWarps[k][i] = NumWarps[k][j] /\ i < j)
            ordered == SetToSortSeq(DOMAIN NumWarps[k], larger) IN
        FlattenSeq([n \in DOMAIN ordered |-> [w \in 1 .. NumWarps[k][ordered[n]] |-> ordered[n]]])]

WarpGroup(w) == {v \in Workers : (v - 1) \div WarpGroupSize = (w - 1) \div WarpGroupSize}

\* Slip: what the partitions ask for is taken as it is.
UnroundedGroupRegisters ==
    [k \in Ops |-> [w \in Workers |-> Max({Requested[k][PartitionAt[k][v]] : v \in WarpGroup(w)})]]

\* The registers of a warp group are the most that one of its partitions asks.
GroupRegisters ==
    [k \in Ops |-> [w \in Workers |->
        Max({RoundUp(Requested[k][PartitionAt[k][v]], 8) : v \in WarpGroup(w)})]]

RegisterBudget ==
    [k \in Ops |-> MaxNReg * DefaultWarps
                     + SumFunction([w \in Workers |-> MaxNReg - GroupRegisters[k][w]])]

\* What is left for the default group.
Leftover == [k \in Ops |-> RoundDown(RegisterBudget[k] \div DefaultWarps, 8)]

\* The operations that get actual registers; the others keep what they have.
WithActual == {k \in Ops : RegisterBudget[k] > 0 /\ Leftover[k] >= 24}

\* partitionStateCounter numbers the partitions of all operations from 0, and
\* ends as the state that sends a warp home.
Partitioning == FlattenSeq([k \in Ops |-> [i \in DOMAIN NumWarps[k] |-> <<k, i>>]])

\* What the layout of the partitions promises to the switch: the states number
\* the partitions, and the one that a worker warp gets of an operation has a
\* state (lowerWarpSpecializeCommon takes both from the same attributes).
StatesCover ==
    /\ WorkerWarps \in Nat
    /\ Partitioning \in Seq(Ops \X Nat)
    /\ \A k \in Ops : \A w \in Workers : <<k, PartitionAt[k][w]>> \in Range(Partitioning)
    /\ Workers # {} => <<1, 1>> \in Range(Partitioning)

-----------------------------------------------------------------------------
(* Registers: lowerWarpSpecialize and createRegRealloc                     *)

AtMost256(n) == Min({n, 256})
GivenUp == RoundDown(MaxNReg + ((MaxNReg - 24) * WorkerWarps) \div DefaultWarps, 8)
DefRegs == AtMost256(GivenUp)
LowRegs == IF GivenUp <= 256 THEN 24
           ELSE RoundDown(MaxNReg - ((256 - MaxNReg) * DefaultWarps) \div WorkerWarps, 8)

-----------------------------------------------------------------------------
VARIABLES
    plan,      \* what the passes fixed: start IDs, actual registers, state IDs
    pc,        \* where each actor is, see Follows
    waiting,   \* the actors that have arrived at the barrier
    op,        \* the operation the default group is at, or comes to next
    states,    \* the state ID of each worker warp, in shared memory
    captures,  \* whose captures are in shared memory, 0 when it is reused
    part,      \* part[w]: the partition worker w was sent to
    got,       \* got[w]: whose captures it has read
    regs       \* registers per thread of each actor

warpVars == <<plan, pc, waiting, op, states, captures, part, got, regs>>
vars == <<arefVars, warpVars>>

Default == 0
Actors == {Default} \cup Workers

\* The switch: state IDs from 1 to partitions, and those of a partition.
ExitState == Len(plan.partitions) + 1
StateOf(q) == CHOOSE state \in DOMAIN plan.partitions : plan.partitions[state] = q
Warps(q) == {w \in Workers : plan.partitionAt[q[1]][w] = q[2]}

\* Slip: the barrier that keeps the captures until they are read is left out.
HastyFollows ==
    [ shrink |-> "fork", dispatch |-> "grow", grow |-> "load", load |-> "body", join |-> "release",
      release |-> "shrink", body |-> "join",
      enlarge |-> "store", store |-> "fork", resize |-> "region", region |-> "body", restore |-> "after" ]

\* What follows each step of a worker warp (first two lines) and of the default
\* group.  The steps fork, captured and join are the barriers.
Follows ==
    [ shrink |-> "fork", dispatch |-> "grow", grow |-> "load", load |-> "captured", body |-> "join",
      release |-> "shrink",
      enlarge |-> "store", store |-> "fork", resize |-> "captured", region |-> "body", restore |-> "after" ]

Barriers == {"fork", "captured", "join"}

\* Where an actor goes when the barrier lets it.
Released(x) ==
    CASE pc[x] = "fork"     -> IF x # Default THEN "dispatch" ELSE IF op \in Ops THEN "resize" ELSE "exited"
      [] pc[x] = "captured" -> IF x # Default THEN "body" ELSE "region"
      [] pc[x] = "join"     -> IF x # Default THEN "release" ELSE "restore"

Init ==
    /\ ArefInit
    /\ plan = [partitionAt |-> PartitionAt, groupRegisters |-> GroupRegisters, leftover |-> Leftover,
               withActual |-> WithActual, partitions |-> Partitioning]
    /\ pc = [x \in Actors |-> IF x = Default THEN "enlarge" ELSE "shrink"]
    /\ waiting = {}
    /\ op = 1
    /\ states = [w \in Workers |-> 0]
    /\ captures = 0
    /\ part = [w \in Workers |-> <<1, 1>>]
    /\ got = [w \in Workers |-> 0]
    /\ regs = [x \in Actors |-> MaxNReg]

At(x, label) == pc[x] = label /\ pc' = [pc EXCEPT ![x] = Follows[label]]

\* createAllBarrier: the last one to come lets everybody go.
Arrive(x) ==
    /\ pc[x] \in Barriers /\ x \notin waiting
    /\ IF waiting \cup {x} = Actors
       THEN waiting' = {} /\ pc' = [y \in Actors |-> Released(y)]
       ELSE waiting' = waiting \cup {x} /\ UNCHANGED pc
    /\ UNCHANGED <<arefVars, plan, op, states, captures, part, got, regs>>

Size(x) == IF x = Default THEN DefaultWarps ELSE 1
Free == MaxNReg * (DefaultWarps + WorkerWarps) - SumFunction([x \in Actors |-> Size(x) * regs[x]])

\* setmaxnreg, which blocks while the registers it asks for are not free.
SetMaxRegisters(x, n) ==
    /\ Size(x) * (AtMost256(n) - regs[x]) <= Free
    /\ regs' = [regs EXCEPT ![x] = AtMost256(n)]
    /\ UNCHANGED <<arefVars, plan, waiting, op, states, captures, part, got>>

\* maxnreg is an attribute of the module as soon as one operation has registers.
SomeActual == plan.withActual # {}

\* reallocRegisters in its phases: SwitchLoopStart, WorkerPartitionStart and
\* -End, the default group's entry, DefaultPartitionStart and -End.
Reallocate(x) ==
    LET actual(n, otherwise) ==
            LET k == IF x = Default THEN op ELSE part[x][1] IN
            IF k \in plan.withActual THEN n ELSE otherwise IN
    \/ At(x, "shrink") /\ SetMaxRegisters(x, IF SomeActual THEN LowRegs ELSE regs[x])
    \/ At(x, "grow") /\ SetMaxRegisters(x, actual(plan.groupRegisters[part[x][1]][x], regs[x]))
    \/ At(x, "release") /\ SetMaxRegisters(x, actual(LowRegs, regs[x]))
    \/ At(x, "enlarge") /\ SetMaxRegisters(x, IF SomeActual THEN DefRegs ELSE regs[x])
    \/ At(x, "resize") /\ SetMaxRegisters(x, actual(plan.leftover[op], regs[x]))
    \/ At(x, "restore") /\ SetMaxRegisters(x, actual(DefRegs, regs[x]))

\* The switch on the warp's state byte.
Dispatch(w) ==
    /\ IF states[w] = ExitState
       THEN /\ pc[w] = "dispatch" /\ pc' = [pc EXCEPT ![w] = "exited"]
            /\ UNCHANGED part
       ELSE /\ At(w, "dispatch")
            /\ part' = [part EXCEPT ![w] = plan.partitions[states[w]]]
    /\ UNCHANGED <<arefVars, plan, waiting, op, states, captures, got, regs>>

\* rewritePartitionRegions: the captures are loaded.
LoadCaptures(w) ==
    /\ At(w, "load")
    /\ got' = [got EXCEPT ![w] = captures]
    /\ UNCHANGED <<arefVars, plan, waiting, op, states, captures, part, regs>>

HasBody(p) == p \in Partitions

\* A partition's warps run its body together.
RunPartition(p) ==
    /\ p[2] # 0 /\ p[1] = op
    /\ \A w \in Warps(p) : pc[w] = "body"
    /\ PartitionStep(p)
    /\ UNCHANGED warpVars

LeaveBody(w) ==
    /\ HasBody(part[w]) => BodyDone(part[w])
    /\ At(w, "body")
    /\ UNCHANGED <<arefVars, plan, waiting, op, states, captures, part, got, regs>>

\* The mbarriers of the operation the default group is at.
ArefsOf(k) == {a \in Arefs : \E p \in Users(a) : p[1] = k}

\* The default group before an operation: mbarriers, states and captures; and
\* before it returns: the exit state for every worker.
StoreStates ==
    /\ At(Default, "store")
    /\ IF op \in Ops
       THEN /\ states' = [w \in Workers |-> StateOf(<<op, plan.partitionAt[op][w]>>)]
            /\ captures' = op
            /\ InitBarriers(ArefsOf(op))
       ELSE /\ states' = [w \in Workers |-> ExitState]
            /\ UNCHANGED <<captures, barVars>>
    /\ UNCHANGED <<progVars, asyncVars, entered, arrived, plan, waiting, op, part, got, regs>>

\* The captures' memory is free when the default region begins.
EnterRegion ==
    /\ At(Default, "region")
    /\ captures' = 0
    /\ UNCHANGED <<arefVars, plan, waiting, op, states, part, got, regs>>

RunRegion(p) ==
    /\ p = <<op, 0>> /\ pc[Default] = "body"
    /\ PartitionStep(p)
    /\ UNCHANGED warpVars

LeaveRegion ==
    /\ HasBody(<<op, 0>>) => BodyDone(<<op, 0>>)
    /\ At(Default, "body")
    /\ UNCHANGED <<arefVars, plan, waiting, op, states, captures, part, got, regs>>

\* The mbarriers are invalidated and the kernel goes on.
AfterOp ==
    /\ pc[Default] = "after" /\ pc' = [pc EXCEPT ![Default] = "store"]
    /\ InvalBarriers(ArefsOf(op))
    /\ op' = op + 1
    /\ UNCHANGED <<progVars, asyncVars, entered, arrived, plan, waiting, states, captures, part, got, regs>>

Ended == (\A x \in Actors : pc[x] = "exited") /\ UNCHANGED vars

Next ==
    \/ \E x \in Actors : Arrive(x) \/ Reallocate(x)
    \/ \E w \in Workers : Dispatch(w) \/ LoadCaptures(w) \/ LeaveBody(w)
    \/ \E p \in Partitions : RunPartition(p) \/ RunRegion(p)
    \/ StoreStates \/ EnterRegion \/ LeaveRegion \/ AfterOp
    \/ Hardware /\ UNCHANGED warpVars
    \/ Ended

Spec == Init /\ [][Next]_vars

\* The GPU never rests while something can be done.
FairSpec == Spec /\ WF_vars(Next)

-----------------------------------------------------------------------------
TypeOK ==
    /\ pc \in [Actors -> DOMAIN Follows \cup Barriers \cup {"after", "exited"}]
    /\ waiting \subseteq Actors /\ waiting # Actors
    /\ op \in 1 .. Len(Kernel) + 1
    /\ states \in [Workers -> 0 .. ExitState]
    /\ captures \in Ops \cup {0} /\ got \in [Workers -> Ops \cup {0}]
    /\ part \in [Workers -> Range(plan.partitions)]

\* A setmaxnreg asks for what the hardware takes, a multiple of eight of at most
\* 256, and the groups together have no more than the kernel was launched with.
RegistersFit ==
    /\ \A x \in Actors : regs[x] \in 0 .. 256 /\ (SomeActual => regs[x] % 8 = 0)
    /\ Free >= 0

\* The workers follow the default group: who runs a body was sent to it for the
\* operation the default region is of, with that operation's captures, and
\* actors that meet at the barrier have come for the same reason.
WorkersInStep ==
    /\ TypeOK
    /\ \A x, y \in waiting : pc[x] = pc[y]
    /\ \A w \in Workers : pc[w] = "body" =>
          /\ part[w] = <<op, plan.partitionAt[op][w]>>
          /\ got[w] = op
          /\ pc[Default] \in {"region", "body", "join"}

\* The kernel ends: no wait for a barrier, an mbarrier or registers is forever.
KernelEnds == <>(\A x \in Actors : pc[x] = "exited")
=============================================================================
