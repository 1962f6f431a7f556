------------------------------- MODULE Aref -------------------------------
(***************************************************************************)
(* The asynchronous references of a warp-specialised kernel, as two passes *)
(* leave them: AssignStagePhase.cpp gives every partition its own running  *)
(* stage and phase, LowerAref.cpp turns enters into waits on mbarriers and *)
(* exits into arrivals.  An mbarrier has one phase bit; a wait for a phase *)
(* passes while the bit is the other one, so a wait that comes two phases  *)
(* late or early is not told apart.                                        *)
(*                                                                         *)
(* A partition is the trace of its aref operations with loops unrolled and *)
(* branches taken: the loop-carried stage and phase are its state here.    *)
(* TMA loads land in any order; what a partition gives to the tensor core  *)
(* (MMAs and commits) happens in order, after the partition has gone on.   *)
(* Named p = <<k, i>>: partition i of the k-th warp_specialize, 0 the      *)
(* default region.  Content and arrived are ghosts: rounds stand for data. *)
(***************************************************************************)
EXTENDS Integers, Sequences, FiniteSets, FiniteSetsExt

CONSTANTS
    Partitions,
    Program,   \* Program[p]: the trace, see OperationType
    Arefs,
    Producers, \* Producers[a], Consumers[a]: the partitions that put and get a
    Consumers,
    Depth,     \* Depth[a]: slots, the first dimension of its buffers
    Buffers,   \* Buffers[a]: number of buffers a slot has
    AsyncOps   \* AsyncOps[a][p]: async_ops of p's exits, {} if p does not use a

Kinds == {"NONE", "WGMMA", "TC5MMA", "TMALoad"}

\* load, store and mma write a buffer of the slot of a that was entered last.
OperationType ==
    [op : {"put", "put.exit", "get", "get.exit"}, aref : Arefs]
      \cup [op : {"load", "store", "mma"}, aref : Arefs, buffer : Nat]

Operations(p) == {Program[p][i] : i \in DOMAIN Program[p]}
Performs(op, a) == {p \in Partitions : [op |-> op, aref |-> a] \in Operations(p)}
Users(a) == Producers[a] \cup Consumers[a]

\* A partition puts or gets an aref, and an entry is followed by its exit.
ASSUME ArefAssumption ==
    /\ \A p \in Partitions : Operations(p) \subseteq OperationType
    /\ \A a \in Arefs : /\ Depth[a] \in Nat \ {0} /\ Buffers[a] \in Nat \ {0}
                        /\ Producers[a] = Performs("put", a) /\ Consumers[a] = Performs("get", a)
                        /\ Producers[a] \cap Consumers[a] = {}
                        /\ \A p \in Users(a) : AsyncOps[a][p] \in (SUBSET Kinds) \ {{}}

VARIABLES
    at,        \* at[p]: how many operations of its trace p has issued
    index,     \* index[a][p]: the stage and the phase p carries for a
    tokens,    \* tokens[a][p]: entered and not exited, oldest first
    mbar,      \* mbar[a][side][stage]: phase, pending arrivals, pending loads
    live,      \* the arefs whose mbarriers are initialised
    loads,     \* TMA loads in flight
    queue,     \* queue[p]: what the tensor core has not done yet for p
    content,   \* content[a][stage][buffer]: the round whose data it holds
    entered,   \* ghost: rounds p has entered on a
    arrived    \* ghost: the <<round, kind>> of p's exits that have arrived

progVars == <<at, index, tokens>>
barVars == <<mbar, live>>
asyncVars == <<loads, queue, content>>
arefVars == <<progVars, barVars, asyncVars, entered, arrived>>

Sides == {"empty", "full"}
Stages(a) == 0 .. Depth[a] - 1

-----------------------------------------------------------------------------
(* mbarriers                                                               *)

\* Slip: one arrival for a partition, whatever its exits wait for.
PartitionCount ==
    [a \in Arefs |-> [side \in Sides |->
        Max({1, Cardinality(IF side = "full" THEN Producers[a] ELSE Consumers[a])})]]

\* getArrivalCount: one arrival for each kind of each partition's exits, and
\* never none.
Count ==
    [a \in Arefs |-> [side \in Sides |->
        LET users == IF side = "full" THEN Producers[a] ELSE Consumers[a] IN
        Max({1, Cardinality({u \in users \X Kinds : u[2] \in AsyncOps[a][u[1]]})})]]

Fresh(a, side) == [phase |-> 0, pending |-> Count[a][side], tx |-> 0]

\* A barrier with nothing pending completes its phase.
Settled(bar, a, side) ==
    IF bar.pending = 0 /\ bar.tx = 0 THEN [Fresh(a, side) EXCEPT !.phase = 1 - bar.phase] ELSE bar

Arrived(bar, a, side, n) == Settled([bar EXCEPT !.pending = @ - n], a, side)

\* WaitBarrierOp: the phase waited for is over.
Passes(a, side, i) == mbar[a][side][i.stage].phase # i.phase

\* createBarriers: InitBarrierOp for every stage before the first use, and
\* InvalBarrierOp after the operation that contains the last one.
InitBarriers(arefs) ==
    /\ live' = live \cup arefs
    /\ mbar' = [a \in Arefs |-> IF a \notin arefs THEN mbar[a]
                                ELSE [side \in Sides |-> [s \in Stages(a) |-> Fresh(a, side)]]]

InvalBarriers(arefs) == live' = live \ arefs /\ UNCHANGED mbar

-----------------------------------------------------------------------------
(* AssignStagePhase                                                        *)

\* run: a put starts with phase 0 and a get with 1, one before the first stage.
FirstIndex(a, p) == [stage |-> Depth[a] - 1, phase |-> IF p \in Producers[a] THEN 0 ELSE 1]

\* Slip: the phase flips with every enter.
FlippingNextIndex(a, i) ==
    [stage |-> IF i.stage + 1 = Depth[a] THEN 0 ELSE i.stage + 1, phase |-> 1 - i.phase]

\* assignArefIndexInBlock, at an enter.
NextIndex(a, i) ==
    IF i.stage + 1 = Depth[a] THEN [stage |-> 0, phase |-> 1 - i.phase]
    ELSE [i EXCEPT !.stage = @ + 1]

-----------------------------------------------------------------------------
ArefInit ==
    /\ at = [p \in Partitions |-> 0]
    /\ index = [a \in Arefs |-> [p \in Users(a) |-> FirstIndex(a, p)]]
    /\ tokens = [a \in Arefs |-> [p \in Users(a) |-> <<>>]]
    /\ mbar = [a \in Arefs |-> [side \in Sides |-> [s \in Stages(a) |-> Fresh(a, side)]]]
    /\ live = {}
    /\ loads = {}
    /\ queue = [p \in Partitions |-> <<>>]
    /\ content = [a \in Arefs |-> [s \in Stages(a) |-> [b \in 1 .. Buffers[a] |-> 0]]]
    /\ entered = [a \in Arefs |-> [p \in Users(a) |-> 0]]
    /\ arrived = [a \in Arefs |-> [p \in Users(a) |-> {}]]

BodyDone(p) == at[p] = Len(Program[p])
Current(p) == Program[p][at[p] + 1]
Issues(p, op) == ~BodyDone(p) /\ Current(p).op = op /\ at' = [at EXCEPT ![p] = @ + 1]

\* The slot an operation of p works on: that of the last enter.
LastSlot(a, p) == tokens[a][p][Len(tokens[a][p])]

\* The enters move the partition's index and take a token that carries it.
Enter(a, p) ==
    LET i == NextIndex(a, index[a][p]) IN
    /\ index' = [index EXCEPT ![a][p] = i]
    /\ tokens' = [tokens EXCEPT ![a][p] = Append(@, [stage |-> i.stage, round |-> entered[a][p] + 1])]
    /\ entered' = [entered EXCEPT ![a][p] = @ + 1]

\* The buffers p loads with TMA: the bytes that lowerTMALoad expects.
Loaded ==
    [a \in Arefs |-> [p \in Producers[a] |->
        {b \in 1 .. Buffers[a] : [op |-> "load", aref |-> a, buffer |-> b] \in Operations(p)}]]

\* rewritePutEnterOp: wait for the empty barrier; with TMA loads to come,
\* arrive at the full one and expect them.
PutEnter(p) ==
    LET a == Current(p).aref
        i == NextIndex(a, index[a][p]) IN
    /\ Issues(p, "put")
    /\ Passes(a, "empty", i)
    /\ Enter(a, p)
    /\ mbar' = IF "TMALoad" \notin AsyncOps[a][p] THEN mbar
               ELSE [mbar EXCEPT ![a].full[i.stage] =
                       Arrived([@ EXCEPT !.tx = @ + Cardinality(Loaded[a][p])], a, "full", 1)]
    /\ UNCHANGED <<live, asyncVars, arrived>>

\* rewriteGetEnterOp.
GetEnter(p) ==
    LET a == Current(p).aref IN
    /\ Issues(p, "get")
    /\ Passes(a, "full", NextIndex(a, index[a][p]))
    /\ Enter(a, p)
    /\ UNCHANGED <<barVars, asyncVars, arrived>>

\* AsyncTMACopyGlobalToLocalOp: the copy is on its way.
Load(p) ==
    LET op == Current(p)
        slot == LastSlot(op.aref, p) IN
    /\ Issues(p, "load")
    /\ loads' = loads \cup {[p |-> p, aref |-> op.aref, buffer |-> op.buffer, slot |-> slot]}
    /\ UNCHANGED <<index, tokens, barVars, queue, content, entered, arrived>>

\* A store of the partition's own threads.
Store(p) ==
    LET op == Current(p)
        slot == LastSlot(op.aref, p) IN
    /\ Issues(p, "store")
    /\ content' = [content EXCEPT ![op.aref][slot.stage][op.buffer] = slot.round]
    /\ UNCHANGED <<index, tokens, barVars, loads, queue, entered, arrived>>

\* An asynchronous MMA.
Mma(p) ==
    LET op == Current(p) IN
    /\ Issues(p, "mma")
    /\ queue' = [queue EXCEPT ![p] = Append(@, [op |-> "mma", aref |-> op.aref, buffer |-> op.buffer,
                                                   slot |-> LastSlot(op.aref, p)])]
    /\ UNCHANGED <<index, tokens, barVars, loads, content, entered, arrived>>

\* Slip: the barrier is arrived at before the tensor core is done.
EagerAsync(kinds) == {}

\* The exits of insertArriveBarrier that a tcgen05.commit makes.
Async(kinds) == kinds \cap {"TC5MMA"}

\* rewritePutExitOp and rewriteGetExitOp: threads arrive at once, the tensor
\* core when it has done what it was given, and TMA by itself.
Exit(p, op, side) ==
    LET a == Current(p).aref
        kinds == AsyncOps[a][p]
        slot == tokens[a][p][1]
        now == kinds \ (Async(kinds) \cup {"TMALoad"}) IN
    /\ Issues(p, op)
    /\ tokens' = [tokens EXCEPT ![a][p] = Tail(@)]
    /\ mbar' = IF now = {} THEN mbar
               ELSE [mbar EXCEPT ![a][side][slot.stage] = Arrived(@, a, side, Cardinality(now))]
    /\ arrived' = [arrived EXCEPT ![a][p] = @ \cup {<<slot.round, k>> : k \in now}]
    /\ queue' = IF Async(kinds) = {} THEN queue
                ELSE [queue EXCEPT ![p] = Append(@, [op |-> "commit", aref |-> a, side |-> side, slot |-> slot])]
    /\ UNCHANGED <<index, live, loads, content, entered>>

PutExit(p) == Exit(p, "put.exit", "full")
GetExit(p) == Exit(p, "get.exit", "empty")

PartitionStep(p) == PutEnter(p) \/ PutExit(p) \/ GetEnter(p) \/ GetExit(p) \/ Load(p) \/ Store(p) \/ Mma(p)

-----------------------------------------------------------------------------
(* Hardware                                                                *)

\* A TMA load writes its buffer and takes its bytes off the full barrier.
Land(l) ==
    LET stage == l.slot.stage IN
    /\ loads' = loads \ {l}
    /\ content' = [content EXCEPT ![l.aref][stage][l.buffer] = l.slot.round]
    /\ mbar' = [mbar EXCEPT ![l.aref].full[stage] = Settled([@ EXCEPT !.tx = @ - 1], l.aref, "full")]
    /\ arrived' = IF \A b \in Loaded[l.aref][l.p] : content'[l.aref][stage][b] = l.slot.round
                  THEN [arrived EXCEPT ![l.aref][l.p] = @ \cup {<<l.slot.round, "TMALoad">>}]
                  ELSE arrived
    /\ UNCHANGED <<progVars, live, queue, entered>>

\* The tensor core does what p gave it first.
TensorCore(p) ==
    LET head == queue[p][1] IN
    /\ queue[p] # <<>>
    /\ queue' = [queue EXCEPT ![p] = Tail(@)]
    /\ \/ /\ head.op = "mma"
          /\ content' = [content EXCEPT ![head.aref][head.slot.stage][head.buffer] = head.slot.round]
          /\ UNCHANGED <<mbar, arrived>>
       \/ /\ head.op = "commit"
          /\ mbar' = [mbar EXCEPT ![head.aref][head.side][head.slot.stage] =
                        Arrived(@, head.aref, head.side, 1)]
          /\ arrived' = [arrived EXCEPT ![head.aref][p] = @ \cup {<<head.slot.round, "TC5MMA">>}]
          /\ UNCHANGED content
    /\ UNCHANGED <<progVars, live, loads, entered>>

Hardware == (\E l \in loads : Land(l)) \/ (\E p \in Partitions : TensorCore(p))

-----------------------------------------------------------------------------
(* Correctness                                                             *)

\* The rounds in which p's access is over: every arrival of its exit is there.
Done == [a \in Arefs |-> [p \in Users(a) |->
            {r \in 1 .. entered[a][p] : \A k \in AsyncOps[a][p] : <<r, k>> \in arrived[a][p]}]]

\* Phase bits and arrival counts are as good as counting: a partition passes a
\* wait exactly when the round it is for may be entered.
Channel == INSTANCE ArefChannel WITH done <- Done
ImplementsChannel == Channel!Spec

\* The slots of a that p holds: entered and not exited, or left to the tensor
\* core by an exit that has not arrived.
Held(a, p) ==
    {tokens[a][p][i] : i \in DOMAIN tokens[a][p]}
      \cup {queue[p][i].slot : i \in {j \in DOMAIN queue[p] :
                                        queue[p][j].op = "commit" /\ queue[p][j].aref = a}}

\* What a consumer got stays as it was put, in every buffer of the slot, until
\* its release has arrived, whatever the engines still have to write.
ItemsKept ==
    \A a \in Arefs : \A c \in Consumers[a] : \A slot \in Held(a, c) : \A b \in 1 .. Buffers[a] :
        content[a][slot.stage][b] = slot.round

\* No load and no commit is under way for barriers that are not initialised.
BarriersOutlive ==
    /\ \A l \in loads : l.aref \in live
    /\ \A p \in Partitions : \A i \in DOMAIN queue[p] :
          queue[p][i].op = "commit" => queue[p][i].aref \in live

\* Nothing asynchronous is behind: neither the data nor the barriers go before
\* the engines and the consumers are done with them.
ItemsOutlive == ItemsKept /\ BarriersOutlive
=============================================================================
