-------------------------- MODULE PipelineExpander --------------------------
(* The expansion of a scheduled loop into prologue, kernel and epilogue      *)
(* (Pipeliner/PipelineExpander.cpp), run as it is emitted: an action is a    *)
(* part of the prologue, an iteration of the kernel, or a part of the        *)
(* epilogue.  A value is the operation that computed it and the iteration of *)
(* the original loop it belongs to; every copy of an operation must find the *)
(* operands that iteration gives it.  The dots of warp groups in the kernel   *)
(* are launched asynchronously (Pipeliner/WGMMAPipeline.cpp).                *)
EXTENDS Integers, SequencesExt, FiniteSetsExt

CONSTANT Loops
(* block, order: the operations in the body, and as scheduled; stage, uses:  *)
(* of an operation;                                                          *)
(* yields: the operation that feeds each loop argument, or Outside;          *)
(* escapes: arguments whose result is used after the loop; trip: iterations; *)
(* static: the bounds are constants; buffers, tma: of the copies' memory.    *)
VARIABLES loop, phase, part, mapping, kargs, results, launch, rt
vars == <<loop, phase, part, mapping, kargs, results, launch, rt>>

Outside == <<"outside", 0>>
Iv == <<"iv", 0>>
Arg(a) == <<"arg", a>>
Op(kind, i) == <<kind, i>>
IsArg(u) == u[1] = "arg"
Val(key, iteration) == <<key, iteration>>
Bad == Val(Outside, -1)

ArgsOf(l) == DOMAIN l.yields
OpsOf(l) == DOMAIN l.stage
MaxStage(l) == FoldSet(LAMBDA o, m : IF l.stage[o] > m THEN l.stage[o] ELSE m, 0, OpsOf(l))
UsesOf(l, o) == ToSet(l.uses[o])
(* getDefiningOpAndDistance: Outside where no operation of the loop is.      *)
Def(l, u) == IF IsArg(u) THEN l.yields[u[2]] ELSE IF u = Iv THEN Outside ELSE u
Distance(u) == IF IsArg(u) THEN 1 ELSE 0
StageOf(l, o) == IF o = Outside THEN -1 ELSE l.stage[o]

(* A consumer must come after its producer in the unrolled schedule.         *)
Position(l, o) == CHOOSE n \in DOMAIN l.order : l.order[n] = o
Cycle(l, o) == Position(l, o) + l.stage[o] * Len(l.order)
VerifySchedule(l) ==
  \A o \in OpsOf(l) : \A u \in UsesOf(l, o) :
    Def(l, u) # Outside => Cycle(l, o) >= Cycle(l, Def(l, u)) - Len(l.order) * Distance(u)
(* A loop with another schedule is left as it is, in the order of its block. *)
Expandable(l) ==
  IF VerifySchedule(l) THEN l
  ELSE [l EXCEPT !.order = l.block, !.stage = [o \in OpsOf(l) |-> 0], !.peel = FALSE]
Dynamic(l) == ~(l.static /\ l.trip >= MaxStage(l))

S == MaxStage(loop)
N == loop.trip
YieldedBy(o) == {a \in ArgsOf(loop) : loop.yields[a] = o}

(***************************************************************************)
(* asyncLaunchDots: which dots of the kernel need no wait of their own, and *)
(* how many dots may be under way after each.                              *)
(***************************************************************************)
Dots(l) == SelectSeq(l.order, LAMBDA o : o[1] = "wgmma")
InRegisters(u) == u[1] \notin {"view", "alloc", "outside"}
(* splitRSDot: a dot with A in registers is two of half the depth.           *)
RegisterDot(l, o) == InRegisters(l.uses[o][1])
(* What comes from another dot needs a conversion only.                      *)
RsDotNeedsWait(l, o) == RegisterDot(l, o) /\ l.uses[o][1][1] \notin {"dot", "wgmma"}

(* The kernel reads a dot as a value of its own iteration or as an argument. *)
ValueUsers(l, o) ==
  {p \in OpsOf(l) : \E u \in UsesOf(l, p) :
     Def(l, u) = o /\ l.stage[o] = l.stage[p] + Distance(u)}
ArgUsers(l, a) ==
  {p \in OpsOf(l) : Arg(a) \in UsesOf(l, p) /\ l.stage[p] = l.stage[l.yields[a]]}
AsAccumulator(l, p, u) ==
  p[1] = "wgmma" /\ \A n \in DOMAIN l.uses[p] : l.uses[p][n] = u => n = 3
(* waits: the dots before o that are waited for at once.                     *)
CanBeProperlyAsync(l, o, waits) ==
  /\ \A n \in {1, 2} : l.uses[o][n][1] # "alloc"
  /\ \A p \in ValueUsers(l, o) : p[1] = "if"
  /\ \E a \in ArgsOf(l) :
       /\ {b \in ArgsOf(l) : l.yields[b] = o} = {a}
       /\ \/ \A p \in ArgUsers(l, a) : AsAccumulator(l, p, Arg(a))
          \/ waits # <<>> /\ \A p \in ArgUsers(l, a) : Position(l, Head(waits)) < Position(l, p)

NoWait == -1
AsyncLaunchDots(l) ==
  LET visit(s, o) ==
        IF CanBeProperlyAsync(l, o, s.waits) THEN [s EXCEPT !.async = Append(@, o)]
        ELSE [s EXCEPT !.waits = Append(@, o)]
      found == FoldLeft(visit, [async |-> <<>>, waits |-> <<>>], Dots(l))
      alone == found.waits = <<>>
      halves(o) == IF alone /\ RegisterDot(l, o) THEN 2 ELSE 1
      all == FoldLeft(LAMBDA n, o : n + halves(o), 0, found.async)
      pendings(o) ==
        IF o \notin ToSet(found.async) THEN 0
        ELSE IF ~alone THEN NoWait
        ELSE IF RsDotNeedsWait(l, o) THEN all - 1
        ELSE IF o = Last(found.async) THEN all ELSE NoWait
  IN [halves |-> [o \in ToSet(Dots(l)) |-> halves(o)],
      pendings |-> [o \in ToSet(Dots(l)) |-> pendings(o)], inIfs |-> alone]

(***************************************************************************)
(* Running one copy of an operation.                                       *)
(***************************************************************************)
Expected(u, i) ==
  IF ~IsArg(u) THEN Val(u, i)
  ELSE IF i = 0 THEN Val(u, 0)
  ELSE IF Def(loop, u) = Outside THEN Val(Outside, 0) ELSE Val(Def(loop, u), i - 1)

IncrementModulo(c, modulus) == IF c + 1 >= modulus THEN 0 ELSE c + 1
Index(load, iteration) ==
  LET at[i \in -1..iteration] == IF i = -1 THEN -1 ELSE IncrementModulo(at[i - 1], loop.buffers[load]) IN at[iteration]
Parity(load, iteration) ==
  LET at[i \in -1..iteration] ==
        IF i = -1 THEN 0
        ELSE IF Index(load, i - 1) + 1 >= loop.buffers[load] THEN 1 - at[i - 1] ELSE at[i - 1]
  IN at[iteration]

(* The buffers of the asynchronous copies.  A copy lands when a wait makes   *)
(* it, as late as it can; until then its buffer holds nothing of use.  A     *)
(* wait on a barrier passes when the phase it names is over.                 *)
EmptySlot == [iteration |-> -1, pending |-> FALSE, completed |-> 0]
Loads(l) == DOMAIN l.buffers
Holds(mem, load, i) ==
  LET s == mem[load][Index(load, i)] IN s.iteration = i /\ ~s.pending
Stuck(o, i, mem) ==
  /\ o[1] = "wait" /\ o[2] \in loop.tma
  /\ LET s == mem[o[2]][Index(o[2], i)] IN s.completed % 2 = Parity(o[2], i) /\ ~s.pending
Memory(o, i, mem) ==
  LET load == o[2]
      slot == Index(load, i)
  IN CASE o[1] = "copy" -> [mem EXCEPT ![load][slot] = [@ EXCEPT !.iteration = i, !.pending = TRUE]]
       [] o[1] = "wait" /\ load \notin loop.tma ->
            [mem EXCEPT ![load] = [s \in DOMAIN @ |->
               IF @[s].iteration <= i THEN [@[s] EXCEPT !.pending = FALSE] ELSE @[s]]]
       [] o[1] = "wait" /\ load \in loop.tma ->
            IF mem[load][slot].completed % 2 = Parity(load, i)
            THEN [mem EXCEPT ![load][slot] = [@ EXCEPT !.pending = FALSE, !.completed = @ + 1]] ELSE mem
       [] OTHER -> mem

(* The dots under way, oldest first, and the buffers they read.              *)
WaitFor(flight, pendings) ==
  IF pendings = NoWait \/ Len(flight) <= pendings THEN flight
  ELSE SubSeq(flight, Len(flight) - pendings + 1, Len(flight))
(* The buffer behind a view; an alloc in the loop has a single one.          *)
Buffer(u, i) == <<u[2], IF u[1] = "alloc" THEN 0 ELSE Index(u[2], i)>>
Flight(o, i, flight) ==
  IF o[1] # "wgmma" \/ phase # "kernel" THEN flight
  ELSE LET shared == {u \in {loop.uses[o][1], loop.uses[o][2]} : u[1] \in {"view", "alloc"}}
           dot == [value |-> Val(o, i), reads |-> {Buffer(u, i) : u \in shared}]
       IN WaitFor(flight \o [n \in 1..launch.halves[o] |-> dot], launch.pendings[o])
Clobbers(o, i, flight) ==
  o[1] \in {"copy", "alloc"} /\ \E d \in ToSet(flight) : Buffer(o, i) \in d.reads
(* Only the next dot may take the result of one under way, as its sum.       *)
Ready(o, n, value, flight) ==
  \/ value \notin {d.value : d \in ToSet(flight)}
  \/ o[1] = "wgmma" /\ n = 3
  \/ o[1] = "if" /\ launch.inIfs
(* A masked cp.async fills its buffer with zeros.                            *)
Masked(o, i, r) ==
  IF o[1] # "copy" \/ o[2] \in loop.tma THEN r
  ELSE [r EXCEPT !.mem[o[2]][Index(o[2], i)] = [@ EXCEPT !.iteration = -1],
                 !.faults = IF Clobbers(o, i, r.flight) THEN @ \union {Val(o, i)} ELSE @]

Execute(o, i, active, values, r) ==
  LET uses == loop.uses[o]
      right == /\ i = r.ran[o] /\ i < N
               /\ \A n \in DOMAIN uses : values[n] = Expected(uses[n], i)
               /\ \A n \in DOMAIN uses : uses[n][1] = "view" => Holds(r.mem, uses[n][2], i)
               /\ \A n \in DOMAIN uses : Ready(o, n, values[n], r.flight)
               /\ ~Stuck(o, i, r.mem) /\ ~Clobbers(o, i, r.flight)
  IN IF ~active THEN [value |-> Bad, rt |-> Masked(o, i, r)]
     ELSE [value |-> IF right THEN Val(o, i) ELSE Bad,
           rt |-> [ran |-> [r.ran EXCEPT ![o] = @ + 1],
                   mem |-> IF right THEN Memory(o, i, r.mem) ELSE r.mem,
                   flight |-> Flight(o, i, r.flight),
                   faults |-> IF right THEN r.faults ELSE r.faults \union {Val(o, i)}]]

(***************************************************************************)
(* The prologue.  mapping[v][i] is version i of the value v of the loop.   *)
(***************************************************************************)
Keys(l) == OpsOf(l) \union {Arg(a) : a \in ArgsOf(l)} \union {Iv}
Unmapped(l) == [u \in Keys(l) |-> [i \in 0..(MaxStage(l) + 1) |-> Bad]]
(* A value from outside the loop is its own only version.                    *)
Version(m, u, i) == IF u = Outside THEN Val(Outside, 0) ELSE m[u][i]

Init ==
  /\ loop \in {Expandable(l) : l \in Loops}
  /\ phase = "prologue" /\ part = 0
  /\ mapping = [u \in Keys(loop) |-> [i \in 0..(S + 1) |->
       IF IsArg(u) /\ i = 0 THEN Val(u, 0)
       ELSE IF IsArg(u) /\ Def(loop, u) = Outside /\ i < S THEN Val(Outside, 0) ELSE Bad]]
  /\ kargs = <<>> /\ results = <<>> /\ launch = <<>>
  /\ rt = [ran |-> [o \in OpsOf(loop) |-> 0], faults |-> {}, flight |-> <<>>,
           mem |-> [load \in Loads(loop) |-> [s \in 0..(loop.buffers[load] - 1) |-> EmptySlot]]]

Source(a, active, value, previous) ==
  IF Dynamic(loop) /\ a \in loop.escapes /\ ~active THEN previous ELSE value

PrologueOp(s, o) ==
  LET v == part - loop.stage[o]
      active == Dynamic(loop) => v < N
      uses == loop.uses[o]
      e == Execute(o, v, active, [n \in DOMAIN uses |-> Version(s.mapping, uses[n], v)], s.rt)
  IN [rt |-> e.rt,
      mapping |-> [u \in DOMAIN s.mapping |->
        IF u = o THEN [s.mapping[u] EXCEPT ![v] = e.value]
        ELSE IF IsArg(u) /\ loop.yields[u[2]] = o
        THEN [s.mapping[u] EXCEPT ![v + 1] = Source(u[2], active, e.value, s.mapping[u][v])]
        ELSE s.mapping[u]]]

ProloguePart ==
  /\ phase = "prologue" /\ part < S
  /\ LET start == [rt |-> rt, mapping |-> [mapping EXCEPT ![Iv][part] = Val(Iv, part)]]
         end == FoldLeft(PrologueOp, start, SelectSeq(loop.order, LAMBDA o : loop.stage[o] <= part))
     IN mapping' = end.mapping /\ rt' = end.rt
  /\ part' = part + 1
  /\ UNCHANGED <<loop, phase, kargs, results, launch>>

(***************************************************************************)
(* The kernel.  A value used in a later stage than its own is carried in   *)
(* arguments of the new loop, one for each iteration in between.           *)
(***************************************************************************)
CrossStage(o, u) ==
  /\ Def(loop, u) # Outside
  /\ loop.stage[Def(loop, u)] \notin {loop.stage[o], loop.stage[o] + Distance(u)}
LastUse(u) == Max({loop.stage[o] : o \in {p \in OpsOf(loop) : u \in UsesOf(loop, p) /\ CrossStage(p, u)}})
Crossing == {u \in Keys(loop) : \E o \in OpsOf(loop) : u \in UsesOf(loop, o) /\ CrossStage(o, u)}
Age(u) == LastUse(u) - loop.stage[Def(loop, u)]
Carried == {<<u, d>> \in Crossing \X (1..S) : d <= Age(u)}
OwnArgs == {<<Arg(a), 0>> : a \in ArgsOf(loop)}

(* createKernelLoop; the passes that follow launch the dots of the kernel.   *)
CreateKernelLoop ==
  /\ phase = "prologue" /\ part = S
  /\ kargs' = [k \in Carried \union OwnArgs |->
       IF k[2] > 0 THEN mapping[k[1]][S - StageOf(loop, Def(loop, k[1])) - k[2]]
       ELSE IF Def(loop, k[1]) = Outside THEN mapping[k[1]][0]
       ELSE mapping[k[1]][S - loop.stage[Def(loop, k[1])]]]
  /\ launch' = AsyncLaunchDots(loop)
  /\ phase' = "kernel" /\ part' = 0
  /\ UNCHANGED <<loop, mapping, results, rt>>

KernelTrip == IF loop.peel THEN Max({0, N - S}) ELSE N
(* emitPredicateForStage: the last stage always runs.                        *)
Predicate(stage) == loop.peel \/ stage = S \/ part < N - (S - stage)

KernelOperand(local, o, u) ==
  LET use == loop.stage[o]
      def == StageOf(loop, Def(loop, u))
  IN IF u = Outside THEN Val(Outside, 0)
     ELSE IF u = Iv THEN Val(Iv, part + S - use)
     ELSE IF IsArg(u) /\ Def(loop, u) = Outside
     THEN IF use # S THEN Val(Outside, 0) ELSE kargs[<<u, 0>>]
     ELSE IF IsArg(u) /\ def = use THEN kargs[<<u, 0>>]
     ELSE IF def = use + Distance(u) THEN local[Def(loop, u)]
     ELSE kargs[<<u, use - def>>]

KernelOp(s, o) ==
  LET uses == loop.uses[o]
      e == Execute(o, part + S - loop.stage[o], Predicate(loop.stage[o]),
                   [n \in DOMAIN uses |-> KernelOperand(s.local, o, uses[n])], s.rt)
  IN [local |-> [s.local EXCEPT ![o] = e.value], rt |-> e.rt]

(* A result used after the loop keeps the last value that a running stage    *)
(* gave it; the carried values move on by one.                               *)
(* Slip: the result is taken whether its stage runs or not.                  *)
AlwaysYield(local, k) ==
  IF Def(loop, k[1]) = Outside THEN Val(Outside, 0) ELSE local[Def(loop, k[1])]
Yield(local, k) ==
  LET def == Def(loop, k[1])
  IN IF def = Outside THEN Val(Outside, 0)
     ELSE IF ~loop.peel /\ k[1][2] \in loop.escapes /\ ~Predicate(loop.stage[def]) THEN kargs[k]
     ELSE local[def]
Carry(local, k) ==
  IF k[2] > 1 THEN kargs[<<k[1], k[2] - 1>>]
  ELSE IF IsArg(k[1]) THEN kargs[<<k[1], 0>>] ELSE local[k[1]]

KernelIteration ==
  /\ phase = "kernel" /\ part < KernelTrip
  /\ LET end == FoldLeft(KernelOp, [local |-> [o \in OpsOf(loop) |-> Bad], rt |-> rt], loop.order)
     IN /\ rt' = end.rt
        /\ kargs' = [k \in DOMAIN kargs |-> IF k[2] = 0 THEN Yield(end.local, k) ELSE Carry(end.local, k)]
  /\ part' = part + 1
  /\ UNCHANGED <<loop, phase, mapping, results, launch>>

(***************************************************************************)
(* The epilogue: iterations Start, Start + 1, ... of the stages left.      *)
(***************************************************************************)
Start == Max({0, N - S})
(* What the kernel leaves for the epilogue; no dot is under way after it.    *)
KernelMapping ==
  [u \in Keys(loop) |-> [v \in 0..(S + 1) |->
     LET def == StageOf(loop, Def(loop, u))
     IN IF u = Iv THEN Val(Iv, Start + v - 1)
        ELSE IF IsArg(u) /\ def = -1 THEN (IF v \in 1..S THEN Val(Outside, 0) ELSE Bad)
        ELSE IF IsArg(u) /\ def > 0 /\ v = S - def + 1 THEN kargs[<<u, 0>>]
        ELSE IF <<u, S - def - v + 1>> \in Carried THEN kargs[<<u, S - def - v + 1>>] ELSE Bad]]

KernelExit ==
  /\ phase = "kernel" /\ part = KernelTrip
  /\ results' = [a \in ArgsOf(loop) |-> kargs[<<Arg(a), 0>>]]
  /\ IF loop.peel
     THEN phase' = "epilogue" /\ part' = 1 /\ mapping' = KernelMapping
     ELSE phase' = "done" /\ UNCHANGED <<part, mapping>>
  /\ rt' = [rt EXCEPT !.flight = <<>>]
  /\ UNCHANGED <<loop, kargs, launch>>

EpilogueOp(s, o) ==
  LET v == S - loop.stage[o] + part
      active == Dynamic(loop) => N >= v
      uses == loop.uses[o]
      e == Execute(o, Start + v - 1, active, [n \in DOMAIN uses |-> Version(s.mapping, uses[n], v)], s.rt)
  IN [rt |-> e.rt,
      results |-> [a \in DOMAIN s.results |-> IF a \in YieldedBy(o) THEN e.value ELSE s.results[a]],
      mapping |-> [u \in DOMAIN s.mapping |->
        IF u = o THEN [s.mapping[u] EXCEPT ![v] = e.value]
        ELSE IF IsArg(u) /\ u[2] \in YieldedBy(o) /\ v < S THEN [s.mapping[u] EXCEPT ![v + 1] = e.value]
        ELSE s.mapping[u]]]

(* Of a dynamic loop, the part's results count only if its iteration exists. *)
Selected(s) ==
  LET version == [a \in ArgsOf(loop) |-> S - StageOf(loop, loop.yields[a]) + part]
      emitted == {a \in ArgsOf(loop) : StageOf(loop, loop.yields[a]) >= part}
      chosen == [a \in ArgsOf(loop) |->
        IF a \in emitted /\ N < version[a] THEN s.mapping[Arg(a)][version[a]] ELSE s.results[a]]
  IN [s EXCEPT !.results = chosen,
               !.mapping = [u \in DOMAIN @ |->
                 IF IsArg(u) /\ u[2] \in emitted /\ version[u[2]] < S
                 THEN [@[u] EXCEPT ![version[u[2]] + 1] = chosen[u[2]]] ELSE @[u]]]

EpiloguePart ==
  /\ phase = "epilogue" /\ part <= S
  /\ LET emitted == FoldLeft(EpilogueOp, [rt |-> rt, results |-> results, mapping |-> mapping],
                             SelectSeq(loop.order, LAMBDA o : loop.stage[o] >= part))
         end == IF Dynamic(loop) THEN Selected(emitted) ELSE emitted
     IN mapping' = end.mapping /\ results' = end.results /\ rt' = end.rt
  /\ part' = part + 1
  /\ UNCHANGED <<loop, phase, kargs, launch>>

EpilogueExit ==
  /\ phase = "epilogue" /\ part = S + 1
  /\ phase' = "done"
  /\ UNCHANGED <<loop, part, mapping, kargs, results, launch, rt>>

Done == phase = "done"
Next ==
  \/ ProloguePart \/ CreateKernelLoop \/ KernelIteration \/ KernelExit
  \/ EpiloguePart \/ EpilogueExit \/ (Done /\ UNCHANGED vars)
Spec == Init /\ [][Next]_vars

(***************************************************************************)
(* Properties.                                                             *)
(***************************************************************************)
(* Each copy of an operation that runs is the next iteration of it, its      *)
(* operands and the buffers it reads are those of this iteration, none is    *)
(* the result of a dot under way, and no buffer that such a dot reads is     *)
(* written.                                                                  *)
RunsLikeTheLoop == rt.faults = {}

(* When the pipelined loop ends, every operation has run once for every      *)
(* iteration, and what is used after the loop is what the loop would leave.  *)
LeavesWhatTheLoopLeaves ==
  Done => /\ \A o \in OpsOf(loop) : rt.ran[o] = N
          /\ \A a \in loop.escapes : results[a] = Expected(Arg(a), N)
=============================================================================
