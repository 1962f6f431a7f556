---------------------------- MODULE LoopSchedule ----------------------------
(* From a loop to the schedule that the expander gets: AssignLatencies,      *)
(* ScheduleLoops and the loads of LowerLoops.  Operators only.               *)
(*                                                                           *)
(* A loop: ops, a sequence of [kind, uses] in program order, where uses are  *)
(* operands as the expander names them; yields; stages, the number asked     *)
(* for; withoutDot, if it is the loop itself that asks.  Kinds: load (copied *)
(* by cp.async), desc (by TMA), alloc (of a load, in shared memory, laid out *)
(* as the copy is), dot, wgmma, if, op.                                      *)
EXTENDS PipelineExpander, TLC

Positions(p) == DOMAIN p.ops
Name(p, i) == Op(p.ops[i].kind, i)
(* The operations, by position, that i uses within its iteration.            *)
SameIteration(p, i) ==
  LET uses == SelectSeq(p.ops[i].uses, LAMBDA u : ~IsArg(u) /\ u # Iv)
  IN [n \in DOMAIN uses |-> uses[n][2]]
Users(p, i) == {j \in Positions(p) : i \in ToSet(SameIteration(p, j))}
IsLoad(p, i) == p.ops[i].kind \in {"load", "desc"}
IsDot(p, i) == p.ops[i].kind \in {"dot", "wgmma"}

(***************************************************************************)
(* AssignLatencies: how many loads lie between a load and the dot.         *)
(***************************************************************************)
RECURSIVE Indirection(_, _, _, _)
Indirection(p, i, distance, s) ==
  IF i \in s.seen \/ i \in s.excluded THEN [s EXCEPT !.seen = @ \union {i}]
  ELSE LET seen == [s EXCEPT !.seen = @ \union {i}]
           again == IsLoad(p, i) /\ i \in DOMAIN s.level
           next == IF IsLoad(p, i) THEN distance + 1 ELSE distance
           marked == IF IsLoad(p, i) THEN [seen EXCEPT !.level = (i :> distance) @@ @] ELSE seen
           defs == IF IsDot(p, i) THEN SubSeq(SameIteration(p, i), 1, 2) ELSE SameIteration(p, i)
       IN IF again /\ s.level[i] # distance
          THEN [seen EXCEPT !.level = Restrict(@, DOMAIN @ \ {i}), !.excluded = @ \union {i}]
          ELSE FoldLeft(LAMBDA t, d : Indirection(p, d, next, t), marked, defs)

(* Of a loop that asks for stages itself, loads without a dot count too.     *)
IndirectionLevels(p) ==
  LET from(s, i) == Indirection(p, i, 0, s)
      tops(Test(_)) == SelectSeq([n \in Positions(p) |-> n], Test)
      dots == FoldLeft(LAMBDA s, i : from([s EXCEPT !.seen = {}], i),
                       [seen |-> {}, excluded |-> {}, level |-> [i \in {} |-> 0]], tops(LAMBDA i : IsDot(p, i)))
      all == (IF p.withoutDot THEN FoldLeft(from, dots, tops(LAMBDA i : ~IsLoad(p, i))) ELSE dots).level
  IN Restrict(all, {i \in DOMAIN all : all[i] < p.stages - 1})
LoadLatencies(p) ==
  LET level == IndirectionLevels(p)
  IN [i \in DOMAIN level |-> (p.stages - 1) \div (Max(Range(level)) + 1)]

(***************************************************************************)
(* A coarse schedule: a stage and a cluster for some operations, and the   *)
(* clusters in order.                                                      *)
(***************************************************************************)
Rank(s, c) == CHOOSE n \in DOMAIN s.clusters : s.clusters[n] = c
Scheduled(s) == DOMAIN s.at
Put(s, i, stage, cluster) == [s EXCEPT !.at = (i :> <<stage, cluster>>) @@ @]
PutIfAbsent(s, i, stage, cluster) == IF i \in Scheduled(s) THEN s ELSE Put(s, i, stage, cluster)
NewBefore(s, c) == [s EXCEPT !.clusters = InsertAt(@, Rank(s, c), Len(@) + 1)]
NewCluster(s) == Len(s.clusters) + 1
OrderOf(s, blockOrder) ==
  FoldLeft(LAMBDA seq, c : seq \o SelectSeq(blockOrder, LAMBDA i : i \in Scheduled(s) /\ s.at[i][2] = c),
           <<>>, s.clusters)

Earlier(s, i, stage, cluster) ==
  \/ i \notin Scheduled(s)
  \/ stage < s.at[i][1]
  \/ stage = s.at[i][1] /\ Rank(s, cluster) < Rank(s, s.at[i][2])
(* insertDepsOfOp; defs(i) are the operations that i uses.                   *)
RECURSIVE InsertDepsOfOp(_, _, _, _)
InsertDepsOfOp(s, defs, i, at) ==
  FoldLeft(LAMBDA t, d : IF Earlier(t, d, at[1], at[2])
                         THEN InsertDepsOfOp(Put(t, d, at[1], at[2]), defs, d, at) ELSE t,
           s, defs[i])
Defs(p) == [i \in Positions(p) |-> SameIteration(p, i)]
WithArgs(p) ==
  [i \in Positions(p) |->
     LET defs == [n \in DOMAIN p.ops[i].uses |-> Def(p, p.ops[i].uses[n])]
         inside == SelectSeq(defs, LAMBDA o : o # Outside)
     IN [n \in DOMAIN inside |-> inside[n][2]]]

(* scheduleKeyOps: by the longest way, in latencies, to the end of the body. *)
KeyOps(p, latency) ==
  LET below[i \in Positions(p)] == {i} \union UNION {below[j] : j \in Users(p, i)}
      reached == UNION {below[i] : i \in DOMAIN latency}
      distance[i \in reached] ==
        (IF i \in DOMAIN latency THEN latency[i] ELSE 0) + Max({0} \union {distance[j] : j \in Users(p, i)})
      longest == Max({distance[i] : i \in reached})
      last == Max({longest - distance[i] : i \in reached})
      ifs == {i \in reached : /\ p.ops[i].kind = "if" /\ i \notin DOMAIN latency
                              /\ (below[i] \ {i}) \cap reached = {}}
  IN [at |-> [i \in reached |->
                LET stage == longest - distance[i] IN <<stage, IF i \in ifs THEN last + 2 ELSE last - stage + 1>>],
      clusters |-> [n \in 1..(last + 2) |-> n], stages |-> last + 1]

(* schedulePrologueAndEpilogue *)
PrologueAndEpilogue(p, s) ==
  LET above[i \in Positions(p)] == UNION {{d} \union above[d] : d \in ToSet(SameIteration(p, i))}
      ifs == {i \in Positions(p) : p.ops[i].kind = "if"}
      early == {i \in ifs : \E j \in Scheduled(s) : i \in above[j]}
      stageFor(i) == Min({s.at[j][1] : j \in {k \in Scheduled(s) : i \in above[k]}})
      front == IF early = {} THEN s
               ELSE LET t == NewBefore(s, s.clusters[1])
                    IN FoldSet(LAMBDA i, u : PutIfAbsent(u, i, stageFor(i), NewCluster(s)), t, early)
      back == [front EXCEPT !.clusters = Append(@, Len(@) + 1)]
  IN FoldSet(LAMBDA i, u : PutIfAbsent(u, i, s.stages - 1, Len(back.clusters)), back, ifs \ early)

Dependencies(s, defs, blockOrder) ==
  LET order == OrderOf(s, blockOrder)
      ofStage(stage) == SelectSeq(order, LAMBDA i : s.at[i][1] = stage)
      insert(t, i) == InsertDepsOfOp(t, defs, i, s.at[i])
  IN FoldLeft(LAMBDA t, stage : FoldLeft(insert, t, ofStage(stage - 1)), s, [n \in 1..s.stages |-> n])

(* scheduleDistanceOneDependencies: to the next stage, just before the user; *)
(* a load goes with its user.                                                *)
DistanceOne(p, s0) ==
  LET useArg(acc, i, u) ==
        LET s == acc.s
            def == Def(p, u)
            d == def[2]
            at == s.at[i]
        IN IF ~IsArg(u) \/ def = Outside \/ d \in Scheduled(s) THEN acc
           ELSE IF p.ops[d].kind = "load"
           THEN [acc EXCEPT !.s = InsertDepsOfOp(Put(s, d, at[1], at[2]), WithArgs(p), d, at)]
           ELSE LET known == at[2] \in DOMAIN acc.before
                    t == IF known THEN s ELSE NewBefore(s, at[2])
                    c == IF known THEN acc.before[at[2]] ELSE NewCluster(s)
                    next == <<at[1] + 1, c>>
                IN [s |-> InsertDepsOfOp(Put(t, d, next[1], next[2]), WithArgs(p), d, next),
                    before |-> (at[2] :> c) @@ acc.before]
      visit(acc, i) ==
        IF i \notin Scheduled(acc.s) \/ acc.s.at[i][1] = acc.s.stages - 1 THEN acc
        ELSE LET at == acc.s.at[i]
             IN FoldLeft(LAMBDA a, u : useArg(a, i, u), acc, p.ops[i].uses)
  IN FoldLeft(visit, [s |-> s0, before |-> [c \in {} |-> 0]], [n \in Positions(p) |-> n]).s

(* scheduleRemainingToLastStage: no use in a cluster before its definition.  *)
Remaining(p, s, afterPrologue) ==
  LET rest == Positions(p) \ Scheduled(s)
      rank[i \in Positions(p)] ==
        IF i \in Scheduled(s) THEN (IF s.at[i][1] = s.stages - 1 THEN Rank(s, s.at[i][2]) ELSE 0)
        ELSE Max({Rank(s, afterPrologue)} \union {rank[d] : d \in ToSet(SameIteration(p, i))})
  IN [s EXCEPT !.at = [i \in rest |-> <<s.stages - 1, s.clusters[rank[i]]>>] @@ @]

(* loopHasDistGreaterThanOne makes the passes leave the loop alone.          *)
ScheduleLoop(p) ==
  LET key == KeyOps(p, LoadLatencies(p))
      ends == PrologueAndEpilogue(p, key)
      deps == Dependencies(ends, Defs(p), [n \in Positions(p) |-> n])
  IN Remaining(p, DistanceOne(p, deps), key.clusters[1])

(***************************************************************************)
(* LowerLoops: a load whose use is in a later stage becomes a copy at its  *)
(* place and, at the place of its first use, a wait, a view of the buffer  *)
(* and, where a use wants the value in registers, a read.  An alloc of the *)
(* load goes, and its users use the view.                                  *)
(***************************************************************************)
Allocs(p, i) == {j \in Users(p, i) : p.ops[j].kind = "alloc"}
(* getTopLevelUsersInLoop: the uses of the next iteration count.             *)
LoopUsers(p, i) ==
  Users(p, i) \union
  {j \in Positions(p) : \E u \in ToSet(p.ops[j].uses) : IsArg(u) /\ p.yields[u[2]] = Name(p, i)}
(* Slip: the cluster of the use does not matter.                             *)
StagesApart(p, s, i) ==
  LET users == LoopUsers(p, i) \union UNION {LoopUsers(p, j) : j \in Allocs(p, i)}
  IN IF users = {} THEN 0 ELSE Min({s.at[j][1] : j \in users}) - s.at[i][1]
(* getDefUseStageDiff; a use in a later cluster comes after the next copy.   *)
StageDiff(p, s, i) ==
  LET users == LoopUsers(p, i) \union UNION {LoopUsers(p, j) : j \in Allocs(p, i)}
      late(j) == IF Rank(s, s.at[j][2]) > Rank(s, s.at[i][2]) THEN 1 ELSE 0
  IN IF users = {} THEN 0 ELSE Min({s.at[j][1] + late(j) : j \in users}) - s.at[i][1]
RequiresAdditionalBuffer(p, i) ==
  /\ LoopUsers(p, i) = Allocs(p, i)
  /\ \E j \in Allocs(p, i) : Allocs(p, i) = {j} /\ \E k \in Users(p, j) : p.ops[k].kind = "wgmma"
Buffers(p, s) ==
  LET async == {i \in Positions(p) : IsLoad(p, i) /\ StageDiff(p, s, i) # 0}
  IN [i \in async |-> StageDiff(p, s, i) + (IF RequiresAdditionalBuffer(p, i) THEN 1 ELSE 0)]
FirstUse(p, s, i) ==
  CHOOSE j \in LoopUsers(p, i) : \A k \in LoopUsers(p, i) \ {j} :
    \/ s.at[j][1] < s.at[k][1]
    \/ /\ s.at[j][1] = s.at[k][1]
       /\ LET rj == Rank(s, s.at[j][2])
              rk == Rank(s, s.at[k][2])
          IN rj < rk \/ (rj = rk /\ j < k)

Lower(p, s) ==
  LET buffers == Buffers(p, s)
      async == DOMAIN buffers
      gone == UNION {Allocs(p, i) : i \in async}
      groups == SetToSeq(Range(buffers))
      arg(counter, d) ==
        Arg(Len(p.yields) + 2 * (CHOOSE n \in DOMAIN groups : groups[n] = d) - (IF counter = "ins" THEN 1 ELSE 0))
      value(u) == IF u \in {Iv, Outside} \/ IsArg(u) THEN u
                  ELSE IF u[2] \in async THEN Op("read", u[2])
                  ELSE IF u[2] \in gone THEN Op("view", SameIteration(p, u[2])[1]) ELSE u
      values(us) == [n \in DOMAIN us |-> value(us[n])]
      inRegisters(i) == Allocs(p, i) # Users(p, i) \/ Name(p, i) \in ToSet(p.yields)
      lowered(i) == IF i \in gone THEN <<>>
                    ELSE IF i \notin async THEN <<Name(p, i)>>
                    ELSE <<Op("copy", i), Op("wait", i), Op("view", i)>>
                         \o (IF inRegisters(i) THEN <<Op("read", i)>> ELSE <<>>)
      counters == FlattenSeq([n \in DOMAIN groups |-> <<Op("ins", groups[n]), Op("ext", groups[n])>>])
      body == FlattenSeq([i \in Positions(p) |-> lowered(i)])
      block == counters \o body
      uses == [o \in ToSet(block) |->
        LET i == o[2] IN
        CASE o[1] \in {"ins", "ext"} -> <<arg(o[1], i)>>
          [] o[1] = "copy" -> values(p.ops[i].uses) \o <<Op("ins", buffers[i])>>
          [] o[1] = "wait" -> <<Op("ext", buffers[i])>> \o (IF p.ops[i].kind = "load" THEN <<Op("copy", i)>> ELSE <<>>)
          [] o[1] = "view" -> <<Op("ext", buffers[i])>>
          [] o[1] = "read" -> <<Op("view", i), Op("wait", i)>>
          [] OTHER -> values(p.ops[i].uses)]
      place(o) == IF o[1] \in {"wait", "view", "read"} THEN s.at[FirstUse(p, s, o[2])] ELSE s.at[o[2]]
      defs == [o \in ToSet(block) |-> SelectSeq(uses[o], LAMBDA u : ~IsArg(u) /\ u # Iv)]
      final == Dependencies([s EXCEPT !.at = [o \in ToSet(body) |-> place(o)]], defs, block)
  IN [block |-> block, order |-> OrderOf(final, block), stage |-> [o \in ToSet(block) |-> final.at[o][1]], uses |-> uses,
      yields |-> values(p.yields) \o counters,
      buffers |-> buffers, tma |-> {i \in async : p.ops[i].kind = "desc"}]

(* Loops of which no load can be pipelined are left alone.                   *)
Pipelined(p) == DOMAIN IndirectionLevels(p) # {}
Pipeline(p) == Lower(p, ScheduleLoop(p))
=============================================================================
