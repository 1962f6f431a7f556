------------------------------- MODULE Membar -------------------------------
(* Insertion of barriers and fences by data flow (lib/Analysis/Membar.cpp)   *)
(* and the three analyses of the NVIDIA dialect built on it: proxy fences,   *)
(* tensor memory barriers and cluster barriers.  An action visits the first  *)
(* block of the work list.                                                   *)
(*                                                                           *)
(* A block is a virtual block of the code, a stretch of operations without   *)
(* control flow, and `succ' is what visitTerminator finds for it: branches   *)
(* and regions look the same.                                                *)
EXTENDS Integers, FiniteSets, SequencesExt

CONSTANT Programs  \* each [analysis, twoCTAs, funcs]; funcs in the call graph's post-order

VARIABLES program, func, work, inputs, outputs, inserted, summary
vars == <<program, func, work, inputs, outputs, inserted, summary>>

(***************************************************************************)
(* Slices of shared memory: the interval of the allocation, the buffer,    *)
(* and what part of its elements the access touches, if that is known.     *)
(***************************************************************************)
Whole == [enc |-> "none", off |-> 0, len |-> 0]
NoBuffer == "invalid"
Slice(lo, hi, buf, view) == [lo |-> lo, hi |-> hi, buf |-> buf, view |-> view]

Apart(v, w) == v.off + v.len <= w.off \/ w.off + w.len <= v.off
Intersects(a, b) ==
  /\ a.lo < b.hi /\ b.lo < a.hi
  /\ a.view = Whole \/ b.view = Whole \/ a.view.enc # b.view.enc \/ ~Apart(a.view, b.view)
Translated(s, offset) == Slice(s.lo + offset, s.hi + offset, NoBuffer, s.view)

(***************************************************************************)
(* Operations: a name, what they read and write, a scratch buffer or none. *)
(* A block info is a set of accesses that nothing has synchronised yet.    *)
(***************************************************************************)
Access(rw, slice, op) == [rw |-> rw, slice |-> slice, op |-> op.name]
Effects(op) == {Access("R", s, op) : s \in op.reads} \union {Access("W", s, op) : s \in op.writes}
Scratch(op, rw) == {Access(rw, s, op) : s \in op.scratch}

View == [enc : STRING, off : Nat, len : Nat]
SliceType ==
  {s \in [lo : Int, hi : Int, buf : STRING \union {NoBuffer}, view : View] :
     s.view = Whole \/ s.lo + s.view.off + s.view.len <= s.hi}
OperationType ==
  [name : STRING, reads : SUBSET SliceType, writes : SUBSET SliceType, scratch : SUBSET SliceType,
   callee : Nat, offset : Int, kernel : BOOLEAN]

LocalBarriers == {"barrier", "cluster_barrier", "arrive", "tc_commit"}
WarpSync == {"warp_convert"}
ProxyWrites == {"tma_load"}
ProxyReads == {"tma_store", "wgmma", "mma"}
IgnoredForProxyFence == ProxyWrites \union ProxyReads \union {"arrive", "wait_barrier", "init_barrier"}
Distributed(a) ==
  \/ a.op \in {"dist_convert", "dist_reduce"} /\ a.rw = "R"
  \/ a.op \in {"mma2", "tma_multicast"}

TMemAccessKind(name) ==
  IF name = "tmem_load" THEN "Load" ELSE IF name = "tmem_store" THEN "Store"
  ELSE IF name \in {"mma", "mma2", "tmem_copy"} THEN "MMA" ELSE "None"
(* The filter of each analysis: pairs that need nothing between them.        *)
Filtered(l, r) ==
  CASE program.analysis = "Membar" -> FALSE
    [] program.analysis = "ProxyFence" -> r.op \in IgnoredForProxyFence
    [] program.analysis = "TMem" ->
         <<TMemAccessKind(l.op), TMemAccessKind(r.op)>> \notin
           ({"Load", "Store"} \X {"Store", "MMA"}) \union {<<"Store", "Load">>}
    [] program.analysis = "Cluster" -> ~Distributed(l) /\ ~Distributed(r)
(* Accesses to one explicit buffer alias by the program's own doing.         *)
SliceFiltered(l, r) == program.analysis = "Cluster" /\ l.slice.buf # NoBuffer /\ l.slice.buf = r.slice.buf
(* Slip: two reads and two writes are both left alone.                       *)
NoWawIsIntersected(before, now) ==
  \E l \in before, r \in now : l.rw # r.rw /\ Intersects(l.slice, r.slice) /\ ~SliceFiltered(l, r) /\ ~Filtered(l, r)
IsIntersected(before, now) ==
  \E l \in before, r \in now :
    (l.rw = "W" \/ r.rw = "W") /\ Intersects(l.slice, r.slice) /\ ~SliceFiltered(l, r) /\ ~Filtered(l, r)

(***************************************************************************)
(* The programs: a function is called by later ones only, all its blocks   *)
(* can be reached, and what waits, returns or calls touches no memory.     *)
(* The proxy fences know no calls: a callee's asynchronous reads and       *)
(* writes are not in what the analysis remembers of it.                    *)
(***************************************************************************)
Silent(op) == op.reads = {} /\ op.writes = {} /\ op.scratch = {}
OperationFits(analysis, f, op) ==
  /\ op.name \in {"mem_wait", "fence", "cluster_barrier", "return", "call"} => Silent(op)
  /\ op.name = "call" => analysis # "ProxyFence" /\ op.callee \in 1..(f - 1)
  /\ analysis = "ProxyFence" /\ op.name \in ProxyReads => op.scratch = {}
  /\ analysis = "TMem" /\ ~Silent(op) =>
       /\ op.scratch = {} /\ op.name \notin LocalBarriers /\ TMemAccessKind(op.name) # "None"
       /\ TMemAccessKind(op.name) = "Load" => op.writes = {}
FunctionFits(analysis, f, function) ==
  LET blocks == DOMAIN function.code
  IN /\ function.code \in Seq(Seq(OperationType)) /\ function.entry \in blocks
     /\ function.succ \in [blocks -> Seq(blocks)]
     /\ \A B \in SUBSET blocks :
          function.entry \in B /\ (\A b \in B : ToSet(function.succ[b]) \subseteq B) => B = blocks
     /\ \A b \in blocks : \A i \in DOMAIN function.code[b] : OperationFits(analysis, f, function.code[b][i])
WellFormed(p) ==
  /\ p.analysis \in {"Membar", "ProxyFence", "TMem", "Cluster"} /\ p.twoCTAs \in BOOLEAN
  /\ Len(p.funcs) \in Nat \ {0} /\ DOMAIN p.funcs = 1..Len(p.funcs)
  /\ \A f \in DOMAIN p.funcs : FunctionFits(p.analysis, f, p.funcs[f])
ASSUME ProgramsAssumption == \A p \in Programs : WellFormed(p)

(***************************************************************************)
(* What an analysis makes of one operation: the info after it, and whether *)
(* it puts a barrier there.                                                *)
(***************************************************************************)
Result(info, insert) == [info |-> info, insert |-> insert]
Joined(info, now) == IF IsIntersected(info, now) THEN Result(now, TRUE) ELSE Result(info \union now, FALSE)
CallInfo(op) ==
  IF program.analysis \in {"Membar", "Cluster"}
  THEN {[a EXCEPT !.slice = Translated(@, op.offset)] : a \in summary[op.callee]}
  ELSE summary[op.callee]

MembarUpdate(op, next, before) ==
  LET info == IF op.name \in LocalBarriers THEN {} ELSE before
      now == Effects(op) \union Scratch(op, "W")
      hit == IsIntersected(info, now)
  IN IF op.name = "mem_wait" /\ next \notin LocalBarriers THEN Result({}, TRUE)
     ELSE IF op.scratch # {}
     THEN Result((IF hit \/ op.name \notin WarpSync THEN {} ELSE info) \union now \union Scratch(op, "R"), hit)
     ELSE Joined(info, IF op.name = "call" THEN CallInfo(op) ELSE now)

(* A fence separates the generic accesses from the async proxy's after them. *)
ProxyAccesses(op) ==
  {a \in Effects(op) : (a.rw = "W" /\ op.name \in ProxyWrites) \/ (a.rw = "R" /\ op.name \in ProxyReads)}
ProxyFenceUpdate(op, info) ==
  LET generic == IF op.name = "call" THEN CallInfo(op)
                 ELSE (Effects(op) \ ProxyAccesses(op)) \union Scratch(op, "R")
      hit == \E p \in ProxyAccesses(op) : IsIntersected({p}, info)
  IN IF op.name = "fence" THEN Result({}, FALSE)
     ELSE Result((IF hit THEN {} ELSE info) \union generic, hit)

TMemUpdate(op, info) ==
  IF op.name \in LocalBarriers THEN Result({}, FALSE)
  ELSE Joined(info, IF op.name = "call" THEN CallInfo(op) ELSE Effects(op))

(* Slip: only what the operation writes is remembered as distributed.        *)
WrittenOpenAtReturn(op, info) == op.kernel /\ ~program.twoCTAs /\ \E a \in info : Distributed(a) /\ a.rw = "W"
OpenAtReturn(op, info) == op.kernel /\ ~program.twoCTAs /\ \E a \in info : Distributed(a)
ClusterUpdate(op, info) ==
  LET now == Effects(op) \union Scratch(op, "W")
      hit == IsIntersected(info, now)
      synced == hit \/ \E a \in Scratch(op, "R") : Distributed(a)
  IN IF op.name = "cluster_barrier" THEN Result({}, FALSE)
     ELSE IF op.name = "return"
     THEN Result(IF OpenAtReturn(op, info) THEN {} ELSE info, OpenAtReturn(op, info))
     ELSE IF op.scratch # {}
     THEN Result((IF synced THEN {} ELSE info) \union now \union Scratch(op, "R"), hit)
     ELSE Joined(info, IF op.name = "call" THEN CallInfo(op) ELSE now)

Update(op, next, info) ==
  CASE program.analysis = "Membar" -> MembarUpdate(op, next, info)
    [] program.analysis = "ProxyFence" -> ProxyFenceUpdate(op, info)
    [] program.analysis = "TMem" -> TMemUpdate(op, info)
    [] program.analysis = "Cluster" -> ClusterUpdate(op, info)

(***************************************************************************)
(* The fixed point.                                                        *)
(***************************************************************************)
F == program.funcs[func]
Code(f, b) == program.funcs[f].code[b]
Point(f, b, i) == <<f, b, i>>
Next1(f, b, i) == IF i < Len(Code(f, b)) THEN Code(f, b)[i + 1].name ELSE "none"

(* A barrier that an earlier visit inserted is an operation of the block.    *)
BlockStep(b, i, s) ==
  LET here == Point(func, b, i)
      r == Update(Code(func, b)[i], Next1(func, b, i), IF here \in s.inserted THEN {} ELSE s.info)
  IN [info |-> r.info, inserted |-> IF r.insert THEN s.inserted \union {here} ELSE s.inserted]
BlockUpdate(b) ==
  LET after[i \in 0..Len(Code(func, b))] ==
        IF i = 0 THEN [info |-> inputs[b], inserted |-> inserted] ELSE BlockStep(b, i, after[i - 1])
  IN after[Len(Code(func, b))]

Unseen == [seen |-> FALSE, info |-> {}]
Blocks(f) == DOMAIN program.funcs[f].code

Init ==
  /\ program \in Programs /\ func = 1 /\ inserted = {}
  /\ summary = [f \in DOMAIN program.funcs |-> {}]
  /\ work = <<program.funcs[1].entry>>
  /\ inputs = [b \in Blocks(1) |-> {}]
  /\ outputs = [b \in Blocks(1) |-> Unseen]

SuccessorInputs(b, info) ==
  [c \in DOMAIN inputs |-> IF c \in ToSet(F.succ[b]) THEN inputs[c] \union info ELSE inputs[c]]
(* Slip: the output is compared with the input, and not with the last one.   *)
ForgetfulUnchanged(b, info) == outputs[b].seen /\ info = inputs[b]
Unchanged(b, info) == outputs[b].seen /\ outputs[b].info = info

Visit ==
  /\ work # <<>>
  /\ LET b == Head(work)
         r == BlockUpdate(b)
     IN /\ inserted' = r.inserted
        /\ IF Unchanged(b, r.info)
           THEN work' = Tail(work) /\ UNCHANGED <<inputs, outputs>>
           ELSE /\ outputs' = [outputs EXCEPT ![b] = [seen |-> TRUE, info |-> r.info]]
                /\ inputs' = SuccessorInputs(b, r.info)
                /\ work' = Tail(work) \o F.succ[b]
  /\ UNCHANGED <<program, func, summary>>

(* What is pending where the function returns is what its callers see.       *)
Returns(f) == {b \in Blocks(f) : program.funcs[f].succ[b] = <<>>}
FinishFunction ==
  /\ work = <<>> /\ func < Len(program.funcs)
  /\ summary' = [summary EXCEPT ![func] = UNION {outputs[b].info : b \in Returns(func)}]
  /\ func' = func + 1
  /\ work' = <<program.funcs[func'].entry>>
  /\ inputs' = [b \in Blocks(func') |-> {}]
  /\ outputs' = [b \in Blocks(func') |-> Unseen]
  /\ UNCHANGED <<program, inserted>>

Done == work = <<>> /\ func = Len(program.funcs)
Next == Visit \/ FinishFunction \/ (Done /\ UNCHANGED vars)
Spec == Init /\ [][Next]_vars

(***************************************************************************)
(* The reference: what is pending along every path of the final program.   *)
(***************************************************************************)
Bytes(s) ==
  IF s.view = Whole THEN s.lo..(s.hi - 1)
  ELSE IF s.view.enc = "linear" THEN (s.lo + s.view.off)..(s.lo + s.view.off + s.view.len - 1)
  ELSE (s.hi - s.view.off - s.view.len)..(s.hi - 1 - s.view.off)

Synchronises(op) ==
  CASE program.analysis = "ProxyFence" -> op.name = "fence"
    [] program.analysis = "Cluster" -> op.name = "cluster_barrier"
    [] OTHER -> op.name \in LocalBarriers
(* The barrier within an operation that communicates through scratch memory. *)
SynchronisesInside(op) ==
  /\ op.scratch # {}
  /\ \/ program.analysis = "Membar" /\ op.name \notin WarpSync
     \/ program.analysis = "Cluster" /\ \E a \in Scratch(op, "R") : Distributed(a)

(* What an operation accesses up to its first barrier, and after its last.   *)
Does(first, barrier, last) == [first |-> first, barrier |-> barrier, last |-> last]
(* Shared memory is the callee's part of the caller's, tensor memory is one. *)
Moved(op, accesses) ==
  IF program.analysis = "TMem" THEN accesses ELSE {[a EXCEPT !.slice = Translated(@, op.offset)] : a \in accesses}
Barred(f, b, i) == Point(f, b, i) \in inserted \/ Synchronises(Code(f, b)[i])
(* calls[g] is what a call of function g does.                               *)
Behaviour(op, calls) ==
  LET scratch(rw) == IF program.analysis = "ProxyFence" /\ rw = "W" THEN {} ELSE Scratch(op, rw)
      all == Effects(op) \union scratch("W") \union scratch("R")
  IN IF op.name = "call"
     THEN Does(Moved(op, calls[op.callee].first), calls[op.callee].barrier, Moved(op, calls[op.callee].last))
     ELSE IF SynchronisesInside(op) THEN Does(Effects(op) \union scratch("W"), TRUE, scratch("R"))
     ELSE Does(all, FALSE, all)

(* Which pairs of accesses need something between them.                      *)
IsProxy(a) == (a.rw = "W" /\ a.op \in ProxyWrites) \/ (a.rw = "R" /\ a.op \in ProxyReads)
Hazard(l, r) ==
  /\ Bytes(l.slice) \cap Bytes(r.slice) # {} /\ (l.rw = "W" \/ r.rw = "W")
  /\ CASE program.analysis = "Membar" -> TRUE
       [] program.analysis = "ProxyFence" -> IsProxy(r) /\ l.op \notin IgnoredForProxyFence
       [] program.analysis = "TMem" -> TMemAccessKind(l.op) # "MMA"
       [] program.analysis = "Cluster" ->
            (Distributed(l) \/ Distributed(r)) /\ (l.slice.buf = NoBuffer \/ l.slice.buf # r.slice.buf)

(* What is pending after a block, and the hazards in it, when it begins with *)
(* accesses pending.                                                         *)
ThroughStep(f, b, i, calls, s) ==
  LET before == IF Barred(f, b, i) THEN {} ELSE s.pending
      does == Behaviour(Code(f, b)[i], calls)
  IN [pending |-> does.last \union (IF does.barrier THEN {} ELSE before),
      races |-> s.races \union {q \in before \X does.first : Hazard(q[1], q[2])}]
Through(f, b, pending, calls) ==
  LET at[i \in 0..Len(Code(f, b))] ==
        IF i = 0 THEN [pending |-> pending, races |-> {}] ELSE ThroughStep(f, b, i, calls, at[i - 1])
  IN at[Len(Code(f, b))]
(* What is pending where a block begins, after up to n blocks.               *)
Predecessors(f, b) == {c \in Blocks(f) : b \in ToSet(program.funcs[f].succ[c])}
Onward(f, calls, pending) ==
  [b \in Blocks(f) |-> UNION {Through(f, c, pending[c], calls).pending : c \in Predecessors(f, b)}]
PendingAfter(f, calls, blocks) ==
  LET at[n \in 0..blocks] == IF n = 0 THEN [b \in Blocks(f) |-> {}] ELSE Onward(f, calls, at[n - 1])
  IN at[blocks]
Pending(f, calls) == PendingAfter(f, calls, Cardinality(Blocks(f)))
Races(f, calls) ==
  LET pending == Pending(f, calls) IN UNION {Through(f, b, pending[b], calls).races : b \in Blocks(f)}
PendingAtReturn(f, calls) ==
  LET pending == Pending(f, calls) IN UNION {Through(f, b, pending[b], calls).pending : b \in Returns(f)}

(* A call as what it leaves pending, where calls are nested up to depth.     *)
Functions == DOMAIN program.funcs
AsPending(pending) == [f \in Functions |-> Does(pending[f], FALSE, pending[f])]
Deeper(calls) == AsPending([f \in Functions |-> PendingAtReturn(f, calls)])
LeavesTo(depth) ==
  LET leaves[n \in 0..depth] ==
        IF n = 0 THEN AsPending([f \in Functions |-> {}]) ELSE Deeper(leaves[n - 1])
  IN leaves[depth]
CallLeaves == LeavesTo(Len(program.funcs))

(* A call as everything it does (callees of one block that call nothing).    *)
CallDoes ==
  [f \in Functions |->
     LET b == program.funcs[f].entry
         points == DOMAIN Code(f, b)
         does(i) == Behaviour(Code(f, b)[i], LeavesTo(0))
         fromStart == {i \in points : \A j \in 1..i : ~Barred(f, b, j) /\ (j < i => ~does(j).barrier)}
         toEnd == {i \in points : \A j \in i..Len(Code(f, b)) : (j > i => ~Barred(f, b, j) /\ ~does(j).barrier)}
     IN Does(UNION {does(i).first : i \in fromStart},
             \E i \in points : Barred(f, b, i) \/ does(i).barrier,
             UNION {does(i).last : i \in toEnd})]

(***************************************************************************)
(* What the properties need of a program.                                  *)
(***************************************************************************)
Operations(p) == UNION {UNION {ToSet(p.funcs[f].code[b]) : b \in DOMAIN p.funcs[f].code} : f \in DOMAIN p.funcs}
KnownViews(p) ==
  {s \in UNION {op.reads \union op.writes \union op.scratch : op \in Operations(p)} : s.view # Whole}
(* Where the part of a buffer that an access touches is known, all such      *)
(* parts of one kind are parts of one buffer, and no call moves it.          *)
ViewsAgree(p) ==
  /\ \A s, t \in KnownViews(p) : s.view.enc = t.view.enc => s.lo = t.lo /\ s.hi = t.hi
  /\ KnownViews(p) # {} => \A op \in Operations(p) : op.name = "call" => op.offset = 0
(* The last function is the kernel, and it ends where it returns.            *)
KernelReturns(p) ==
  LET kernel == p.funcs[Len(p.funcs)]
  IN \A b \in DOMAIN kernel.code : kernel.succ[b] = <<>> =>
       LET code == kernel.code[b]
       IN code # <<>> /\ code[Len(code)].name = "return" /\ code[Len(code)].kernel

(***************************************************************************)
(* Properties.                                                             *)
(***************************************************************************)
(* On every path, two accesses to the same bytes of which one writes have a  *)
(* barrier (or a fence, or a cluster barrier) between them when the analysis *)
(* has ended, where a call stands for the accesses it leaves pending.        *)
AccessesOrdered == Done => \A f \in Functions : Races(f, CallLeaves) = {}

(* A kernel does not return while other CTAs may still be in its shared      *)
(* memory: a cluster barrier follows every distributed access.               *)
ExitIsSafe ==
  Done /\ program.analysis = "Cluster" /\ ~program.twoCTAs =>
    \A a \in PendingAtReturn(Len(program.funcs), CallLeaves) : ~Distributed(a)

(* The same as AccessesOrdered, of everything the callee does: users do not  *)
(* have to insert barriers before and after function calls.                  *)
CallsOrdered == Done => \A f \in Functions : Races(f, CallDoes) = {}
=============================================================================
