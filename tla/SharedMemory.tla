---------------------------- MODULE SharedMemory ----------------------------
(* Shared memory from its buffers to its barriers: live ranges, offsets      *)
(* (Allocation), and the barriers between the accesses of what is placed     *)
(* (Membar).                                                                 *)
(*                                                                           *)
(* A program with buffers to place also has:                                 *)
(*   buffers    by decreasing size, [name, kind, size, align, neighbors];    *)
(*   partition  the size of a physical partition of the memory, or 0;        *)
(*   order      its operations as <<block, index>> in post-order;            *)
(*   region     of each block, the warp_specialize around it and the region; *)
(*   parent     of each task, the point of its warp_specialize.              *)
(* Its slices lie at the offset of their buffer.                             *)
EXTENDS Membar

VARIABLES buffers, partition, step, offset, rest, triples, interference
allocationVars == <<buffers, partition, step, offset, rest, triples, interference>>
A == INSTANCE Allocation

(***************************************************************************)
(* Live ranges, in the numbers of the operations (resolveLiveness).        *)
(***************************************************************************)
G == program.funcs[1]
OpAt(p) == G.code[p[1]][p[2]]
Points == ToSet(program.order)
Id(p) == CHOOSE n \in DOMAIN program.order : program.order[n] = p

Named(slices) == {s.buf : s \in slices}
Touches(p) == Named(OpAt(p).reads \union OpAt(p).writes \union OpAt(p).scratch)
Uses(x) == {n \in DOMAIN program.order : x.name \in Touches(program.order[n])}
(* The operation that allocates a buffer comes first among its users.        *)
Def(x) == program.order[Min(Uses(x))]

(* The blocks at whose end a use of x lies ahead.                            *)
LiveOut(x, def) ==
  LET into(b, blocks) == \E c \in ToSet(G.succ[b]) : c # def[1] /\ c \in blocks
      farther(blocks, n) == blocks \union {b \in DOMAIN G.code \ {def[1]} : into(b, blocks)}
      using == {program.order[n][1] : n \in Uses(x)}
      ahead == FoldLeft(farther, using, G.succ)
  IN {b \in ahead \union {def[1]} : into(b, ahead)}
(* Slip: live until the last use, in the order of the operations.            *)
UsedRange(x) ==
  IF x.kind = "function" THEN A!Interval(0, A!Forever) ELSE A!Interval(Min(Uses(x)), Max(Uses(x)) + 1)

(* In a block the buffer lives until the last use, or to the end of a block  *)
(* it is live out of, which may be an operation with regions: that one has   *)
(* a higher number than all that is in them.                                 *)
LiveRange(x) ==
  LET def == Def(x)
      last(b) == Id(<<b, Len(G.code[b])>>)
  IN IF x.kind = "function" THEN A!Interval(0, A!Forever)
     ELSE A!Interval(Id(def), Max(Uses(x) \union {last(b) : b \in LiveOut(x, def)}) + 1)

ToPlace(x) ==
  LET task == IF x.kind = "function" THEN [task |-> "none", region |-> 0] ELSE G.region[Def(x)[1]]
  IN [size |-> x.size, align |-> x.align, live |-> LiveRange(x),
      task |-> task.task, region |-> task.region, neighbors |-> x.neighbors]

(***************************************************************************)
(* The passes in their order.                                              *)
(***************************************************************************)
HasBuffers == program.buffers # <<>>
SharedMemoryInit ==
  /\ Init
  /\ IF HasBuffers
     THEN A!AllocationInit([n \in DOMAIN program.buffers |-> ToPlace(program.buffers[n])], program.partition)
     ELSE A!AllocationInit(<<>>, 0)

OffsetOf(name) == offset[CHOOSE n \in DOMAIN program.buffers : program.buffers[n].name = name]
IsScratch(name) == \E n \in DOMAIN program.buffers : program.buffers[n].name = name /\ program.buffers[n].kind = "scratch"
(* A slice of scratch memory names no buffer.                                *)
PlacedSlice(s) ==
  [s EXCEPT !.lo = @ + OffsetOf(s.buf), !.hi = @ + OffsetOf(s.buf),
            !.buf = IF IsScratch(@) THEN NoBuffer ELSE @]
PlacedSlices(slices) == {PlacedSlice(s) : s \in slices}
PlacedOp(op) ==
  [op EXCEPT !.reads = PlacedSlices(@), !.writes = PlacedSlices(@), !.scratch = PlacedSlices(@)]

(* The passes that follow read the offsets from the module.                  *)
Place ==
  /\ step = "placed" /\ step' = "done"
  /\ program' = IF HasBuffers
                THEN [program EXCEPT !.funcs[1].code = [b \in DOMAIN @ |-> [i \in DOMAIN @[b] |-> PlacedOp(@[b][i])]]]
                ELSE program
  /\ UNCHANGED <<func, work, inputs, outputs, inserted, summary>>
  /\ UNCHANGED <<buffers, partition, offset, rest, triples, interference>>

SharedMemoryNext ==
  \/ A!AllocationNext /\ UNCHANGED vars
  \/ Place
  \/ step = "done" /\ Next /\ UNCHANGED allocationVars
SharedMemorySpec ==
  SharedMemoryInit /\ [][SharedMemoryNext]_<<vars, allocationVars>> /\ WF_<<vars, allocationVars>>(SharedMemoryNext)

(***************************************************************************)
(* Properties.                                                             *)
(***************************************************************************)
Placement(n) == offset[n]..(offset[n] + buffers[n].size - 1)
After(p) ==
  IF p[2] < Len(G.code[p[1]]) THEN {<<p[1], p[2] + 1>>} ELSE {<<b, 1>> : b \in ToSet(G.succ[p[1]])}
(* The operations from which a use is reached without a new definition.      *)
Alive(x) ==
  LET farther(ahead, p) == ahead \union {q \in Points \ {Def(x)} : After(q) \cap (ahead \ {Def(x)}) # {}}
  IN IF x.kind = "function" THEN Points
     ELSE FoldLeft(farther, {program.order[n] : n \in Uses(x)}, program.order) \union {Def(x)}
(* Operations that may run while p needs x: of another region of its task,   *)
(* or, when p is a warp_specialize, of any of its regions.  The captures, in *)
(* its scratch memory, are read before the regions start.                    *)
TaskOf(p) == G.region[p[1]].task
During(x, p) ==
  {p} \union {q \in Points : TaskOf(q) # "none" /\
                (IF TaskOf(p) = "none" THEN p = G.parent /\ x.kind # "scratch" ELSE G.region[p[1]] # G.region[q[1]])}

(* On every path of the program, and in every region that runs at the same   *)
(* time, no operation touches a byte of a buffer between its definition and  *)
(* its last use on the path, but the operations on that buffer: the memory   *)
(* that is used again holds nothing that anybody still reads.                *)
ContentsKept ==
  step = "placed" /\ HasBuffers =>
    \A m, n \in DOMAIN buffers :
      m # n /\ Placement(m) \cap Placement(n) # {} =>
        \A p \in Alive(program.buffers[m]) : \A q \in During(program.buffers[m], p) : program.buffers[n].name \notin Touches(q)

(* There is a place left to try as long as a buffer has none (the code takes *)
(* the first of the places without asking).                                  *)
PlacesLeft == A!PlacesLeft

(* The rounds of the allocation end ("we will eventually reach a fixed       *)
(* point"), and so do the visits of the barrier analysis, whose transfer     *)
(* function is not monotone as barriers appear between visits.               *)
Settles == <>(step = "done" /\ Done)

(* The allocation is sound: it never runs out of places to try, and its      *)
(* result overwrites nothing that is still read.                             *)
AllocationSound == PlacesLeft /\ ContentsKept
=============================================================================
