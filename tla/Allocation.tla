----------------------------- MODULE Allocation -----------------------------
(* Offsets for the buffers of shared memory (lib/Analysis/Allocation.cpp): a *)
(* first guess from the live ranges, then rounds that move what interferes   *)
(* until nothing does.                                                       *)
EXTENDS Integers, SequencesExt, FiniteSetsExt

(* Buffers by decreasing size: [size, align, live, task, region, neighbors], *)
(* where task is the warp_specialize around the owner, or none, region the   *)
(* region the owner is in, and neighbors the other parts of a partitioned    *)
(* tensor; partition is the size of a physical partition of the memory or 0. *)
VARIABLES buffers, partition, step, offset, rest, triples, interference
allocationVars == <<buffers, partition, step, offset, rest, triples, interference>>

Forever == 1000
Interval(lo, hi) == [lo |-> lo, hi |-> hi]
Meet(i, j) == i.lo < j.hi /\ j.lo < i.hi
AlignTo(n, align) == ((n + align - 1) \div align) * align
PartitionOf(at) == at \div partition

AllocationInit(bs, size) ==
  /\ buffers = bs /\ partition = size
  /\ step = "starts" /\ offset = [b \in DOMAIN bs |-> 0]
  /\ rest = [b \in DOMAIN bs |-> b]
  /\ triples = <<[at |-> 0, range |-> Interval(0, Forever)]>>
  /\ interference = {}

(***************************************************************************)
(* calculateStarts: the free places, by their offset, and when each is.    *)
(***************************************************************************)
InsertTriple(ts, t) == SelectSeq(ts, LAMBDA u : u.at <= t.at) \o <<t>> \o SelectSeq(ts, LAMBDA u : u.at > t.at)
Triple(at, lo, hi) == [at |-> at, range |-> Interval(lo, hi)]

(* What a buffer at start leaves of a place: the room above it, and the      *)
(* place itself before and after its life.                                   *)
Left(place, b, start) ==
  LET live == buffers[b].live
      range == place.range
  IN <<Triple(start + buffers[b].size, Max({range.lo, live.lo}), Min({range.hi, live.hi}))>>
       \o (IF range.lo < live.lo THEN <<Triple(place.at, range.lo, live.hi)>> ELSE <<>>)
       \o (IF live.hi < range.hi THEN <<Triple(place.at, live.lo, range.hi)>> ELSE <<>>)

(* The first buffer that meets this place and no other; without one, the     *)
(* place is of no more use.                                                  *)
CalculateStart ==
  /\ step = "starts" /\ rest # <<>>
  /\ LET place == Head(triples)
         fits(b) == /\ Meet(buffers[b].live, place.range)
                    /\ \A t \in ToSet(Tail(triples)) : ~Meet(t.range, buffers[b].live)
         candidates == {n \in DOMAIN rest : fits(rest[n])}
     IN IF candidates = {}
        THEN triples' = Tail(triples) /\ UNCHANGED <<rest, offset>>
        ELSE LET n == Min(candidates)
                 start == AlignTo(place.at, buffers[rest[n]].align)
             IN /\ offset' = [offset EXCEPT ![rest[n]] = start]
                /\ rest' = RemoveAt(rest, n)
                /\ triples' = FoldLeft(InsertTriple, Tail(triples), Left(place, rest[n], start))
  /\ UNCHANGED <<buffers, partition, step, interference>>

(***************************************************************************)
(* The rounds.                                                             *)
(***************************************************************************)
Overlap(off, x, y) ==
  Meet(Interval(off[x], off[x] + buffers[x].size), Interval(off[y], off[y] + buffers[y].size))
Concurrent(x, y) ==
  buffers[x].task # "none" /\ buffers[x].task = buffers[y].task /\ buffers[x].region # buffers[y].region
Neighbors(x, y) == partition > 0 /\ y \in buffers[x].neighbors
InterferenceGraph(off) ==
  {<<x, y>> \in (DOMAIN buffers) \X (DOMAIN buffers) :
     /\ x # y
     /\ \/ Overlap(off, x, y) /\ (Meet(buffers[x].live, buffers[y].live) \/ Concurrent(x, y))
        \/ Neighbors(x, y) /\ PartitionOf(off[x]) = PartitionOf(off[y])}

BuildGraph ==
  /\ step = "starts" /\ rest = <<>>
  /\ interference' = InterferenceGraph(offset) /\ step' = "rounds"
  /\ UNCHANGED <<buffers, partition, offset, rest, triples>>

InterferesWith(x) == {y \in DOMAIN buffers : <<x, y>> \in interference}
Color ==
  LET color[x \in DOMAIN buffers] ==
        LET taken == {color[y] : y \in {z \in InterferesWith(x) : z < x}}
        IN Min({c \in 0..Len(buffers) : c \notin taken})
  IN color
Past(x, off) ==
  Max({0} \union {IF Neighbors(x, y) THEN (PartitionOf(off[y]) + 1) * partition ELSE off[y] + buffers[y].size :
                    y \in InterferesWith(x)})
Allocated ==
  LET color == Color
      move(off, x) == IF color[x] = 0 THEN off ELSE [off EXCEPT ![x] = AlignTo(Past(x, off), buffers[x].align)]
  IN FoldLeft(move, offset, [x \in DOMAIN buffers |-> x])

Allocate ==
  /\ step = "rounds"
  /\ offset' = Allocated
  /\ interference' = InterferenceGraph(offset')
  /\ step' = (IF interference' = {} THEN "placed" ELSE "rounds")
  /\ UNCHANGED <<buffers, partition, rest, triples>>

AllocationNext == CalculateStart \/ BuildGraph \/ Allocate

(* There is a place left to try as long as a buffer has none (the code takes *)
(* the first of the places without asking).                                  *)
PlacesLeft == step = "starts" /\ rest # <<>> => triples # <<>>
=============================================================================
