------------------------- MODULE GSanRuntimeProofs --------------------------
(***************************************************************************)
(* What holds of the race detector however many workers share an SM and    *)
(* whatever its tables' sizes: its variables stay in their types, no       *)
(* worker waits for another in a circle, and a cell's read slots name each *)
(* reader once.                                                            *)
(*                                                                         *)
(* And, from "The clocks" on: epochs, tokens and ring slots say what       *)
(* happens-before says, for any number of devices, SMs, cells, accesses    *)
(* and launches, when each SM runs one worker and until a ring is full.    *)
(* Co-resident workers break it (initThread writes without the lock), and  *)
(* so does a ring slot that is filled again while its token is in use.     *)
(*                                                                         *)
(* And, in "The lock", that the lock these workers take is one.            *)
(***************************************************************************)
EXTENDS GSanRuntime, GSanRWLock, FiniteSetTheorems, WellFoundedInduction, TLAPS

-----------------------------------------------------------------------------
(* Greatest and least elements                                             *)

\* A set of naturals that is not empty has a least element.
LEMMA LeastNatural ==
    ASSUME NEW S \in SUBSET Nat, S # {}
    PROVE  \E x \in S : \A y \in S : x =< y
  <1>1. PICK x \in S : \A y \in S : ~ (<<y, x>> \in OpToRel(<, Nat))
    BY WFMin, NatLessThanWellFounded
  <1>2. \A y \in S : ~ (y < x)
    BY <1>1 DEF OpToRel
  <1> QED
    BY <1>2

LEMMA MinProperties ==
    ASSUME NEW S \in SUBSET Nat, S # {}
    PROVE  Min(S) \in S /\ \A y \in S : Min(S) =< y
  BY LeastNatural DEF Min

\* A finite set of naturals is bounded: otherwise the first index at which an
\* enumeration of it exceeds every bound has a predecessor that does not.
LEMMA FiniteIsBounded ==
    ASSUME NEW S \in SUBSET Nat, IsFiniteSet(S)
    PROVE  \E b \in Nat : \A x \in S : x =< b
  <1> DEFINE n == Cardinality(S)
  <1>1. n \in Nat /\ ExistsBijection(1 .. n, S)
    BY FS_CardinalityType
  <1>2. PICK f \in Bijection(1 .. n, S) : TRUE
    BY <1>1 DEF ExistsBijection
  <1> HIDE DEF n
  <1>3. f \in [1 .. n -> S] /\ \A x \in S : \E i \in 1 .. n : f[i] = x
    BY <1>2 DEF Bijection, Injection, Surjection
  <1> DEFINE Bad == {m \in Nat : m =< n /\ \A b \in Nat : \E i \in 1 .. m : f[i] > b}
  <1>4. \A i \in 1 .. n : f[i] \in Nat
    BY <1>3
  <1>5. \A m \in Nat : m =< n /\ m \notin Bad => \E b \in Nat : \A i \in 1 .. m : f[i] =< b
    <2> SUFFICES ASSUME NEW m \in Nat, m =< n, m \notin Bad
                 PROVE  \E b \in Nat : \A i \in 1 .. m : f[i] =< b
      OBVIOUS
    <2>1. PICK b \in Nat : \A i \in 1 .. m : ~ (f[i] > b)
      OBVIOUS
    <2>2. \A i \in 1 .. m : f[i] \in Nat
      BY <1>1, <1>4
    <2>3. \A i \in 1 .. m : f[i] =< b
      BY <2>1, <2>2
    <2> QED
      BY <2>3
  <1>6. \A m \in Bad : m \in Nat /\ m =< n /\ \A b \in Nat : \E i \in 1 .. m : f[i] > b
    OBVIOUS
  <1>7. Bad \in SUBSET Nat
    OBVIOUS
  <1> HIDE DEF Bad
  <1>8. Bad = {}
    <2> SUFFICES ASSUME Bad # {} PROVE FALSE
      OBVIOUS
    <2>1. PICK m \in Bad : \A k \in Bad : m =< k
      BY <1>7, LeastNatural
    <2>2. m \in Nat /\ m =< n /\ \A b \in Nat : \E i \in 1 .. m : f[i] > b
      BY <1>6
    <2>3. m # 0
      BY <2>2
    <2>4. m - 1 \in Nat /\ m - 1 =< n /\ m - 1 \notin Bad /\ m \in 1 .. n
      BY <1>1, <2>1, <2>2, <2>3, <1>7
    <2>5. PICK b \in Nat : \A i \in 1 .. (m - 1) : f[i] =< b
      BY <1>5, <2>4
    <2>6. f[m] \in Nat
      BY <1>4, <2>4
    <2>7. PICK c \in Nat : b =< c /\ f[m] =< c
      <3>1. b =< f[m] \/ f[m] =< b
        BY <2>6
      <3> QED
        BY <2>6, <3>1
    <2>8. PICK i \in 1 .. m : f[i] > c
      BY <2>2
    <2>9. f[i] \in Nat
      BY <1>1, <1>4, <2>2, <2>8
    <2>10. i # m
      BY <2>6, <2>7, <2>8
    <2>11. f[i] =< b
      BY <2>2, <2>5, <2>8, <2>10
    <2> QED
      BY <2>7, <2>8, <2>9, <2>11
  <1>9. \E b \in Nat : \A i \in 1 .. n : f[i] =< b
    <2>1. n \notin Bad /\ n =< n
      BY <1>1, <1>8
    <2> QED
      BY <1>1, <1>5, <2>1
  <1> QED
    BY <1>3, <1>9

\* A set of naturals that is bounded and not empty has a greatest element.
LEMMA MaxOfBounded ==
    ASSUME NEW S \in SUBSET Nat, S # {}, NEW b \in Nat, \A x \in S : x =< b
    PROVE  Max(S) \in S /\ \A y \in S : Max(S) >= y
  <1> DEFINE Bounds == {c \in Nat : \A x \in S : x =< c}
  <1>1. PICK c \in Bounds : \A d \in Bounds : c =< d
    BY LeastNatural
  <1>2. c \in S
    <2> SUFFICES ASSUME c \notin S PROVE FALSE
      OBVIOUS
    <2>1. \A x \in S : x < c
      BY <1>1
    <2>2. PICK x \in S : TRUE
      OBVIOUS
    <2>3. c \in Nat /\ x \in Nat /\ x < c
      BY <2>1, <2>2
    <2>4. c - 1 \in Nat /\ \A y \in S : y =< c - 1
      BY <2>1, <2>3
    <2> QED
      BY <1>1, <2>3, <2>4
  <1>3. \E x \in S : \A y \in S : x >= y
    BY <1>1, <1>2
  <1> QED
    BY <1>3 DEF Max

LEMMA MaxOfFinite ==
    ASSUME NEW S \in SUBSET Nat, S # {}, IsFiniteSet(S)
    PROVE  Max(S) \in S /\ \A y \in S : Max(S) >= y
  BY FiniteIsBounded, MaxOfBounded

\* The elementwise maximum is attained by one of the clocks and is above each.
LEMMA MaximumProperties ==
    ASSUME NEW clocks, NEW bound \in [Threads -> Nat], clocks # {},
           \A f \in clocks : f \in [Threads -> Nat] /\ \A t \in Threads : f[t] =< bound[t]
    PROVE  /\ Maximum(clocks) \in [Threads -> Nat]
           /\ \A t \in Threads : /\ \E f \in clocks : Maximum(clocks)[t] = f[t]
                                 /\ \A f \in clocks : f[t] =< Maximum(clocks)[t]
  <1>1. ASSUME NEW t \in Threads
        PROVE  /\ Max({f[t] : f \in clocks}) \in {f[t] : f \in clocks}
               /\ \A y \in {f[t] : f \in clocks} : Max({f[t] : f \in clocks}) >= y
    <2> DEFINE S == {f[t] : f \in clocks}
    <2>1. S \in SUBSET Nat /\ S # {} /\ bound[t] \in Nat /\ \A x \in S : x =< bound[t]
      OBVIOUS
    <2> HIDE DEF S
    <2>2. Max(S) \in S /\ \A y \in S : Max(S) >= y
      BY <2>1, MaxOfBounded
    <2> QED
      BY <2>2 DEF S
  <1>2. Maximum(clocks) = [t \in Threads |-> Max({f[t] : f \in clocks})]
    BY DEF Maximum
  <1>3. \A t \in Threads : Maximum(clocks)[t] = Max({f[t] : f \in clocks})
    BY <1>2
  <1> HIDE DEF Maximum
  <1>4. \A t \in Threads : \E f \in clocks : Maximum(clocks)[t] = f[t]
    BY <1>1, <1>3
  <1>5. \A t \in Threads : \A f \in clocks : f[t] =< Maximum(clocks)[t]
    BY <1>1, <1>3
  <1>6. \A t \in Threads : Maximum(clocks)[t] \in Nat
    BY <1>4
  <1> QED
    BY <1>2, <1>4, <1>5, <1>6

-----------------------------------------------------------------------------
(* The inductive invariant                                                 *)

RegisterType ==
    [pc : PCs, done : Nat, op : OperationType \cup {NoOperation}, idx : Nat \ {0},
     epoch : 0 .. MaxEpoch, word : [dirty : BOOLEAN, head : 0 .. MaxEpoch],
     token : 0 .. MaxEpoch, snapshot : ClockType]

BufferType == [dirty : BOOLEAN, head : 0 .. MaxEpoch, slots : [0 .. ClockBufferSize - 1 -> ClockType]]

CellType == [reads : [ReadSlots -> ScalarClockType], write : ScalarClockType, numReads : Nat]

Counts == [Threads -> Nat]

Typed ==
    /\ vectorClock \in [Threads -> ClockType]
    /\ buffer \in [Threads -> BufferType]
    /\ ready \subseteq Threads
    /\ lock \in [Threads -> [readers : SUBSET Workers, writers : SUBSET Workers]]
    /\ shadow \in [Cells -> CellType]
    /\ cellLock \in [Cells -> Workers \cup {NoWorker}]
    /\ worker \in [Workers -> RegisterType]
    /\ program \in Programs
    /\ launches \in [Devices -> Nat] /\ \A d \in Devices : launches[d] =< program.launches[d]
    /\ known \in [Threads -> Counts] /\ carried \in [Cells -> Counts]

\* No thread and no cell knows an access that its thread has not made.
CountsBounded ==
    \A u \in Threads : /\ \A t \in Threads : known[t][u] =< known[u][u]
                       /\ \A c \in Cells : carried[c][u] =< known[u][u]

PlainKinds == {"load", "store"}
AtomicKinds == {"rmw", "cas"}
InAtomic == {"begin", "end", "fill", "moveHead", "commit", "release"}
InAccess == {"lockRead", "lockWrite", "range", "access"} \cup InAtomic
PastEntry == {"loadWord", "storeWord", "idle"} \cup InAccess

\* What the registers x of a worker are at each step: in an access they hold an
\* operation of the program of the step's kind, and a cell of its range while
\* there is one to acquire.
RegistersFit(x, ops) ==
    /\ x.pc = "storeEpoch" => x.epoch < MaxEpoch
    /\ x.pc \in InAccess => x.op \in ops
    /\ x.pc \in {"lockRead", "access"} => x.op.kind \in PlainKinds
    /\ x.pc \in {"lockWrite"} \cup InAtomic => x.op.kind \in AtomicKinds
    /\ x.pc \in {"lockRead", "lockWrite"} => x.idx = 1
    /\ x.pc = "range" => x.idx =< Len(x.op.cells) + 1
    /\ x.pc = "access" \/ (x.pc = "range" /\ x.op.kind \in AtomicKinds) => x.idx =< Len(x.op.cells)

\* The locks a worker with registers x may hold.
IsReader(x) == x.pc \in {"range", "access"} /\ x.op.kind \in PlainKinds
IsWriter(x) == x.pc \in {"range"} \cup InAtomic /\ x.op.kind \in AtomicKinds
Holds(x, c) ==
    \/ x.pc = "access" /\ c = x.op.cells[x.idx]
    \/ x.pc = "range" /\ x.op.kind \in AtomicKinds /\ \E i \in 1 .. Len(x.op.cells) : i < x.idx /\ c = x.op.cells[i]
    \/ x.pc \in InAtomic /\ c \in CellsOf(x.op)

LocksHeld ==
    /\ \A t \in Threads : /\ \A v \in lock[t].readers : SmOf[v] = t /\ IsReader(worker[v])
                          /\ \A v \in lock[t].writers : SmOf[v] = t /\ IsWriter(worker[v])
    /\ \A c \in Cells : cellLock[c] # NoWorker => Holds(worker[cellLock[c]], c)

\* The slots in use come first, and no two of them are the same thread's.
ReadsFit(cell) ==
    \A i, j \in ReadSlots :
        /\ i < j /\ cell.reads[j].epoch # 0 => cell.reads[i].epoch # 0
        /\ i # j /\ cell.reads[i].epoch # 0 /\ cell.reads[j].epoch # 0
               => cell.reads[i].threadId # cell.reads[j].threadId

Entered == \A w \in Workers : worker[w].pc \in PastEntry => vectorClock[SmOf[w]][SmOf[w]] # 0

IInv ==
    /\ Typed /\ CountsBounded
    /\ \A w \in Workers : RegistersFit(worker[w], program.operations)
    /\ LocksHeld
    /\ \A c \in Cells : ReadsFit(shadow[c])
    /\ Entered

\* What the program's operations are.
LEMMA Operations ==
    ASSUME Typed, NEW o \in program.operations
    PROVE  /\ o \in OperationType /\ o.cells \in Seq(Cells) /\ Ascending(o.cells)
           /\ o.kind \in PlainKinds \cup AtomicKinds /\ o.sem \in Sems /\ o.scope \in Scopes
           /\ Len(o.cells) \in Nat \ {0}
           /\ \A i \in 1 .. Len(o.cells) : o.cells[i] \in Cells
           /\ DOMAIN o.cells = 1 .. Len(o.cells)
  <1>1. o \in OperationType /\ o.cells # <<>> /\ Ascending(o.cells)
    BY ConstantsAssumption DEF Typed
  <1>2. /\ o.cells \in Seq(Cells) /\ o.kind \in PlainKinds \cup AtomicKinds
        /\ o.sem \in Sems /\ o.scope \in Scopes
    BY <1>1 DEF OperationType, PlainKinds, AtomicKinds, Sems, Scopes
  <1>3. \A q \in Seq(Cells) : /\ Len(q) \in Nat /\ (q # <<>> => Len(q) # 0)
                              /\ DOMAIN q = 1 .. Len(q) /\ \A i \in 1 .. Len(q) : q[i] \in Cells
    OBVIOUS
  <1> QED
    BY <1>1, <1>2, <1>3

LEMMA CellsOfOperation ==
    ASSUME Typed, NEW o \in program.operations
    PROVE  /\ CellsOf(o) = {o.cells[i] : i \in 1 .. Len(o.cells)}
           /\ CellsOf(o) \subseteq Cells /\ o.cells[1] \in CellsOf(o)
  BY Operations DEF CellsOf

-----------------------------------------------------------------------------
(* No deadlock                                                             *)

\* Whoever waits for a cell waits for one above those it holds, so the workers
\* of a circle that wait for the greatest cell would wait for one greater still;
\* and whoever holds the lock of an SM waits for cells only.
LEMMA NoCircle ==
    ASSUME IInv, NEW S \in (SUBSET Workers) \ {{}},
           \A w \in S : WaitsFor(w) \cap S # {}
    PROVE  FALSE
  <1>1. /\ Typed /\ LocksHeld
        /\ \A w \in Workers : RegistersFit(worker[w], program.operations)
    BY DEF IInv
  <1>2. S \subseteq Workers /\ S # {}
    OBVIOUS
  <1> DEFINE OnCell == {w \in S : worker[w].pc = "range" /\ ~RangeDone(w)}
  <1>3. \A w \in S : worker[w].pc \in {"lockRead", "lockWrite"} \/ w \in OnCell
    BY DEF WaitsFor
  <1>4. ASSUME NEW w \in S, worker[w].pc \in {"lockRead", "lockWrite"}
        PROVE  OnCell # {}
    <2>1. PICK v \in S : v \in lock[SmOf[w]].writers \cup lock[SmOf[w]].readers
      BY <1>4 DEF WaitsFor
    <2>2. SmOf[w] \in Threads
      BY <1>2, ConstantsAssumption
    <2>3. IsReader(worker[v]) \/ IsWriter(worker[v])
      BY <1>1, <2>1, <2>2 DEF LocksHeld
    <2>4. worker[v].pc \notin {"lockRead", "lockWrite"}
      BY <2>3 DEF IsReader, IsWriter, InAtomic
    <2> QED
      BY <1>3, <2>4
  <1>5. OnCell # {}
    BY <1>2, <1>3, <1>4
  <1>6. ASSUME NEW w \in OnCell
        PROVE  /\ CurrentCell(w) \in Cells
               /\ Op(w) \in program.operations
               /\ worker[w].idx \in 1 .. Len(Op(w).cells)
               /\ \E v \in S : v = cellLock[CurrentCell(w)] /\ v # NoWorker
    <2>1. w \in Workers /\ worker[w].pc = "range" /\ ~RangeDone(w)
      BY <1>2
    <2>2. Op(w) \in program.operations
      BY <1>1, <2>1 DEF RegistersFit, InAccess, Op
    <2>3. worker[w].idx \in Nat \ {0}
      BY <1>1, <2>1 DEF Typed, RegisterType
    <2>4. worker[w].idx \in 1 .. Len(Op(w).cells)
      BY <1>1, <2>1, <2>2, <2>3, Operations DEF RangeDone
    <2>5. CurrentCell(w) \in Cells
      BY <1>1, <2>2, <2>4, Operations DEF CurrentCell
    <2>6. WaitsFor(w) = {cellLock[CurrentCell(w)]} \ {NoWorker}
      BY <2>1 DEF WaitsFor
    <2> QED
      BY <2>1, <2>2, <2>4, <2>5, <2>6
  <1> DEFINE Wanted == {CurrentCell(w) : w \in OnCell}
  <1>7. Wanted \subseteq Cells /\ Wanted # {}
    BY <1>5, <1>6
  <1>8. IsFiniteSet(Wanted) /\ Wanted \in SUBSET Nat
    BY <1>7, ConstantsAssumption, FS_Subset
  <1>9. Max(Wanted) \in Wanted /\ \A c \in Wanted : Max(Wanted) >= c
    BY <1>7, <1>8, MaxOfFinite
  <1>10. PICK w \in OnCell : CurrentCell(w) = Max(Wanted)
    BY <1>9
  <1>11. PICK v \in S : v = cellLock[CurrentCell(w)] /\ v # NoWorker
    BY <1>6
  <1>12. Holds(worker[v], CurrentCell(w)) /\ v \in Workers
    BY <1>1, <1>2, <1>6, <1>11 DEF LocksHeld
  <1>13. v \in OnCell
    <2>1. worker[v].pc \notin {"lockRead", "lockWrite"}
      BY <1>12 DEF Holds, InAtomic
    <2> QED
      BY <1>3, <2>1
  <1>14. /\ CurrentCell(v) \in Nat /\ CurrentCell(w) \in Nat
         /\ CurrentCell(v) =< CurrentCell(w)
    <2>1. CurrentCell(v) \in Wanted /\ CurrentCell(w) \in Wanted
      BY <1>13
    <2> QED
      BY <1>8, <1>9, <1>10, <2>1
  <1>15. worker[v].pc = "range" /\ v \in S
    BY <1>13
  <1>16. PICK i \in 1 .. Len(worker[v].op.cells) : i < worker[v].idx /\ CurrentCell(w) = worker[v].op.cells[i]
    BY <1>12, <1>15 DEF Holds, InAtomic
  <1>17. /\ Op(v) \in program.operations
         /\ worker[v].idx \in 1 .. Len(Op(v).cells)
    BY <1>6, <1>13
  <1>18. CurrentCell(w) < CurrentCell(v)
    <2>1. Ascending(Op(v).cells)
      BY <1>1, <1>17, Operations
    <2> QED
      BY <1>16, <1>17, <2>1 DEF Ascending, CurrentCell, Op
  <1> QED
    BY <1>14, <1>18

LEMMA LocksAreFreed ==
    ASSUME IInv PROVE NoDeadlock
  <1>1. /\ Typed /\ LocksHeld
        /\ \A w \in Workers : RegistersFit(worker[w], program.operations)
    BY DEF IInv
  <1>2. ASSUME NEW w \in Workers, NEW v \in Workers, v \in WaitsFor(w)
        PROVE  worker[v].pc \notin {"idle", "exited"}
    <2>1. SmOf[w] \in Threads
      BY ConstantsAssumption
    <2>2. CASE worker[w].pc \in {"lockRead", "lockWrite"}
      <3>1. v \in lock[SmOf[w]].writers \cup lock[SmOf[w]].readers
        BY <1>2, <2>2 DEF WaitsFor
      <3> QED
        BY <1>1, <2>1, <3>1 DEF LocksHeld, IsReader, IsWriter, InAtomic
    <2>3. CASE worker[w].pc = "range" /\ ~RangeDone(w)
      <3>1. v = cellLock[CurrentCell(w)] /\ v # NoWorker
        BY <1>2, <2>3 DEF WaitsFor
      <3>2. Op(w) \in program.operations /\ worker[w].idx \in Nat \ {0}
        BY <1>1, <2>3 DEF RegistersFit, InAccess, Op, Typed, RegisterType
      <3>3. worker[w].idx \in 1 .. Len(Op(w).cells)
        BY <1>1, <2>3, <3>2, Operations DEF RangeDone
      <3>4. CurrentCell(w) \in Cells
        BY <1>1, <3>2, <3>3, Operations DEF CurrentCell
      <3>5. Holds(worker[v], CurrentCell(w))
        BY <1>1, <3>1, <3>4 DEF LocksHeld
      <3> QED
        BY <3>5 DEF Holds, InAtomic
    <2> QED
      BY <1>2, <2>2, <2>3 DEF WaitsFor
  <1>3. \A S \in (SUBSET Workers) \ {{}} : \E w \in S : WaitsFor(w) \cap S = {}
    BY NoCircle
  <1> QED
    BY <1>2, <1>3 DEF NoDeadlock

-----------------------------------------------------------------------------
(* Read slots                                                              *)

ReadersOf(cell) == {cell.reads[i].threadId : i \in {j \in ReadSlots : cell.reads[j].epoch # 0}}

\* recordRead keeps the slots in use first and each thread's once, and replaces
\* another reader only when no slot is free.
LEMMA RecordedReads ==
    ASSUME Typed, NEW c \in Cells, ReadsFit(shadow[c]),
           NEW t \in Threads, NEW clock \in ScalarClockType, clock.threadId = t, clock.epoch # 0,
           NEW slot \in ReadSlotChoices(t, c)
    PROVE  /\ RecordRead(shadow[c], slot, clock) \in CellType
           /\ RecordRead(shadow[c], slot, clock).write = shadow[c].write
           /\ \A i \in ReadSlots : \/ RecordRead(shadow[c], slot, clock).reads[i] = shadow[c].reads[i]
                                   \/ RecordRead(shadow[c], slot, clock).reads[i] = clock
           /\ ReadsFit(RecordRead(shadow[c], slot, clock))
           /\ (\E i \in ReadSlots : shadow[c].reads[i].epoch = 0)
                => ReadersOf(shadow[c]) \subseteq ReadersOf(RecordRead(shadow[c], slot, clock))
  <1> DEFINE reads == shadow[c].reads
             usable == {i \in ReadSlots : reads[i].threadId = t \/ reads[i].epoch = 0}
             after == RecordRead(shadow[c], slot, clock)
  <1>1. shadow[c] \in CellType
    BY DEF Typed
  <1>2. /\ reads \in [ReadSlots -> ScalarClockType] /\ shadow[c].write \in ScalarClockType
        /\ shadow[c].numReads \in Nat
    BY <1>1 DEF CellType
  <1>3. usable \in SUBSET Nat /\ ReadSlots \subseteq Nat
    BY ConstantsAssumption DEF ReadSlots
  <1>4. usable # {} => slot \in usable /\ \A i \in usable : slot =< i
    <2>1. usable # {} => slot = Min(usable)
      BY DEF ReadSlotChoices
    <2> HIDE DEF usable
    <2> QED
      BY <1>3, <2>1, MinProperties
  <1>5. slot \in Nat
    <2>1. usable = {} => slot \in 1 .. shadow[c].numReads
      BY DEF ReadSlotChoices
    <2> QED
      BY <1>2, <1>3, <1>4, <2>1
  <1>6. /\ after = [shadow[c] EXCEPT !.numReads = shadow[c].numReads + 1,
                     !.reads = IF slot \in ReadSlots THEN [reads EXCEPT ![slot] = clock] ELSE reads]
    BY DEF RecordRead
  <1>7. after \in CellType
    <2> DEFINE some == IF slot \in ReadSlots THEN [reads EXCEPT ![slot] = clock] ELSE reads
    <2>1. some \in [ReadSlots -> ScalarClockType]
      BY <1>2
    <2>2. after = [shadow[c] EXCEPT !.numReads = shadow[c].numReads + 1, !.reads = some]
      BY <1>6
    <2>3. shadow[c].numReads + 1 \in Nat
      BY <1>2
    <2> HIDE DEF reads, after, some
    <2>4. after.reads = some /\ after.write = shadow[c].write /\ after.numReads = shadow[c].numReads + 1
      BY <1>1, <2>2 DEF CellType
    <2>5. after = [reads |-> some, write |-> shadow[c].write, numReads |-> shadow[c].numReads + 1]
      BY <1>1, <2>2 DEF CellType
    <2> QED
      BY <1>2, <2>1, <2>3, <2>5 DEF CellType
  <1>8. /\ after.reads = IF slot \in ReadSlots THEN [reads EXCEPT ![slot] = clock] ELSE reads
        /\ after.write = shadow[c].write
    BY <1>1, <1>6 DEF CellType
  <1>9. \A i \in ReadSlots : after.reads[i] = IF i = slot THEN clock ELSE reads[i]
    BY <1>2, <1>8
  <1> HIDE DEF after
  <1>10. ASSUME NEW i \in ReadSlots, NEW j \in ReadSlots
         PROVE  /\ i < j /\ reads[j].epoch # 0 => reads[i].epoch # 0
                /\ i # j /\ reads[i].epoch # 0 /\ reads[j].epoch # 0
                     => reads[i].threadId # reads[j].threadId
    BY DEF ReadsFit
  <1>11. \A i \in ReadSlots : i \in usable <=> reads[i].threadId = t \/ reads[i].epoch = 0
    OBVIOUS
  <1> HIDE DEF usable, reads
  <1>12. \A i \in ReadSlots : i # slot /\ reads[i].epoch # 0 /\ slot \in ReadSlots => reads[i].threadId # t
    <2> SUFFICES ASSUME NEW i \in ReadSlots, i # slot, reads[i].epoch # 0, slot \in ReadSlots,
                        reads[i].threadId = t
                 PROVE  FALSE
      OBVIOUS
    <2>1. i \in usable /\ slot \in usable /\ slot =< i
      BY <1>4, <1>11
    <2>2. slot < i
      BY <1>3, <2>1
    <2>3. reads[slot].epoch # 0 /\ reads[slot].threadId = t
      BY <1>10, <1>11, <2>1, <2>2
    <2> QED
      BY <1>10, <2>3
  <1>13. ReadsFit(after)
    <2> SUFFICES ASSUME NEW i \in ReadSlots, NEW j \in ReadSlots
                 PROVE  /\ i < j /\ after.reads[j].epoch # 0 => after.reads[i].epoch # 0
                        /\ i # j /\ after.reads[i].epoch # 0 /\ after.reads[j].epoch # 0
                             => after.reads[i].threadId # after.reads[j].threadId
      BY DEF ReadsFit
    <2>1. i < j /\ after.reads[j].epoch # 0 => after.reads[i].epoch # 0
      <3> SUFFICES ASSUME i < j, after.reads[j].epoch # 0, after.reads[i].epoch = 0 PROVE FALSE
        OBVIOUS
      <3>1. i # slot /\ reads[i].epoch = 0
        BY <1>9
      <3>2. j = slot
        BY <1>9, <1>10, <3>1
      <3>3. i \in usable /\ slot =< i
        BY <1>4, <1>11, <3>1
      <3> QED
        BY <1>3, <3>2, <3>3
    <2>2. i # j /\ after.reads[i].epoch # 0 /\ after.reads[j].epoch # 0
            => after.reads[i].threadId # after.reads[j].threadId
      BY <1>9, <1>10, <1>12
    <2> QED
      BY <2>1, <2>2
  <1>14. ASSUME NEW k \in ReadSlots, reads[k].epoch = 0
         PROVE  ReadersOf(shadow[c]) \subseteq ReadersOf(after)
    <2>1. slot \in usable
      BY <1>4, <1>11, <1>14
    <2>2. slot \in ReadSlots /\ (reads[slot].threadId = t \/ reads[slot].epoch = 0)
      BY <2>1 DEF usable
    <2>3. ASSUME NEW i \in ReadSlots, reads[i].epoch # 0
          PROVE  \E j \in ReadSlots : after.reads[j].epoch # 0 /\ after.reads[j].threadId = reads[i].threadId
      BY <1>9, <2>2, <2>3
    <2> QED
      BY <2>3 DEF ReadersOf, reads
  <1>15. \A i \in ReadSlots : after.reads[i] = shadow[c].reads[i] \/ after.reads[i] = clock
    BY <1>9 DEF reads
  <1>16. (\E i \in ReadSlots : shadow[c].reads[i].epoch = 0) => ReadersOf(shadow[c]) \subseteq ReadersOf(after)
    BY <1>14 DEF reads
  <1> QED
    BY <1>7, <1>8, <1>13, <1>15, <1>16 DEF after

\* Slots of different threads are as many as the threads they name.
LEMMA ReadersCounted ==
    ASSUME NEW cell \in CellType, ReadsFit(cell)
    PROVE  Cardinality(ReadersOf(cell)) = Cardinality({i \in ReadSlots : cell.reads[i].epoch # 0})
  <1> DEFINE used == {i \in ReadSlots : cell.reads[i].epoch # 0}
             f == [i \in used |-> cell.reads[i].threadId]
  <1>1. ReadSlots \subseteq Nat
    BY ConstantsAssumption DEF ReadSlots
  <1>2. IsFiniteSet(used)
    <2>1. IsFiniteSet(ReadSlots)
      BY ConstantsAssumption, FS_Interval DEF ReadSlots
    <2> QED
      BY <2>1, FS_Subset
  <1>3. ReadersOf(cell) = {cell.reads[i].threadId : i \in used}
    BY DEF ReadersOf
  <1>4. f \in [used -> ReadersOf(cell)]
    BY <1>3
  <1>5. \A i, j \in used : f[i] = f[j] => i = j
    BY DEF ReadsFit
  <1>6. \A u \in ReadersOf(cell) : \E i \in used : f[i] = u
    BY <1>3
  <1>7. f \in Bijection(used, ReadersOf(cell))
    <2> HIDE DEF used, f
    <2> QED
      BY <1>4, <1>5, <1>6 DEF Bijection, Injection, Surjection, IsInjective
  <1> HIDE DEF used, f
  <1>8. Cardinality(ReadersOf(cell)) = Cardinality(used)
    BY <1>2, <1>7, FS_Bijection DEF ExistsBijection
  <1> QED
    BY <1>8 DEF used

-----------------------------------------------------------------------------
(* One worker's step                                                       *)

Untouched == UNCHANGED <<threadVars, lock, shadowVars, program, launches, ghostVars>>

\* A step gives worker w the registers x and leaves the other workers' alone.
LEMMA RegistersStep ==
    ASSUME IInv, NEW w \in Workers, NEW x \in RegisterType, worker' = [worker EXCEPT ![w] = x],
           RegistersFit(x, program.operations), program' = program
    PROVE  /\ worker' \in [Workers -> RegisterType]
           /\ \A v \in Workers : worker'[v] = IF v = w THEN x ELSE worker[v]
           /\ \A v \in Workers : RegistersFit(worker'[v], program'.operations)
  <1>1. worker \in [Workers -> RegisterType]
    BY DEF IInv, Typed
  <1>2. \A v \in Workers : worker'[v] = IF v = w THEN x ELSE worker[v]
    BY <1>1
  <1>3. \A v \in Workers : RegistersFit(worker'[v], program'.operations)
    BY <1>2 DEF IInv
  <1> QED
    BY <1>1, <1>2, <1>3

\* The locks stay held if w keeps the right to those it has.
LEMMA SameLocks ==
    ASSUME IInv, NEW w \in Workers, NEW x \in RegisterType, worker' = [worker EXCEPT ![w] = x],
           lock' = lock, cellLock' = cellLock,
           IsReader(worker[w]) => IsReader(x), IsWriter(worker[w]) => IsWriter(x),
           \A c \in Cells : Holds(worker[w], c) => Holds(x, c)
    PROVE  LocksHeld'
  <1>1. worker \in [Workers -> RegisterType] /\ LocksHeld
        /\ lock \in [Threads -> [readers : SUBSET Workers, writers : SUBSET Workers]]
        /\ cellLock \in [Cells -> Workers \cup {NoWorker}]
    BY DEF IInv, Typed
  <1>2. \A v \in Workers : worker'[v] = IF v = w THEN x ELSE worker[v]
    BY <1>1
  <1>3. \A t \in Threads : /\ \A v \in lock'[t].readers : SmOf[v] = t /\ IsReader(worker'[v])
                           /\ \A v \in lock'[t].writers : SmOf[v] = t /\ IsWriter(worker'[v])
    <2> TAKE t \in Threads
    <2>1. lock[t].readers \subseteq Workers /\ lock[t].writers \subseteq Workers
      BY <1>1
    <2> QED
      BY <1>1, <1>2, <2>1 DEF LocksHeld
  <1>4. \A c \in Cells : cellLock'[c] # NoWorker => Holds(worker'[cellLock'[c]], c)
    <2> TAKE c \in Cells
    <2>1. cellLock[c] \in Workers \cup {NoWorker}
      BY <1>1
    <2> QED
      BY <1>1, <1>2, <2>1 DEF LocksHeld
  <1> QED
    BY <1>3, <1>4 DEF LocksHeld

LEMMA WorkerStep ==
    ASSUME IInv, NEW w \in Workers, NEW x \in RegisterType, worker' = [worker EXCEPT ![w] = x],
           RegistersFit(x, program.operations), LocksHeld',
           vectorClock' \in [Threads -> ClockType], buffer' \in [Threads -> BufferType],
           ready' \subseteq Threads,
           lock' \in [Threads -> [readers : SUBSET Workers, writers : SUBSET Workers]],
           shadow' \in [Cells -> CellType], cellLock' \in [Cells -> Workers \cup {NoWorker}],
           known' \in [Threads -> Counts], carried' \in [Cells -> Counts], CountsBounded',
           \A c \in Cells : ReadsFit(shadow'[c]),
           \A t \in Threads : vectorClock[t][t] # 0 => vectorClock'[t][t] # 0,
           x.pc \in PastEntry => vectorClock'[SmOf[w]][SmOf[w]] # 0,
           program' = program, launches' = launches
    PROVE  IInv'
  <1>1. /\ worker' \in [Workers -> RegisterType]
        /\ \A v \in Workers : worker'[v] = IF v = w THEN x ELSE worker[v]
        /\ \A v \in Workers : RegistersFit(worker'[v], program'.operations)
    BY RegistersStep
  <1>2. Typed'
    BY <1>1 DEF IInv, Typed
  <1>3. Entered'
    <2> SUFFICES ASSUME NEW v \in Workers, worker'[v].pc \in PastEntry
                 PROVE  vectorClock'[SmOf[v]][SmOf[v]] # 0
      BY DEF Entered
    <2>1. SmOf[v] \in Threads
      BY ConstantsAssumption
    <2>2. v # w => worker[v].pc \in PastEntry
      BY <1>1
    <2> QED
      BY <1>1, <2>1, <2>2 DEF IInv, Entered
  <1> QED
    BY <1>1, <1>2, <1>3 DEF IInv

\* A step that changes w's registers only.
LEMMA ControlStep ==
    ASSUME IInv, NEW w \in Workers, NEW x \in RegisterType, worker' = [worker EXCEPT ![w] = x],
           RegistersFit(x, program.operations), Untouched,
           IsReader(worker[w]) => IsReader(x), IsWriter(worker[w]) => IsWriter(x),
           \A c \in Cells : Holds(worker[w], c) => Holds(x, c),
           x.pc \in PastEntry => vectorClock[SmOf[w]][SmOf[w]] # 0
    PROVE  IInv'
  <1>1. /\ vectorClock' = vectorClock /\ buffer' = buffer /\ ready' = ready /\ lock' = lock
        /\ shadow' = shadow /\ cellLock' = cellLock /\ known' = known /\ carried' = carried
        /\ program' = program /\ launches' = launches
    BY DEF Untouched, threadVars, shadowVars, ghostVars
  <1>2. LocksHeld'
    BY <1>1, SameLocks
  <1>3. CountsBounded' /\ \A c \in Cells : ReadsFit(shadow'[c])
    BY <1>1 DEF IInv, CountsBounded
  <1>4. Typed
    BY DEF IInv
  <1> QED
    BY <1>1, <1>2, <1>3, <1>4, WorkerStep DEF Typed

\* A failed assertion leaves everything but the trap as it is.
LEMMA StopStep ==
    ASSUME IInv, NEW w, NEW scope, NEW check, Stop(w, scope, check)
    PROVE  IInv'
  BY DEF Stop, IInv, Typed, CountsBounded, LocksHeld, Entered, threadVars, shadowVars, ghostVars

\* The registers after a step that changes the pc only.
LEMMA GotoRegisters ==
    ASSUME Typed, NEW w \in Workers, NEW label \in PCs, Goto(w, label)
    PROVE  \E x \in RegisterType :
              /\ worker' = [worker EXCEPT ![w] = x] /\ x = [worker[w] EXCEPT !.pc = label]
              /\ x.pc = label /\ x.done = worker[w].done /\ x.op = worker[w].op
              /\ x.idx = worker[w].idx /\ x.epoch = worker[w].epoch /\ x.word = worker[w].word
              /\ x.token = worker[w].token /\ x.snapshot = worker[w].snapshot
  <1> DEFINE x == [worker[w] EXCEPT !.pc = label]
  <1>1. worker[w] \in RegisterType
    BY DEF Typed
  <1>2. worker' = [worker EXCEPT ![w] = x]
    BY DEF Goto
  <1>3. /\ x.pc = label /\ x.done = worker[w].done /\ x.op = worker[w].op
        /\ x.idx = worker[w].idx /\ x.epoch = worker[w].epoch /\ x.word = worker[w].word
        /\ x.token = worker[w].token /\ x.snapshot = worker[w].snapshot
        /\ x \in RegisterType
    BY <1>1 DEF RegisterType
  <1> QED
    BY <1>2, <1>3

\* A worker outside the locked part of an access holds no lock.
LEMMA HoldsNothing ==
    ASSUME NEW x, x.pc \notin {"range", "access"} \cup InAtomic
    PROVE  ~IsReader(x) /\ ~IsWriter(x) /\ \A c : ~Holds(x, c)
  BY DEF IsReader, IsWriter, Holds, InAtomic

-----------------------------------------------------------------------------
(* Entry and exit                                                          *)

LEMMA EnterStep ==
    ASSUME IInv, NEW w \in Workers, Enter(w)
    PROVE  IInv'
  <1> DEFINE label == IF SmOf[w] \in ready THEN "init" ELSE "lazyInit"
  <1>1. label \in {"init", "lazyInit"} /\ label \in PCs
    BY DEF PCs
  <1>2. Goto(w, label) /\ Untouched /\ worker[w].pc = "entry"
    BY DEF Enter, Running, Untouched, runVars
  <1> HIDE DEF label
  <1>3. PICK x \in RegisterType : /\ worker' = [worker EXCEPT ![w] = x]
                                  /\ x.pc = label
    BY <1>1, <1>2, GotoRegisters DEF IInv
  <1>4. RegistersFit(x, program.operations) /\ x.pc \notin PastEntry
    BY <1>1, <1>3 DEF RegistersFit, InAccess, InAtomic, PastEntry
  <1>5. ~IsReader(worker[w]) /\ ~IsWriter(worker[w]) /\ \A c \in Cells : ~Holds(worker[w], c)
    BY <1>2, HoldsNothing DEF InAtomic
  <1> QED
    BY <1>2, <1>3, <1>4, <1>5, ControlStep

LEMMA LazyInitStep ==
    ASSUME IInv, NEW w \in Workers, LazyInit(w)
    PROVE  IInv'
  <1> DEFINE t == SmOf[w]
             b == [buffer[t] EXCEPT !.dirty = FALSE, !.head = 0]
  <1>1. worker[w].pc = "lazyInit" /\ Goto(w, "init") /\ "init" \in PCs /\ t \in Threads
    BY ConstantsAssumption DEF LazyInit, Running, PCs
  <1>2. PICK x \in RegisterType : worker' = [worker EXCEPT ![w] = x] /\ x.pc = "init"
    BY <1>1, GotoRegisters DEF IInv
  <1>3. RegistersFit(x, program.operations) /\ x.pc \notin PastEntry
    BY <1>2 DEF RegistersFit, InAccess, InAtomic, PastEntry
  <1>4. ~IsReader(worker[w]) /\ ~IsWriter(worker[w]) /\ \A c \in Cells : ~Holds(worker[w], c)
    BY <1>1, HoldsNothing DEF InAtomic
  <1>5. b \in BufferType
    <2>1. buffer[t] \in BufferType /\ 0 \in 0 .. MaxEpoch
      BY <1>1, ConstantsAssumption DEF IInv, Typed
    <2> QED
      BY <2>1 DEF BufferType
  <1>6. buffer' = [buffer EXCEPT ![t] = b]
    BY DEF LazyInit
  <1>7. ready' = ready \cup {t} /\ UNCHANGED <<vectorClock, lock, shadowVars, runVars, ghostVars>>
    BY DEF LazyInit
  <1> HIDE DEF b
  <1>8. buffer' \in [Threads -> BufferType]
    BY <1>5, <1>6 DEF IInv, Typed
  <1>9. LocksHeld'
    BY <1>2, <1>4, <1>7, SameLocks DEF shadowVars
  <1>10. CountsBounded'
    BY <1>7 DEF IInv, CountsBounded, ghostVars
  <1> QED
    BY <1>1, <1>2, <1>3, <1>7, <1>8, <1>9, <1>10, WorkerStep
    DEF IInv, Typed, shadowVars, runVars, ghostVars

LEMMA LoadEpochStep ==
    ASSUME IInv, NEW w \in Workers, LoadEpoch(w)
    PROVE  IInv'
  <1> DEFINE t == SmOf[w]
             x == [worker[w] EXCEPT !.pc = "storeEpoch", !.epoch = vectorClock[t][t]]
  <1>1. worker[w].pc = "init" /\ t \in Threads /\ worker[w] \in RegisterType
        /\ vectorClock[t][t] \in 0 .. MaxEpoch
    <2>1. worker[w].pc = "init"
      BY DEF LoadEpoch, Running
    <2> QED
      BY <2>1, ConstantsAssumption DEF IInv, Typed, ClockType
  <1>2. CASE vectorClock[t][t] = MaxEpoch
    BY <1>2, StopStep DEF LoadEpoch
  <1>3. CASE vectorClock[t][t] # MaxEpoch
    <2>1. worker' = [worker EXCEPT ![w] = x] /\ Untouched
      BY <1>3 DEF LoadEpoch, Untouched, runVars
    <2>2. x \in RegisterType /\ x.pc = "storeEpoch" /\ x.epoch = vectorClock[t][t]
      BY <1>1 DEF RegisterType, PCs
    <2> HIDE DEF x
    <2>3. vectorClock[t][t] < MaxEpoch
      BY <1>1, <1>3, ConstantsAssumption
    <2>4. RegistersFit(x, program.operations) /\ x.pc \notin PastEntry
      BY <2>2, <2>3 DEF RegistersFit, InAccess, InAtomic, PastEntry
    <2>5. ~IsReader(worker[w]) /\ ~IsWriter(worker[w]) /\ \A c \in Cells : ~Holds(worker[w], c)
      BY <1>1, HoldsNothing DEF InAtomic
    <2> QED
      BY <2>1, <2>2, <2>4, <2>5, ControlStep
  <1> QED
    BY <1>2, <1>3

LEMMA StoreEpochStep ==
    ASSUME IInv, NEW w \in Workers, StoreEpoch(w)
    PROVE  IInv'
  <1> DEFINE t == SmOf[w]
             clock == [vectorClock[t] EXCEPT ![t] = worker[w].epoch + 1]
  <1>1. worker[w].pc = "storeEpoch" /\ Goto(w, "loadWord") /\ "loadWord" \in PCs /\ t \in Threads
    BY ConstantsAssumption DEF StoreEpoch, Running, PCs
  <1>2. PICK x \in RegisterType : worker' = [worker EXCEPT ![w] = x] /\ x.pc = "loadWord"
    BY <1>1, GotoRegisters DEF IInv
  <1>3. RegistersFit(x, program.operations)
    BY <1>2 DEF RegistersFit, InAccess, InAtomic
  <1>4. ~IsReader(worker[w]) /\ ~IsWriter(worker[w]) /\ \A c \in Cells : ~Holds(worker[w], c)
    BY <1>1, HoldsNothing DEF InAtomic
  <1>5. worker[w].epoch + 1 \in 1 .. MaxEpoch
    <2>1. worker[w].epoch \in 0 .. MaxEpoch /\ worker[w].epoch < MaxEpoch
      BY <1>1 DEF IInv, Typed, RegisterType, RegistersFit
    <2> QED
      BY <2>1, ConstantsAssumption
  <1>6. vectorClock' = [vectorClock EXCEPT ![t] = clock]
    BY DEF StoreEpoch
  <1>7. UNCHANGED <<buffer, ready, lock, shadowVars, runVars, ghostVars>>
    BY DEF StoreEpoch
  <1>8. clock \in ClockType /\ clock[t] # 0
    BY <1>1, <1>5 DEF IInv, Typed, ClockType
  <1> HIDE DEF clock
  <1>9. /\ vectorClock' \in [Threads -> ClockType] /\ vectorClock'[t][t] # 0
        /\ \A u \in Threads : vectorClock[u][u] # 0 => vectorClock'[u][u] # 0
    BY <1>1, <1>6, <1>8 DEF IInv, Typed
  <1>10. LocksHeld'
    BY <1>2, <1>4, <1>7, SameLocks DEF shadowVars
  <1>11. CountsBounded'
    BY <1>7 DEF IInv, CountsBounded, ghostVars
  <1> QED
    BY <1>1, <1>2, <1>3, <1>7, <1>9, <1>10, <1>11, WorkerStep
    DEF IInv, Typed, shadowVars, runVars, ghostVars

LEMMA LoadWordStep ==
    ASSUME IInv, NEW w \in Workers, LoadWord(w)
    PROVE  IInv'
  <1> DEFINE t == SmOf[w]
             x == [worker[w] EXCEPT !.pc = "storeWord",
                                    !.word = [dirty |-> buffer[t].dirty, head |-> buffer[t].head]]
  <1>1. worker[w].pc = "loadWord" /\ t \in Threads /\ worker[w] \in RegisterType
        /\ buffer[t] \in BufferType /\ vectorClock[t][t] # 0
    BY ConstantsAssumption DEF LoadWord, Running, IInv, Typed, Entered, PastEntry
  <1>2. worker' = [worker EXCEPT ![w] = x] /\ Untouched
    BY DEF LoadWord, Untouched, runVars
  <1>3. x \in RegisterType /\ x.pc = "storeWord"
    BY <1>1 DEF RegisterType, PCs, BufferType
  <1> HIDE DEF x
  <1>4. RegistersFit(x, program.operations)
    BY <1>3 DEF RegistersFit, InAccess, InAtomic
  <1>5. ~IsReader(worker[w]) /\ ~IsWriter(worker[w]) /\ \A c \in Cells : ~Holds(worker[w], c)
    BY <1>1, HoldsNothing DEF InAtomic
  <1> QED
    BY <1>1, <1>2, <1>3, <1>4, <1>5, ControlStep

LEMMA StoreWordStep ==
    ASSUME IInv, NEW w \in Workers, StoreWord(w)
    PROVE  IInv'
  <1> DEFINE t == SmOf[w]
             b == [buffer[t] EXCEPT !.dirty = TRUE, !.head = worker[w].word.head]
  <1>1. worker[w].pc = "storeWord" /\ Goto(w, "idle") /\ "idle" \in PCs /\ t \in Threads
        /\ vectorClock[t][t] # 0
    BY ConstantsAssumption DEF StoreWord, Running, PCs, IInv, Entered, PastEntry
  <1>2. PICK x \in RegisterType : worker' = [worker EXCEPT ![w] = x] /\ x.pc = "idle"
    BY <1>1, GotoRegisters DEF IInv
  <1>3. RegistersFit(x, program.operations)
    BY <1>2 DEF RegistersFit, InAccess, InAtomic
  <1>4. ~IsReader(worker[w]) /\ ~IsWriter(worker[w]) /\ \A c \in Cells : ~Holds(worker[w], c)
    BY <1>1, HoldsNothing DEF InAtomic
  <1>5. b \in BufferType
    <2>1. worker[w].word.head \in 0 .. MaxEpoch /\ buffer[t] \in BufferType
      BY <1>1 DEF IInv, Typed, RegisterType
    <2> QED
      BY <2>1 DEF BufferType
  <1>6. buffer' = [buffer EXCEPT ![t] = b]
    BY DEF StoreWord
  <1>7. UNCHANGED <<vectorClock, ready, lock, shadowVars, runVars, ghostVars>>
    BY DEF StoreWord
  <1> HIDE DEF b
  <1>8. buffer' \in [Threads -> BufferType]
    BY <1>5, <1>6 DEF IInv, Typed
  <1>9. LocksHeld'
    BY <1>2, <1>4, <1>7, SameLocks DEF shadowVars
  <1>10. CountsBounded'
    BY <1>7 DEF IInv, CountsBounded, ghostVars
  <1> QED
    BY <1>1, <1>2, <1>3, <1>7, <1>8, <1>9, <1>10, WorkerStep
    DEF IInv, Typed, shadowVars, runVars, ghostVars

LEMMA IssueStep ==
    ASSUME IInv, NEW w \in Workers, NEW op \in program.operations, Issue(w, op)
    PROVE  IInv'
  <1> DEFINE label == IF op.kind \in {"load", "store"} THEN "lockRead" ELSE "lockWrite"
             x == [worker[w] EXCEPT !.pc = label, !.op = op, !.idx = 1, !.done = @ + 1]
  <1>1. worker[w].pc = "idle" /\ worker[w] \in RegisterType /\ vectorClock[SmOf[w]][SmOf[w]] # 0
    BY DEF Issue, Running, IInv, Typed, Entered, PastEntry
  <1>2. op \in OperationType /\ op.kind \in PlainKinds \cup AtomicKinds
    BY Operations DEF IInv
  <1>3. worker' = [worker EXCEPT ![w] = x] /\ Untouched
    BY DEF Issue, Untouched, runVars
  <1>4. label \in PCs /\ label \in {"lockRead", "lockWrite"}
        /\ (label = "lockRead" <=> op.kind \in PlainKinds)
    BY DEF PCs, PlainKinds
  <1> HIDE DEF label
  <1>5. x \in RegisterType /\ x.pc = label /\ x.op = op /\ x.idx = 1
    <2>1. worker[w].done + 1 \in Nat /\ 1 \in Nat \ {0}
      BY <1>1 DEF RegisterType
    <2> DEFINE n == worker[w].done + 1
    <2>2. x = [worker[w] EXCEPT !.pc = label, !.op = op, !.idx = 1, !.done = n]
      OBVIOUS
    <2> HIDE DEF n, x
    <2>3. x = [pc |-> label, done |-> n, op |-> op, idx |-> 1, epoch |-> worker[w].epoch,
               word |-> worker[w].word, token |-> worker[w].token, snapshot |-> worker[w].snapshot]
      BY <1>1, <2>2 DEF RegisterType
    <2>4. n \in Nat
      BY <2>1 DEF n
    <2> QED
      BY <1>1, <1>2, <1>4, <2>3, <2>4 DEF RegisterType
  <1> HIDE DEF x
  <1>6. RegistersFit(x, program.operations)
    BY <1>2, <1>4, <1>5 DEF RegistersFit, InAccess, InAtomic
  <1>7. ~IsReader(worker[w]) /\ ~IsWriter(worker[w]) /\ \A c \in Cells : ~Holds(worker[w], c)
    BY <1>1, HoldsNothing DEF InAtomic
  <1> QED
    BY <1>1, <1>3, <1>5, <1>6, <1>7, ControlStep

LEMMA ExitStep ==
    ASSUME IInv, NEW w \in Workers, Exit(w)
    PROVE  IInv'
  <1>1. worker[w].pc = "idle" /\ Goto(w, "exited") /\ Untouched /\ "exited" \in PCs
    BY DEF Exit, Running, Untouched, runVars, PCs
  <1>2. PICK x \in RegisterType : worker' = [worker EXCEPT ![w] = x] /\ x.pc = "exited"
    BY <1>1, GotoRegisters DEF IInv
  <1>3. RegistersFit(x, program.operations) /\ x.pc \notin PastEntry
    BY <1>2 DEF RegistersFit, InAccess, InAtomic, PastEntry
  <1>4. ~IsReader(worker[w]) /\ ~IsWriter(worker[w]) /\ \A c \in Cells : ~Holds(worker[w], c)
    BY <1>1, HoldsNothing DEF InAtomic
  <1> QED
    BY <1>1, <1>2, <1>3, <1>4, ControlStep

-----------------------------------------------------------------------------
(* Locks                                                                   *)

\* A step that changes w's registers and the locks only.
LEMMA LockStep ==
    ASSUME IInv, NEW w \in Workers, NEW x \in RegisterType, worker' = [worker EXCEPT ![w] = x],
           RegistersFit(x, program.operations), LocksHeld',
           lock' \in [Threads -> [readers : SUBSET Workers, writers : SUBSET Workers]],
           cellLock' \in [Cells -> Workers \cup {NoWorker}],
           UNCHANGED <<threadVars, shadow, runVars, ghostVars>>,
           x.pc \in PastEntry => worker[w].pc \in PastEntry
    PROVE  IInv'
  <1>1. x.pc \in PastEntry => vectorClock[SmOf[w]][SmOf[w]] # 0
    BY DEF IInv, Entered
  <1>2. CountsBounded' /\ \A c \in Cells : ReadsFit(shadow'[c])
    BY DEF IInv, CountsBounded, ghostVars
  <1> QED
    BY <1>1, <1>2, WorkerStep DEF IInv, Typed, threadVars, runVars, ghostVars

\* The rights of the workers other than w are untouched.
LEMMA OtherRights ==
    ASSUME IInv, NEW w \in Workers, NEW x \in RegisterType, worker' = [worker EXCEPT ![w] = x]
    PROVE  /\ worker'[w] = x
           /\ \A t \in Threads :
                 /\ \A v \in lock[t].readers : SmOf[v] = t /\ (v # w => IsReader(worker'[v]))
                 /\ \A v \in lock[t].writers : SmOf[v] = t /\ (v # w => IsWriter(worker'[v]))
           /\ \A c \in Cells : cellLock[c] \notin {NoWorker, w} => Holds(worker'[cellLock[c]], c)
  <1>1. /\ worker \in [Workers -> RegisterType] /\ LocksHeld
        /\ lock \in [Threads -> [readers : SUBSET Workers, writers : SUBSET Workers]]
        /\ cellLock \in [Cells -> Workers \cup {NoWorker}]
    BY DEF IInv, Typed
  <1>2. \A v \in Workers : worker'[v] = IF v = w THEN x ELSE worker[v]
    BY <1>1
  <1>3. \A t \in Threads : lock[t].readers \subseteq Workers /\ lock[t].writers \subseteq Workers
    BY <1>1
  <1>4. \A c \in Cells : cellLock[c] # NoWorker => cellLock[c] \in Workers
    BY <1>1
  <1> QED
    BY <1>1, <1>2, <1>3, <1>4 DEF LocksHeld

LEMMA AcquireReadStep ==
    ASSUME IInv, NEW w \in Workers, AcquireRead(w)
    PROVE  IInv'
  <1> DEFINE t == SmOf[w]
             l == [lock[t] EXCEPT !.readers = lock[t].readers \cup {w}]
  <1>1. worker[w].pc = "lockRead" /\ Goto(w, "range") /\ "range" \in PCs /\ t \in Threads
    BY ConstantsAssumption DEF AcquireRead, Running, PCs
  <1>2. PICK x \in RegisterType : /\ worker' = [worker EXCEPT ![w] = x]
                                  /\ x.pc = "range" /\ x.op = worker[w].op /\ x.idx = worker[w].idx
    BY <1>1, GotoRegisters DEF IInv
  <1>3. RegistersFit(worker[w], program.operations) /\ Typed
    BY DEF IInv
  <1>4. x.op \in program.operations /\ x.op.kind \in PlainKinds /\ x.idx = 1
    BY <1>1, <1>2, <1>3 DEF RegistersFit, InAccess
  <1>5. RegistersFit(x, program.operations) /\ IsReader(x)
    BY <1>2, <1>3, <1>4, Operations DEF RegistersFit, InAccess, InAtomic, PlainKinds, AtomicKinds, IsReader
  <1>6. lock' = [lock EXCEPT ![t] = l] /\ UNCHANGED <<threadVars, shadowVars, runVars, ghostVars>>
    BY DEF AcquireRead
  <1>7. lock[t] \in [readers : SUBSET Workers, writers : SUBSET Workers]
    BY <1>1, <1>3 DEF Typed
  <1>8. l \in [readers : SUBSET Workers, writers : SUBSET Workers]
        /\ l.readers = lock[t].readers \cup {w} /\ l.writers = lock[t].writers
    BY <1>7
  <1> HIDE DEF l
  <1>9. lock' \in [Threads -> [readers : SUBSET Workers, writers : SUBSET Workers]]
        /\ \A u \in Threads : lock'[u] = IF u = t THEN l ELSE lock[u]
    BY <1>3, <1>6, <1>8 DEF Typed
  <1>10. ~IsReader(worker[w]) /\ ~IsWriter(worker[w]) /\ \A c \in Cells : ~Holds(worker[w], c)
    BY <1>1, HoldsNothing DEF InAtomic
  <1>11. /\ \A u \in Threads : w \notin lock[u].readers /\ w \notin lock[u].writers
         /\ \A c \in Cells : cellLock[c] # w
    <2>1. w # NoWorker
      BY ConstantsAssumption
    <2> QED
      BY <1>10, <2>1 DEF IInv, LocksHeld
  <1>12. LocksHeld'
    <2>1. /\ \A u \in Threads :
                /\ \A v \in lock[u].readers : SmOf[v] = u /\ (v # w => IsReader(worker'[v]))
                /\ \A v \in lock[u].writers : SmOf[v] = u /\ (v # w => IsWriter(worker'[v]))
          /\ \A c \in Cells : cellLock[c] \notin {NoWorker, w} => Holds(worker'[cellLock[c]], c)
          /\ worker'[w] = x
      BY <1>2, OtherRights
    <2>2. \A c \in Cells : cellLock'[c] # NoWorker => Holds(worker'[cellLock'[c]], c)
      BY <1>6, <1>11, <2>1 DEF shadowVars
    <2>3. \A u \in Threads : \A v \in lock'[u].readers : SmOf[v] = u /\ IsReader(worker'[v])
      BY <1>5, <1>8, <1>9, <1>11, <2>1
    <2>4. \A u \in Threads : \A v \in lock'[u].writers : SmOf[v] = u /\ IsWriter(worker'[v])
      BY <1>5, <1>8, <1>9, <1>11, <2>1
    <2> QED
      BY <2>2, <2>3, <2>4 DEF LocksHeld
  <1>13. worker[w].pc \in PastEntry
    BY <1>1 DEF PastEntry, InAccess
  <1> QED
    BY <1>2, <1>3, <1>5, <1>6, <1>9, <1>12, <1>13, LockStep DEF shadowVars, Typed

LEMMA AcquireWriteStep ==
    ASSUME IInv, NEW w \in Workers, AcquireWrite(w)
    PROVE  IInv'
  <1> DEFINE t == SmOf[w]
             l == [lock[t] EXCEPT !.writers = {w}]
  <1>1. worker[w].pc = "lockWrite" /\ Goto(w, "range") /\ "range" \in PCs /\ t \in Threads
    BY ConstantsAssumption DEF AcquireWrite, Running, PCs
  <1>2. PICK x \in RegisterType : /\ worker' = [worker EXCEPT ![w] = x]
                                  /\ x.pc = "range" /\ x.op = worker[w].op /\ x.idx = worker[w].idx
    BY <1>1, GotoRegisters DEF IInv
  <1>3. RegistersFit(worker[w], program.operations) /\ Typed
    BY DEF IInv
  <1>4. x.op \in program.operations /\ x.op.kind \in AtomicKinds /\ x.idx = 1
    BY <1>1, <1>2, <1>3 DEF RegistersFit, InAccess
  <1>5. RegistersFit(x, program.operations) /\ IsWriter(x)
    BY <1>2, <1>3, <1>4, Operations DEF RegistersFit, InAccess, InAtomic, PlainKinds, AtomicKinds, IsWriter
  <1>6. lock' = [lock EXCEPT ![t] = l] /\ UNCHANGED <<threadVars, shadowVars, runVars, ghostVars>>
    BY DEF AcquireWrite
  <1>7. lock[t] \in [readers : SUBSET Workers, writers : SUBSET Workers]
    BY <1>1, <1>3 DEF Typed
  <1>8. l \in [readers : SUBSET Workers, writers : SUBSET Workers]
        /\ l.readers = lock[t].readers /\ l.writers = {w}
    BY <1>7
  <1> HIDE DEF l
  <1>9. lock' \in [Threads -> [readers : SUBSET Workers, writers : SUBSET Workers]]
        /\ \A u \in Threads : lock'[u] = IF u = t THEN l ELSE lock[u]
    BY <1>3, <1>6, <1>8 DEF Typed
  <1>10. ~IsReader(worker[w]) /\ ~IsWriter(worker[w]) /\ \A c \in Cells : ~Holds(worker[w], c)
    BY <1>1, HoldsNothing DEF InAtomic
  <1>11. /\ \A u \in Threads : w \notin lock[u].readers /\ w \notin lock[u].writers
         /\ \A c \in Cells : cellLock[c] # w
    <2>1. w # NoWorker
      BY ConstantsAssumption
    <2> QED
      BY <1>10, <2>1 DEF IInv, LocksHeld
  <1>12. LocksHeld'
    <2>1. /\ \A u \in Threads :
                /\ \A v \in lock[u].readers : SmOf[v] = u /\ (v # w => IsReader(worker'[v]))
                /\ \A v \in lock[u].writers : SmOf[v] = u /\ (v # w => IsWriter(worker'[v]))
          /\ \A c \in Cells : cellLock[c] \notin {NoWorker, w} => Holds(worker'[cellLock[c]], c)
          /\ worker'[w] = x
      BY <1>2, OtherRights
    <2>2. \A c \in Cells : cellLock'[c] # NoWorker => Holds(worker'[cellLock'[c]], c)
      BY <1>6, <1>11, <2>1 DEF shadowVars
    <2>3. \A u \in Threads : \A v \in lock'[u].readers : SmOf[v] = u /\ IsReader(worker'[v])
      BY <1>5, <1>8, <1>9, <1>11, <2>1
    <2>4. \A u \in Threads : \A v \in lock'[u].writers : SmOf[v] = u /\ IsWriter(worker'[v])
      BY <1>5, <1>8, <1>9, <1>11, <2>1
    <2> QED
      BY <2>2, <2>3, <2>4 DEF LocksHeld
  <1>13. worker[w].pc \in PastEntry
    BY <1>1 DEF PastEntry, InAccess
  <1> QED
    BY <1>2, <1>3, <1>5, <1>6, <1>9, <1>12, <1>13, LockStep DEF shadowVars, Typed

LEMMA ReleaseReadStep ==
    ASSUME IInv, NEW w \in Workers, ReleaseRead(w)
    PROVE  IInv'
  <1> DEFINE t == SmOf[w]
             l == [lock[t] EXCEPT !.readers = lock[t].readers \ {w}]
  <1>1. worker[w].pc = "range" /\ worker[w].op.kind \in PlainKinds
        /\ Goto(w, "idle") /\ "idle" \in PCs /\ t \in Threads
    BY ConstantsAssumption DEF ReleaseRead, Running, PCs, PlainKinds, Op
  <1>2. PICK x \in RegisterType : worker' = [worker EXCEPT ![w] = x] /\ x.pc = "idle"
    BY <1>1, GotoRegisters DEF IInv
  <1>3. RegistersFit(x, program.operations)
    BY <1>2 DEF RegistersFit, InAccess, InAtomic
  <1>4. lock' = [lock EXCEPT ![t] = l] /\ UNCHANGED <<threadVars, shadowVars, runVars, ghostVars>>
    BY DEF ReleaseRead
  <1>5. lock[t] \in [readers : SUBSET Workers, writers : SUBSET Workers]
    BY <1>1 DEF IInv, Typed
  <1>6. l \in [readers : SUBSET Workers, writers : SUBSET Workers]
        /\ l.readers = lock[t].readers \ {w} /\ l.writers = lock[t].writers
    BY <1>5
  <1> HIDE DEF l
  <1>7. lock' \in [Threads -> [readers : SUBSET Workers, writers : SUBSET Workers]]
        /\ \A u \in Threads : lock'[u] = IF u = t THEN l ELSE lock[u]
    BY <1>4, <1>6 DEF IInv, Typed
  <1>8. ~IsWriter(worker[w]) /\ \A c \in Cells : ~Holds(worker[w], c)
    BY <1>1 DEF IsWriter, Holds, InAtomic, PlainKinds, AtomicKinds
  <1>9. /\ \A u \in Threads : w \notin lock[u].writers
        /\ \A c \in Cells : cellLock[c] # w
    <2>1. w # NoWorker
      BY ConstantsAssumption
    <2> QED
      BY <1>8, <2>1 DEF IInv, LocksHeld
  <1>10. LocksHeld'
    <2>1. /\ \A u \in Threads :
                /\ \A v \in lock[u].readers : SmOf[v] = u /\ (v # w => IsReader(worker'[v]))
                /\ \A v \in lock[u].writers : SmOf[v] = u /\ (v # w => IsWriter(worker'[v]))
          /\ \A c \in Cells : cellLock[c] \notin {NoWorker, w} => Holds(worker'[cellLock[c]], c)
          /\ worker'[w] = x
      BY <1>2, OtherRights
    <2>2. \A c \in Cells : cellLock'[c] # NoWorker => Holds(worker'[cellLock'[c]], c)
      BY <1>4, <1>9, <2>1 DEF shadowVars
    <2>3. \A u \in Threads : \A v \in lock'[u].readers : SmOf[v] = u /\ IsReader(worker'[v])
      BY <1>6, <1>7, <1>9, <2>1
    <2>4. \A u \in Threads : \A v \in lock'[u].writers : SmOf[v] = u /\ IsWriter(worker'[v])
      BY <1>6, <1>7, <1>9, <2>1
    <2> QED
      BY <2>2, <2>3, <2>4 DEF LocksHeld
  <1>11. worker[w].pc \in PastEntry
    BY <1>1 DEF PastEntry, InAccess
  <1> QED
    BY <1>2, <1>3, <1>4, <1>7, <1>10, <1>11, LockStep DEF shadowVars, IInv, Typed

LEMMA AcquireShadowStep ==
    ASSUME IInv, NEW w \in Workers, AcquireShadow(w)
    PROVE  IInv'
  <1> DEFINE op == worker[w].op
             idx == worker[w].idx
             n == Len(op.cells)
             c == op.cells[idx]
             atomic == op.kind \in AtomicKinds
             label == IF ~atomic THEN "access" ELSE IF idx = n THEN "begin" ELSE "range"
             next == IF atomic THEN idx + 1 ELSE idx
             x == [worker[w] EXCEPT !.pc = label, !.idx = next]
  <1>1. worker[w].pc = "range" /\ cellLock[c] = NoWorker /\ ~RangeDone(w)
    BY DEF AcquireShadow, Running, CurrentCell, Op
  <1>2. /\ worker[w] \in RegisterType /\ op \in program.operations /\ idx \in Nat \ {0}
        /\ Typed /\ RegistersFit(worker[w], program.operations)
    BY <1>1 DEF IInv, Typed, RegisterType, RegistersFit, InAccess
  <1>3. n \in Nat \ {0} /\ idx \in 1 .. n /\ c \in Cells /\ op.kind \in PlainKinds \cup AtomicKinds
    BY <1>1, <1>2, Operations DEF RangeDone, Op
  <1>4. /\ worker' = [worker EXCEPT ![w] = x]
        /\ cellLock' = [cellLock EXCEPT ![c] = w]
        /\ UNCHANGED <<threadVars, lock, shadow, runVars, ghostVars>>
    BY DEF AcquireShadow, AtomicKinds, CurrentCell, Op
  <1>5. label \in {"access", "begin", "range"} /\ label \in PCs /\ next \in Nat \ {0}
    BY <1>3 DEF PCs
  <1>6. /\ label = "access" => ~atomic /\ next = idx
        /\ label = "begin" => atomic /\ idx = n
        /\ label = "range" => atomic /\ next = idx + 1 /\ idx < n
    BY <1>3
  <1> HIDE DEF label, next
  <1>7. x \in RegisterType /\ x.pc = label /\ x.idx = next /\ x.op = op
    BY <1>2, <1>5 DEF RegisterType
  <1> HIDE DEF x
  <1>8. RegistersFit(x, program.operations)
    BY <1>2, <1>3, <1>5, <1>6, <1>7 DEF RegistersFit, InAccess, InAtomic, PlainKinds, AtomicKinds
  <1>9. /\ IsReader(worker[w]) => IsReader(x)
        /\ IsWriter(worker[w]) => IsWriter(x)
    BY <1>1, <1>5, <1>6, <1>7 DEF IsReader, IsWriter, InAtomic, PlainKinds, AtomicKinds
  <1>10. Holds(x, c)
    <2>1. c \in CellsOf(op)
      BY <1>2, <1>3, CellsOfOperation
    <2>2. label = "range" => idx < x.idx
      BY <1>3, <1>6, <1>7
    <2> QED
      BY <1>3, <1>5, <1>6, <1>7, <2>1, <2>2 DEF Holds, InAtomic
  <1>11. \A d \in Cells : Holds(worker[w], d) => Holds(x, d)
    <2> SUFFICES ASSUME NEW d \in Cells, Holds(worker[w], d) PROVE Holds(x, d)
      OBVIOUS
    <2>1. atomic /\ \E i \in 1 .. n : i < idx /\ d = op.cells[i]
      BY <1>1 DEF Holds, InAtomic
    <2>2. PICK i \in 1 .. n : i < idx /\ d = op.cells[i]
      BY <2>1
    <2>3. d \in CellsOf(op)
      BY <1>2, <1>3, <2>2, CellsOfOperation
    <2>4. label = "range" => i < x.idx
      BY <1>3, <1>6, <1>7, <2>2
    <2> QED
      BY <1>5, <1>6, <1>7, <2>1, <2>2, <2>3, <2>4 DEF Holds, InAtomic
  <1>12. cellLock' \in [Cells -> Workers \cup {NoWorker}]
         /\ \A d \in Cells : cellLock'[d] = IF d = c THEN w ELSE cellLock[d]
    BY <1>2, <1>3, <1>4 DEF Typed
  <1>13. LocksHeld'
    <2>1. /\ \A u \in Threads :
                /\ \A v \in lock[u].readers : SmOf[v] = u /\ (v # w => IsReader(worker'[v]))
                /\ \A v \in lock[u].writers : SmOf[v] = u /\ (v # w => IsWriter(worker'[v]))
          /\ \A d \in Cells : cellLock[d] \notin {NoWorker, w} => Holds(worker'[cellLock[d]], d)
          /\ worker'[w] = x
      BY <1>4, <1>7, OtherRights
    <2>2. /\ \A u \in Threads : /\ w \in lock[u].readers => IsReader(worker[w])
                                /\ w \in lock[u].writers => IsWriter(worker[w])
          /\ \A d \in Cells : cellLock[d] = w /\ w # NoWorker => Holds(worker[w], d)
      BY DEF IInv, LocksHeld
    <2>3. \A d \in Cells : cellLock'[d] # NoWorker => Holds(worker'[cellLock'[d]], d)
      BY <1>10, <1>11, <1>12, <2>1, <2>2
    <2>4. \A u \in Threads : \A v \in lock'[u].readers : SmOf[v] = u /\ IsReader(worker'[v])
      BY <1>4, <1>9, <2>1, <2>2
    <2>5. \A u \in Threads : \A v \in lock'[u].writers : SmOf[v] = u /\ IsWriter(worker'[v])
      BY <1>4, <1>9, <2>1, <2>2
    <2> QED
      BY <2>3, <2>4, <2>5 DEF LocksHeld
  <1>14. worker[w].pc \in PastEntry
    BY <1>1 DEF PastEntry, InAccess
  <1> QED
    BY <1>2, <1>4, <1>7, <1>8, <1>12, <1>13, <1>14, LockStep DEF Typed

LEMMA ReleaseAtomicShadowRangeStep ==
    ASSUME IInv, NEW w \in Workers, ReleaseAtomicShadowRange(w)
    PROVE  IInv'
  <1> DEFINE t == SmOf[w]
             l == [lock[t] EXCEPT !.writers = lock[t].writers \ {w}]
  <1>1. worker[w].pc = "release" /\ Goto(w, "idle") /\ "idle" \in PCs /\ t \in Threads
    BY ConstantsAssumption DEF ReleaseAtomicShadowRange, Running, PCs
  <1>2. PICK x \in RegisterType : worker' = [worker EXCEPT ![w] = x] /\ x.pc = "idle"
    BY <1>1, GotoRegisters DEF IInv
  <1>3. RegistersFit(x, program.operations)
    BY <1>2 DEF RegistersFit, InAccess, InAtomic
  <1>4. lock' = [lock EXCEPT ![t] = l] /\ UNCHANGED <<threadVars, shadow, runVars, ghostVars>>
    BY DEF ReleaseAtomicShadowRange
  <1>5. lock[t] \in [readers : SUBSET Workers, writers : SUBSET Workers]
    BY <1>1 DEF IInv, Typed
  <1>6. l \in [readers : SUBSET Workers, writers : SUBSET Workers]
        /\ l.readers = lock[t].readers /\ l.writers = lock[t].writers \ {w}
    BY <1>5
  <1> HIDE DEF l
  <1>7. lock' \in [Threads -> [readers : SUBSET Workers, writers : SUBSET Workers]]
        /\ \A u \in Threads : lock'[u] = IF u = t THEN l ELSE lock[u]
    BY <1>4, <1>6 DEF IInv, Typed
  <1>8. ~IsReader(worker[w]) /\ \A c \in Cells : Holds(worker[w], c) => c \in CellsOf(worker[w].op)
    BY <1>1 DEF IsReader, Holds, InAtomic
  <1>9. /\ \A u \in Threads : w \notin lock[u].readers
        /\ \A c \in Cells : cellLock[c] = w => c \in CellsOf(worker[w].op)
    <2>1. w # NoWorker
      BY ConstantsAssumption
    <2> QED
      BY <1>8, <2>1 DEF IInv, LocksHeld
  <1>10. \A c \in Cells : cellLock'[c] = IF c \in CellsOf(worker[w].op) THEN NoWorker ELSE cellLock[c]
    BY DEF ReleaseAtomicShadowRange, Op
  <1>11. cellLock' \in [Cells -> Workers \cup {NoWorker}]
    <2>1. cellLock' = [c \in Cells |-> IF c \in CellsOf(worker[w].op) THEN NoWorker ELSE cellLock[c]]
      BY DEF ReleaseAtomicShadowRange, Op
    <2> QED
      BY <2>1 DEF IInv, Typed
  <1>12. LocksHeld'
    <2>1. /\ \A u \in Threads :
                /\ \A v \in lock[u].readers : SmOf[v] = u /\ (v # w => IsReader(worker'[v]))
                /\ \A v \in lock[u].writers : SmOf[v] = u /\ (v # w => IsWriter(worker'[v]))
          /\ \A c \in Cells : cellLock[c] \notin {NoWorker, w} => Holds(worker'[cellLock[c]], c)
          /\ worker'[w] = x
      BY <1>2, OtherRights
    <2>2. \A c \in Cells : cellLock'[c] # NoWorker => Holds(worker'[cellLock'[c]], c)
      BY <1>9, <1>10, <2>1
    <2>3. \A u \in Threads : \A v \in lock'[u].readers : SmOf[v] = u /\ IsReader(worker'[v])
      BY <1>6, <1>7, <1>9, <2>1
    <2>4. \A u \in Threads : \A v \in lock'[u].writers : SmOf[v] = u /\ IsWriter(worker'[v])
      BY <1>6, <1>7, <1>9, <2>1
    <2> QED
      BY <2>2, <2>3, <2>4 DEF LocksHeld
  <1>13. worker[w].pc \in PastEntry
    BY <1>1 DEF PastEntry, InAccess, InAtomic
  <1> QED
    BY <1>2, <1>3, <1>4, <1>7, <1>11, <1>12, <1>13, LockStep

-----------------------------------------------------------------------------
(* Plain accesses                                                          *)

LEMMA ScalarClockTyped ==
    ASSUME Typed, NEW t \in Threads, NEW scope \in Scopes, NEW n \in Nat
    PROVE  /\ ScalarClock(t, scope, n) \in ScalarClockType
           /\ ScalarClock(t, scope, n).threadId = t
           /\ ScalarClock(t, scope, n).epoch = vectorClock[t][t]
  <1>1. vectorClock[t][t] \in 0 .. MaxEpoch
    BY DEF Typed, ClockType
  <1> QED
    BY <1>1 DEF ScalarClock, ScalarClockType

\* A thread's own count grows, so nobody knows more accesses of it than it made.
LEMMA CountAccessStep ==
    ASSUME IInv, NEW t \in Threads, CountAccess(t)
    PROVE  /\ known' \in [Threads -> Counts] /\ NextAccess(t) \in Nat
           /\ \A u \in Threads : /\ known[u][u] =< known'[u][u]
                                 /\ \A v \in Threads : known'[v][u] =< known'[u][u]
  <1> DEFINE k == [known[t] EXCEPT ![t] = known[t][t] + 1]
  <1>1. known \in [Threads -> [Threads -> Nat]]
    BY DEF IInv, Typed, Counts
  <1>2. known' = [known EXCEPT ![t] = k]
    BY DEF CountAccess
  <1>3. k \in [Threads -> Nat] /\ \A u \in Threads : k[u] = IF u = t THEN known[t][t] + 1 ELSE known[t][u]
    BY <1>1
  <1> HIDE DEF k
  <1>4. known' \in [Threads -> [Threads -> Nat]] /\ \A v \in Threads : known'[v] = IF v = t THEN k ELSE known[v]
    BY <1>1, <1>2, <1>3
  <1>5. \A u, v \in Threads : known[v][u] \in Nat /\ known[v][u] =< known[u][u]
    BY <1>1 DEF IInv, CountsBounded
  <1>6. \A u \in Threads : known[u][u] =< known'[u][u]
    BY <1>3, <1>4, <1>5
  <1>7. \A u, v \in Threads : known'[v][u] =< known'[u][u]
    BY <1>3, <1>4, <1>5
  <1>8. NextAccess(t) \in Nat
    BY <1>5 DEF NextAccess
  <1> QED
    BY <1>4, <1>6, <1>7, <1>8 DEF Counts

\* What w holds and where it stands when it is done with a cell of a plain range.
LEMMA ReleaseShadowStep ==
    ASSUME IInv, NEW w \in Workers, worker[w].pc = "access", ReleaseShadow(w), lock' = lock,
           program' = program
    PROVE  /\ CurrentCell(w) \in Cells
           /\ cellLock' \in [Cells -> Workers \cup {NoWorker}] /\ LocksHeld'
           /\ \E x \in RegisterType : /\ worker' = [worker EXCEPT ![w] = x] /\ x.pc = "range"
                                      /\ RegistersFit(x, program.operations)
  <1> DEFINE op == worker[w].op
             idx == worker[w].idx
             c == op.cells[idx]
             next == idx + 1
             x == [worker[w] EXCEPT !.pc = "range", !.idx = next]
  <1>1. /\ worker[w] \in RegisterType /\ op \in program.operations /\ idx \in Nat \ {0}
        /\ Typed /\ op.kind \in PlainKinds /\ idx =< Len(op.cells)
    BY DEF IInv, Typed, RegisterType, RegistersFit, InAccess
  <1>2. Len(op.cells) \in Nat /\ c \in Cells
    BY <1>1, Operations
  <1>3. worker' = [worker EXCEPT ![w] = x] /\ cellLock' = [cellLock EXCEPT ![c] = NoWorker]
    BY DEF ReleaseShadow, CurrentCell, Op
  <1>4. x \in RegisterType /\ x.pc = "range" /\ x.op = op /\ x.idx = idx + 1
    <2>1. next \in Nat \ {0} /\ next = idx + 1
      BY <1>1
    <2> HIDE DEF next
    <2>2. x \in RegisterType /\ x.pc = "range" /\ x.op = op /\ x.idx = next
      BY <1>1, <2>1 DEF RegisterType, PCs
    <2> QED
      BY <2>1, <2>2
  <1> HIDE DEF x
  <1>5. idx + 1 =< Len(op.cells) + 1
    BY <1>1, <1>2
  <1>6. RegistersFit(x, program.operations)
    BY <1>1, <1>4, <1>5 DEF RegistersFit, InAccess, InAtomic, PlainKinds, AtomicKinds
  <1>7. cellLock' \in [Cells -> Workers \cup {NoWorker}]
        /\ \A d \in Cells : cellLock'[d] = IF d = c THEN NoWorker ELSE cellLock[d]
    BY <1>1, <1>2, <1>3 DEF Typed
  <1>8. IsReader(x) /\ ~IsWriter(worker[w]) /\ \A d \in Cells : Holds(worker[w], d) => d = c
    BY <1>1, <1>4 DEF IsReader, IsWriter, Holds, InAtomic, PlainKinds, AtomicKinds
  <1>9. LocksHeld'
    <2>1. /\ \A u \in Threads :
                /\ \A v \in lock[u].readers : SmOf[v] = u /\ (v # w => IsReader(worker'[v]))
                /\ \A v \in lock[u].writers : SmOf[v] = u /\ (v # w => IsWriter(worker'[v]))
          /\ \A d \in Cells : cellLock[d] \notin {NoWorker, w} => Holds(worker'[cellLock[d]], d)
          /\ worker'[w] = x
      BY <1>3, <1>4, OtherRights
    <2>2. /\ \A u \in Threads : w \in lock[u].writers => IsWriter(worker[w])
          /\ \A d \in Cells : cellLock[d] = w /\ w # NoWorker => Holds(worker[w], d)
      BY DEF IInv, LocksHeld
    <2>3. \A d \in Cells : cellLock'[d] # NoWorker => Holds(worker'[cellLock'[d]], d)
      BY <1>7, <1>8, <2>1, <2>2
    <2>4. \A u \in Threads : \A v \in lock'[u].readers : SmOf[v] = u /\ IsReader(worker'[v])
      BY <1>8, <2>1
    <2>5. \A u \in Threads : \A v \in lock'[u].writers : SmOf[v] = u /\ IsWriter(worker'[v])
      BY <1>8, <2>1, <2>2
    <2> QED
      BY <2>3, <2>4, <2>5 DEF LocksHeld
  <1>10. CurrentCell(w) \in Cells
    BY <1>2 DEF CurrentCell, Op
  <1> QED
    BY <1>3, <1>4, <1>6, <1>7, <1>9, <1>10

LEMMA DoReadStep ==
    ASSUME IInv, NEW w \in Workers, DoRead(w)
    PROVE  IInv'
  <1> DEFINE t == SmOf[w]
             c == CurrentCell(w)
             clock == ScalarClock(t, "nonatomic", NextAccess(t))
  <1>1. worker[w].pc = "access" /\ t \in Threads
    BY ConstantsAssumption DEF DoRead, Running
  <1>2. CASE Failures(ReadChecks(t, "nonatomic", c)) # {}
    BY <1>2, StopStep DEF DoRead, StopAtFirst
  <1>3. CASE ~ (Failures(ReadChecks(t, "nonatomic", c)) # {})
    <2>1. PICK slot \in ReadSlotChoices(t, c) : shadow' = [shadow EXCEPT ![c] = RecordRead(shadow[c], slot, clock)]
      BY <1>3 DEF DoRead
    <2>2. CountAccess(t) /\ ReleaseShadow(w) /\ UNCHANGED <<threadVars, lock, runVars, carried>>
      BY <1>3 DEF DoRead
    <2>3. c \in Cells /\ cellLock' \in [Cells -> Workers \cup {NoWorker}] /\ LocksHeld'
      BY <1>1, <2>2, ReleaseShadowStep DEF runVars
    <2>4. PICK x \in RegisterType : worker' = [worker EXCEPT ![w] = x] /\ x.pc = "range"
                                    /\ RegistersFit(x, program.operations)
      BY <1>1, <2>2, ReleaseShadowStep DEF runVars
    <2>5. /\ known' \in [Threads -> Counts] /\ NextAccess(t) \in Nat
          /\ \A u \in Threads : /\ known[u][u] =< known'[u][u]
                                /\ \A v \in Threads : known'[v][u] =< known'[u][u]
      BY <1>1, <2>2, CountAccessStep
    <2>6. clock \in ScalarClockType /\ clock.threadId = t /\ clock.epoch = vectorClock[t][t]
      BY <1>1, <2>5, ScalarClockTyped DEF Scopes, IInv
    <2>7. vectorClock[t][t] # 0
      BY <1>1 DEF IInv, Entered, PastEntry, InAccess
    <2> HIDE DEF clock, c
    <2>8. RecordRead(shadow[c], slot, clock) \in CellType /\ ReadsFit(RecordRead(shadow[c], slot, clock))
      BY <1>1, <2>1, <2>3, <2>6, <2>7, RecordedReads DEF IInv
    <2>9. shadow' \in [Cells -> CellType] /\ \A d \in Cells : ReadsFit(shadow'[d])
      BY <2>1, <2>3, <2>8 DEF IInv, Typed
    <2>10. CountsBounded'
      <3>1. carried \in [Cells -> Counts] /\ known \in [Threads -> Counts] /\ CountsBounded
        BY DEF IInv, Typed
      <3>2. \A u \in Threads : \A d \in Cells : carried[d][u] \in Nat /\ known[u][u] \in Nat /\ known'[u][u] \in Nat
        BY <2>5, <3>1 DEF Counts
      <3>3. \A u \in Threads : \A d \in Cells : carried'[d][u] =< known'[u][u]
        BY <2>2, <2>5, <3>1, <3>2 DEF CountsBounded
      <3> QED
        BY <2>5, <3>3 DEF CountsBounded
    <2> QED
      BY <2>2, <2>3, <2>4, <2>5, <2>7, <2>9, <2>10, WorkerStep DEF IInv, Typed, threadVars, runVars
  <1> QED
    BY <1>2, <1>3

LEMMA DoWriteStep ==
    ASSUME IInv, NEW w \in Workers, DoWrite(w)
    PROVE  IInv'
  <1> DEFINE t == SmOf[w]
             c == CurrentCell(w)
             clock == ScalarClock(t, "nonatomic", NextAccess(t))
             cell == [shadow[c] EXCEPT !.write = clock]
  <1>1. worker[w].pc = "access" /\ t \in Threads
    BY ConstantsAssumption DEF DoWrite, Running
  <1>2. CASE Failures(WriteChecks(t, "nonatomic", c)) # {}
    BY <1>2, StopStep DEF DoWrite, StopAtFirst
  <1>3. CASE ~ (Failures(WriteChecks(t, "nonatomic", c)) # {})
    <2>1. shadow' = [shadow EXCEPT ![c] = cell] /\ carried' = [carried EXCEPT ![c] = NoClock]
      BY <1>3 DEF DoWrite
    <2>2. CountAccess(t) /\ ReleaseShadow(w) /\ UNCHANGED <<threadVars, lock, runVars>>
      BY <1>3 DEF DoWrite
    <2>3. c \in Cells /\ cellLock' \in [Cells -> Workers \cup {NoWorker}] /\ LocksHeld'
      BY <1>1, <2>2, ReleaseShadowStep DEF runVars
    <2>4. PICK x \in RegisterType : worker' = [worker EXCEPT ![w] = x] /\ x.pc = "range"
                                    /\ RegistersFit(x, program.operations)
      BY <1>1, <2>2, ReleaseShadowStep DEF runVars
    <2>5. /\ known' \in [Threads -> Counts] /\ NextAccess(t) \in Nat
          /\ \A u \in Threads : /\ known[u][u] =< known'[u][u]
                                /\ \A v \in Threads : known'[v][u] =< known'[u][u]
      BY <1>1, <2>2, CountAccessStep
    <2>6. clock \in ScalarClockType
      BY <1>1, <2>5, ScalarClockTyped DEF Scopes, IInv
    <2>7. vectorClock[t][t] # 0
      BY <1>1 DEF IInv, Entered, PastEntry, InAccess
    <2>8. shadow[c] \in CellType
      BY <2>3 DEF IInv, Typed
    <2> HIDE DEF clock, c
    <2>9. cell \in CellType /\ cell.reads = shadow[c].reads
      BY <2>6, <2>8 DEF CellType
    <2>10. ReadsFit(cell)
      BY <2>3, <2>9 DEF IInv, ReadsFit
    <2> HIDE DEF cell
    <2>11. shadow' \in [Cells -> CellType] /\ \A d \in Cells : ReadsFit(shadow'[d])
      BY <2>1, <2>3, <2>9, <2>10 DEF IInv, Typed
    <2>12. carried' \in [Cells -> Counts] /\ \A d \in Cells : carried'[d] = IF d = c THEN NoClock ELSE carried[d]
      BY <2>1, <2>3 DEF IInv, Typed, NoClock, Counts
    <2>13. CountsBounded'
      <3>1. carried \in [Cells -> Counts] /\ known \in [Threads -> Counts] /\ CountsBounded
        BY DEF IInv, Typed
      <3>2. \A u \in Threads : \A d \in Cells : carried[d][u] \in Nat /\ known[u][u] \in Nat /\ known'[u][u] \in Nat
        BY <2>5, <3>1 DEF Counts
      <3>3. \A u \in Threads : \A d \in Cells : carried'[d][u] =< known'[u][u]
        BY <2>5, <2>12, <3>1, <3>2 DEF CountsBounded, NoClock
      <3> QED
        BY <2>5, <3>3 DEF CountsBounded
    <2> QED
      BY <2>2, <2>3, <2>4, <2>5, <2>7, <2>11, <2>12, <2>13, WorkerStep DEF IInv, Typed, threadVars, runVars
  <1> QED
    BY <1>2, <1>3

-----------------------------------------------------------------------------
(* Atomic accesses                                                         *)

LEMMA SlotTyped ==
    ASSUME Typed, NEW clock \in ScalarClockType
    PROVE  Slot(clock) \in ClockType
  <1>1. buffer[clock.threadId] \in BufferType /\ clock.epoch \in Nat
    BY ConstantsAssumption DEF Typed, ScalarClockType
  <1>2. clock.epoch % ClockBufferSize \in 0 .. ClockBufferSize - 1
    BY <1>1, ConstantsAssumption
  <1> QED
    BY <1>1, <1>2 DEF Slot, BufferType

\* What w knows once it has joined the clocks of the writes it synchronises with.
LEMMA JoinedClocks ==
    ASSUME IInv, NEW w \in Workers, worker[w].pc = "begin"
    PROVE  LET t == SmOf[w]
               op == Op(w)
               joined == Maximum({vectorClock[t]} \cup {Slot(shadow[c].write) : c \in Synchronizing(t, op)})
               learnt == Maximum({known[t]} \cup {carried[c] : c \in Synchronizing(t, op)})
           IN /\ op \in program.operations /\ CellsOf(op) \subseteq Cells
              /\ Synchronizing(t, op) \subseteq CellsOf(op)
              /\ joined \in ClockType /\ learnt \in Counts
              /\ \A u \in Threads :
                   /\ \/ joined[u] = vectorClock[t][u]
                      \/ \E c \in Synchronizing(t, op) : joined[u] = Slot(shadow[c].write)[u]
                   /\ vectorClock[t][u] =< joined[u]
                   /\ \A c \in Synchronizing(t, op) : Slot(shadow[c].write)[u] =< joined[u]
                   /\ learnt[u] = known[t][u] \/ \E c \in Synchronizing(t, op) : learnt[u] = carried[c][u]
                   /\ known[t][u] =< learnt[u] /\ learnt[u] =< known[u][u]
                   /\ \A c \in Synchronizing(t, op) : carried[c][u] =< learnt[u]
  <1> DEFINE t == SmOf[w]
             op == Op(w)
             from == Synchronizing(t, op)
             clocks == {vectorClock[t]} \cup {Slot(shadow[c].write) : c \in from}
             counts == {known[t]} \cup {carried[c] : c \in from}
             epochs == [u \in Threads |-> MaxEpoch]
             made == [u \in Threads |-> known[u][u]]
  <1>1. Typed /\ CountsBounded /\ t \in Threads
    BY ConstantsAssumption DEF IInv
  <1>2. op \in program.operations
    BY DEF IInv, RegistersFit, InAccess, InAtomic, Op
  <1>3. CellsOf(op) \subseteq Cells /\ from \subseteq CellsOf(op)
    BY <1>1, <1>2, CellsOfOperation DEF Synchronizing
  <1>4. \A c \in Cells : Slot(shadow[c].write) \in ClockType
    BY <1>1, SlotTyped DEF Typed, CellType
  <1>5. clocks # {} /\ \A f \in clocks : f \in ClockType
    <2>1. vectorClock[t] \in ClockType
      BY <1>1 DEF Typed
    <2>2. \A c \in from : Slot(shadow[c].write) \in ClockType
      BY <1>3, <1>4
    <2> HIDE DEF from
    <2> QED
      BY <2>1, <2>2
  <1>6. counts # {} /\ \A f \in counts : f \in Counts
    BY <1>1, <1>3 DEF Typed
  <1>7. epochs \in [Threads -> Nat] /\ \A f \in clocks : f \in [Threads -> Nat] /\ \A u \in Threads : f[u] =< epochs[u]
    BY <1>5, ConstantsAssumption DEF ClockType
  <1>8. \A u \in Threads : known[u][u] \in Nat
    BY <1>1 DEF Typed, Counts
  <1>9. made \in [Threads -> Nat] /\ \A f \in counts : f \in [Threads -> Nat] /\ \A u \in Threads : f[u] =< made[u]
    <2>1. made \in [Threads -> Nat]
      BY <1>8
    <2>2. \A u \in Threads : known[t][u] =< known[u][u] /\ \A c \in from : carried[c][u] =< known[u][u]
      BY <1>1, <1>3 DEF CountsBounded
    <2> QED
      BY <1>6, <2>1, <2>2 DEF Counts
  <1> HIDE DEF clocks, counts, epochs, made
  <1>10. /\ Maximum(clocks) \in [Threads -> Nat]
         /\ \A u \in Threads : /\ \E f \in clocks : Maximum(clocks)[u] = f[u]
                               /\ \A f \in clocks : f[u] =< Maximum(clocks)[u]
    BY <1>5, <1>7, MaximumProperties
  <1>11. /\ Maximum(counts) \in [Threads -> Nat]
         /\ \A u \in Threads : /\ \E f \in counts : Maximum(counts)[u] = f[u]
                               /\ \A f \in counts : f[u] =< Maximum(counts)[u]
    BY <1>6, <1>9, MaximumProperties
  <1>12. Maximum(clocks) \in ClockType
    <2>1. \A u \in Threads : Maximum(clocks)[u] \in 0 .. MaxEpoch
      BY <1>5, <1>10 DEF ClockType
    <2> QED
      BY <1>10, <2>1 DEF ClockType
  <1>13. \A u \in Threads :
            /\ \/ Maximum(clocks)[u] = vectorClock[t][u]
               \/ \E c \in from : Maximum(clocks)[u] = Slot(shadow[c].write)[u]
            /\ vectorClock[t][u] =< Maximum(clocks)[u]
            /\ \A c \in from : Slot(shadow[c].write)[u] =< Maximum(clocks)[u]
    BY <1>10 DEF clocks
  <1>14. \A u \in Threads :
            /\ Maximum(counts)[u] = known[t][u] \/ \E c \in from : Maximum(counts)[u] = carried[c][u]
            /\ known[t][u] =< Maximum(counts)[u]
            /\ \A c \in from : carried[c][u] =< Maximum(counts)[u]
    BY <1>11 DEF counts
  <1>15. \A u \in Threads : Maximum(counts)[u] =< known[u][u]
    <2>1. \A f \in counts : \A u \in Threads : f[u] =< known[u][u]
      BY <1>9 DEF made
    <2> QED
      BY <1>11, <2>1
  <1>16. Maximum(counts) \in Counts
    BY <1>11 DEF Counts
  <1> QED
    BY <1>2, <1>3, <1>12, <1>13, <1>14, <1>15, <1>16 DEF clocks, counts

LEMMA BeginAtomicStep ==
    ASSUME IInv, NEW w \in Workers, BeginAtomic(w)
    PROVE  IInv'
  <1> DEFINE t == SmOf[w]
             op == Op(w)
             checks == BeginChecks(t, op)
             joined == Maximum({vectorClock[t]} \cup {Slot(shadow[c].write) : c \in Synchronizing(t, op)})
             learnt == Maximum({known[t]} \cup {carried[c] : c \in Synchronizing(t, op)})
             clock == ScalarClock(t, op.scope, NextAccess(t))
             k == [learnt EXCEPT ![t] = NextAccess(t)]
             b == [buffer[t] EXCEPT !.dirty = buffer[t].dirty \/ joined # vectorClock[t]]
  <1>1. worker[w].pc = "begin" /\ t \in Threads
    BY ConstantsAssumption DEF BeginAtomic, Running
  <1>2. CASE Failures(checks) # {}
    BY <1>2, StopStep DEF BeginAtomic, StopAtFirst
  <1>3. CASE ~ (Failures(checks) # {})
    <2>1. /\ \E slot \in [CellsOf(op) -> UNION {ReadSlotChoices(t, c) : c \in CellsOf(op)}] :
                /\ \A c \in CellsOf(op) : slot[c] \in ReadSlotChoices(t, c)
                /\ shadow' = [c \in Cells |-> IF c \in CellsOf(op)
                                              THEN RecordRead(shadow[c], slot[c], clock) ELSE shadow[c]]
          /\ vectorClock' = [vectorClock EXCEPT ![t] = joined]
          /\ buffer' = [buffer EXCEPT ![t] = b]
          /\ known' = [known EXCEPT ![t] = k]
          /\ Goto(w, "end")
          /\ UNCHANGED <<ready, lock, cellLock, runVars, carried>>
      BY <1>3 DEF BeginAtomic
    <2>2. /\ op \in program.operations /\ CellsOf(op) \subseteq Cells
          /\ joined \in ClockType /\ learnt \in Counts
          /\ \A u \in Threads : vectorClock[t][u] =< joined[u] /\ learnt[u] =< known[u][u]
      BY <1>1, JoinedClocks
    <2>3. /\ Typed /\ CountsBounded /\ RegistersFit(worker[w], program.operations)
          /\ vectorClock \in [Threads -> ClockType] /\ buffer \in [Threads -> BufferType]
          /\ known \in [Threads -> Counts] /\ carried \in [Cells -> Counts]
          /\ \A c \in Cells : ReadsFit(shadow[c])
      BY DEF IInv, Typed
    <2>4. known[t][t] \in Nat /\ NextAccess(t) = known[t][t] + 1 /\ vectorClock[t][t] \in Nat
      BY <1>1, <2>3, ConstantsAssumption DEF Counts, NextAccess, ClockType
    <2>5. vectorClock[t][t] # 0
      BY <1>1 DEF IInv, Entered, PastEntry, InAccess, InAtomic
    <2>6. clock \in ScalarClockType /\ clock.threadId = t /\ clock.epoch = vectorClock[t][t]
      BY <1>1, <2>2, <2>3, <2>4, ScalarClockTyped, Operations
    <2>7. b \in BufferType
      BY <1>1, <2>3 DEF BufferType
    <2> HIDE DEF joined, learnt, clock, b, checks
    <2>8. k \in Counts /\ \A u \in Threads : k[u] = IF u = t THEN known[t][t] + 1 ELSE learnt[u]
      BY <1>1, <2>2, <2>4 DEF Counts
    <2> HIDE DEF k
    <2>9. known' \in [Threads -> Counts] /\ \A u \in Threads : known'[u] = IF u = t THEN k ELSE known[u]
      BY <2>1, <2>3, <2>8
    <2>10. CountsBounded'
      <3>1. \A u, v \in Threads : known[v][u] \in Nat /\ known[v][u] =< known[u][u] /\ learnt[u] \in Nat
        BY <2>2, <2>3 DEF Counts, CountsBounded
      <3>2. \A u \in Threads : \A c \in Cells : carried[c][u] \in Nat /\ carried[c][u] =< known[u][u]
        BY <2>3 DEF Counts, CountsBounded
      <3>3. \A u \in Threads : known[u][u] =< known'[u][u] /\ known'[u][u] \in Nat
        BY <2>8, <2>9, <3>1
      <3>4. \A u, v \in Threads : known'[v][u] =< known'[u][u]
        BY <2>2, <2>8, <2>9, <3>1, <3>3
      <3>5. \A u \in Threads : \A c \in Cells : carried'[c][u] =< known'[u][u]
        BY <2>1, <3>1, <3>2, <3>3
      <3> QED
        BY <3>4, <3>5 DEF CountsBounded
    <2>11. PICK slot \in [CellsOf(op) -> UNION {ReadSlotChoices(t, c) : c \in CellsOf(op)}] :
                /\ \A c \in CellsOf(op) : slot[c] \in ReadSlotChoices(t, c)
                /\ shadow' = [c \in Cells |-> IF c \in CellsOf(op)
                                              THEN RecordRead(shadow[c], slot[c], clock) ELSE shadow[c]]
      BY <2>1
    <2>12. \A c \in CellsOf(op) : /\ RecordRead(shadow[c], slot[c], clock) \in CellType
                                  /\ ReadsFit(RecordRead(shadow[c], slot[c], clock))
      <3> TAKE c \in CellsOf(op)
      <3> DEFINE i == slot[c]
      <3>1. i \in ReadSlotChoices(t, c) /\ c \in Cells
        BY <2>2, <2>11
      <3> HIDE DEF i
      <3>2. RecordRead(shadow[c], i, clock) \in CellType /\ ReadsFit(RecordRead(shadow[c], i, clock))
        BY <1>1, <2>3, <2>5, <2>6, <3>1, RecordedReads
      <3> QED
        BY <3>2 DEF i
    <2>13. shadow' \in [Cells -> CellType] /\ \A c \in Cells : ReadsFit(shadow'[c])
      <3>1. \A c \in Cells : shadow'[c] = IF c \in CellsOf(op) THEN RecordRead(shadow[c], slot[c], clock) ELSE shadow[c]
        BY <2>11
      <3>2. \A c \in Cells : shadow'[c] \in CellType /\ ReadsFit(shadow'[c])
        BY <2>3, <2>12, <3>1 DEF Typed
      <3> QED
        BY <2>11, <3>2
    <2>14. /\ vectorClock' \in [Threads -> ClockType] /\ vectorClock'[t][t] # 0
           /\ \A u \in Threads : vectorClock[u][u] # 0 => vectorClock'[u][u] # 0
      <3>1. joined[t] # 0
        BY <1>1, <2>2, <2>4, <2>5
      <3>2. \A u \in Threads : vectorClock'[u] = IF u = t THEN joined ELSE vectorClock[u]
        BY <2>1, <2>3
      <3> QED
        BY <1>1, <2>1, <2>2, <2>3, <3>1, <3>2
    <2>15. buffer' \in [Threads -> BufferType]
      BY <2>1, <2>3, <2>7
    <2>16. PICK x \in RegisterType : /\ worker' = [worker EXCEPT ![w] = x]
                                     /\ x.pc = "end" /\ x.op = worker[w].op
      BY <2>1, <2>3, GotoRegisters DEF PCs
    <2>17. RegistersFit(x, program.operations)
      BY <1>1, <2>3, <2>16 DEF RegistersFit, InAccess, InAtomic
    <2>18. /\ IsReader(worker[w]) => IsReader(x)
           /\ IsWriter(worker[w]) => IsWriter(x)
           /\ \A c \in Cells : Holds(worker[w], c) => Holds(x, c)
      BY <1>1, <2>16 DEF IsReader, IsWriter, Holds, InAtomic
    <2>19. LocksHeld'
      BY <2>1, <2>16, <2>18, SameLocks
    <2> QED
      BY <2>1, <2>3, <2>9, <2>10, <2>13, <2>14, <2>15, <2>16, <2>17, <2>19, WorkerStep DEF Typed, runVars
  <1> QED
    BY <1>2, <1>3

LEMMA EndAtomicStep ==
    ASSUME IInv, NEW w \in Workers, EndAtomic(w)
    PROVE  IInv'
  <1> DEFINE t == SmOf[w]
             op == Op(w)
             previous == shadow[op.cells[1]].write
             checks == EndChecks(t, op) \o
                         IF ~HasRelease(op.sem) /\ previous.isRelease
                         THEN <<[prior |-> previous, verdict |-> TokenVerdict(previous)]>>
                         ELSE <<>>
             label == IF \/ HasRelease(op.sem) /\ buffer[t].dirty
                         \/ ~HasRelease(op.sem) /\ previous.isRelease
                      THEN "fill" ELSE "commit"
             token == IF HasRelease(op.sem) THEN buffer[t].head ELSE 0
             snapshot == IF HasRelease(op.sem) THEN vectorClock[t]
                         ELSE IF previous.isRelease THEN Slot(previous) ELSE worker[w].snapshot
             x == [worker[w] EXCEPT !.pc = label, !.token = token, !.snapshot = snapshot]
  <1>1. worker[w].pc = "end" /\ t \in Threads
    BY ConstantsAssumption DEF EndAtomic, Running
  <1>2. CASE Failures(checks) # {}
    BY <1>2, StopStep DEF EndAtomic, StopAtFirst
  <1>3. CASE ~ (Failures(checks) # {})
    <2>1. worker' = [worker EXCEPT ![w] = x] /\ Untouched
      BY <1>3 DEF EndAtomic, Untouched, runVars
    <2>2. /\ Typed /\ worker[w] \in RegisterType /\ RegistersFit(worker[w], program.operations)
          /\ buffer[t] \in BufferType /\ vectorClock[t] \in ClockType
      BY <1>1 DEF IInv, Typed
    <2>3. op \in program.operations /\ op.kind \in AtomicKinds
      BY <1>1, <2>2 DEF RegistersFit, InAccess, InAtomic, Op
    <2>4. op.cells[1] \in Cells
      BY <2>2, <2>3, CellsOfOperation
    <2>5. Slot(previous) \in ClockType
      BY <2>2, <2>4, SlotTyped DEF Typed, CellType
    <2>6. label \in {"fill", "commit"} /\ label \in PCs
      BY DEF PCs
    <2>7. token \in 0 .. MaxEpoch
      BY <2>2, ConstantsAssumption DEF BufferType
    <2>8. snapshot \in ClockType
      BY <2>2, <2>5 DEF RegisterType
    <2> HIDE DEF label, token, snapshot
    <2>9. x \in RegisterType /\ x.pc = label /\ x.op = worker[w].op
      BY <2>2, <2>6, <2>7, <2>8 DEF RegisterType
    <2> HIDE DEF x
    <2>10. RegistersFit(x, program.operations)
      BY <1>1, <2>2, <2>6, <2>9 DEF RegistersFit, InAccess, InAtomic
    <2>11. /\ IsReader(worker[w]) => IsReader(x)
           /\ IsWriter(worker[w]) => IsWriter(x)
           /\ \A c \in Cells : Holds(worker[w], c) => Holds(x, c)
      BY <1>1, <2>6, <2>9 DEF IsReader, IsWriter, Holds, InAtomic
    <2>12. vectorClock[t][t] # 0
      BY <1>1 DEF IInv, Entered, PastEntry, InAccess, InAtomic
    <2> QED
      BY <2>1, <2>9, <2>10, <2>11, <2>12, ControlStep
  <1> QED
    BY <1>2, <1>3

\* A step of an atomic that goes on with its locks held.
LEMMA AtomicGoto ==
    ASSUME IInv, NEW w \in Workers, worker[w].pc \in InAtomic, NEW label \in InAtomic, Goto(w, label)
    PROVE  \E x \in RegisterType :
              /\ worker' = [worker EXCEPT ![w] = x] /\ x.pc = label
              /\ RegistersFit(x, program.operations)
              /\ IsReader(worker[w]) => IsReader(x)
              /\ IsWriter(worker[w]) => IsWriter(x)
              /\ \A c \in Cells : Holds(worker[w], c) => Holds(x, c)
              /\ vectorClock[SmOf[w]][SmOf[w]] # 0
  <1>1. PICK x \in RegisterType : /\ worker' = [worker EXCEPT ![w] = x]
                                  /\ x.pc = label /\ x.op = worker[w].op
    BY GotoRegisters DEF IInv, PCs, InAtomic
  <1>2. RegistersFit(worker[w], program.operations)
    BY DEF IInv
  <1>3. RegistersFit(x, program.operations)
    BY <1>1, <1>2 DEF RegistersFit, InAccess, InAtomic
  <1>4. /\ IsReader(worker[w]) => IsReader(x)
        /\ IsWriter(worker[w]) => IsWriter(x)
        /\ \A c \in Cells : Holds(worker[w], c) => Holds(x, c)
    BY <1>1 DEF IsReader, IsWriter, Holds, InAtomic
  <1>5. vectorClock[SmOf[w]][SmOf[w]] # 0
    BY DEF IInv, Entered, PastEntry, InAccess
  <1> QED
    BY <1>1, <1>3, <1>4, <1>5

LEMMA EndFailedCasStep ==
    ASSUME IInv, NEW w \in Workers, EndFailedCas(w)
    PROVE  IInv'
  <1>1. worker[w].pc \in InAtomic /\ Goto(w, "release") /\ "release" \in InAtomic /\ Untouched
    BY DEF EndFailedCas, Running, Untouched, runVars, InAtomic
  <1> QED
    BY <1>1, AtomicGoto, ControlStep

LEMMA FillSlotStep ==
    ASSUME IInv, NEW w \in Workers, FillSlot(w)
    PROVE  IInv'
  <1> DEFINE t == SmOf[w]
             next == buffer[t].head + 1
             i == next % ClockBufferSize
             slots == [buffer[t].slots EXCEPT ![i] = worker[w].snapshot]
             b == [buffer[t] EXCEPT !.slots = slots]
             x == [worker[w] EXCEPT !.pc = "moveHead", !.token = next]
  <1>1. worker[w].pc = "fill" /\ t \in Threads
    BY ConstantsAssumption DEF FillSlot, Running
  <1>2. CASE next > MaxEpoch
    BY <1>2, StopStep DEF FillSlot
  <1>3. CASE ~ (next > MaxEpoch)
    <2>1. /\ buffer' = [buffer EXCEPT ![t] = b] /\ worker' = [worker EXCEPT ![w] = x]
          /\ UNCHANGED <<vectorClock, ready, lock, shadowVars, runVars, ghostVars>>
      BY <1>3 DEF FillSlot
    <2>2. /\ Typed /\ worker[w] \in RegisterType /\ RegistersFit(worker[w], program.operations)
          /\ buffer[t] \in BufferType
      BY <1>1 DEF IInv, Typed
    <2>3. next \in 0 .. MaxEpoch /\ i \in 0 .. ClockBufferSize - 1
      <3>1. buffer[t].head \in 0 .. MaxEpoch
        BY <2>2 DEF BufferType
      <3>2. next \in Nat /\ next =< MaxEpoch
        BY <1>3, <3>1, ConstantsAssumption
      <3> HIDE DEF next
      <3> QED
        BY <3>2, ConstantsAssumption
    <2>4. worker[w].snapshot \in ClockType /\ buffer[t].slots \in [0 .. ClockBufferSize - 1 -> ClockType]
      BY <2>2 DEF RegisterType, BufferType
    <2> HIDE DEF next, i
    <2>5. slots \in [0 .. ClockBufferSize - 1 -> ClockType]
      BY <2>3, <2>4
    <2> HIDE DEF slots
    <2>6. b \in BufferType
      BY <2>2, <2>5 DEF BufferType
    <2>7. x \in RegisterType /\ x.pc = "moveHead" /\ x.op = worker[w].op
      BY <2>2, <2>3 DEF RegisterType, PCs
    <2> HIDE DEF b, x
    <2>8. buffer' \in [Threads -> BufferType]
      BY <2>1, <2>2, <2>6 DEF Typed
    <2>9. RegistersFit(x, program.operations)
      BY <1>1, <2>2, <2>7 DEF RegistersFit, InAccess, InAtomic
    <2>10. /\ IsReader(worker[w]) => IsReader(x)
           /\ IsWriter(worker[w]) => IsWriter(x)
           /\ \A c \in Cells : Holds(worker[w], c) => Holds(x, c)
      BY <1>1, <2>7 DEF IsReader, IsWriter, Holds, InAtomic
    <2>11. LocksHeld'
      BY <2>1, <2>7, <2>10, SameLocks DEF shadowVars
    <2>12. vectorClock[t][t] # 0
      BY <1>1 DEF IInv, Entered, PastEntry, InAccess, InAtomic
    <2>13. CountsBounded' /\ \A c \in Cells : ReadsFit(shadow'[c])
      BY <2>1 DEF IInv, CountsBounded, ghostVars, shadowVars
    <2> QED
      BY <2>1, <2>2, <2>7, <2>8, <2>9, <2>11, <2>12, <2>13, WorkerStep
      DEF Typed, shadowVars, runVars, ghostVars
  <1> QED
    BY <1>2, <1>3

LEMMA MoveHeadStep ==
    ASSUME IInv, NEW w \in Workers, MoveHead(w)
    PROVE  IInv'
  <1> DEFINE t == SmOf[w]
             b == [buffer[t] EXCEPT !.head = worker[w].token, !.dirty = ~HasRelease(Op(w).sem)]
  <1>1. worker[w].pc \in InAtomic /\ Goto(w, "commit") /\ "commit" \in InAtomic /\ t \in Threads
    BY ConstantsAssumption DEF MoveHead, Running, InAtomic
  <1>2. buffer' = [buffer EXCEPT ![t] = b] /\ UNCHANGED <<vectorClock, ready, lock, shadowVars, runVars, ghostVars>>
    BY DEF MoveHead
  <1>3. worker[w].token \in 0 .. MaxEpoch /\ buffer[t] \in BufferType /\ buffer \in [Threads -> BufferType]
    BY <1>1 DEF IInv, Typed, RegisterType
  <1>4. b \in BufferType
    BY <1>3 DEF BufferType
  <1> HIDE DEF b
  <1>5. buffer' \in [Threads -> BufferType]
    BY <1>2, <1>3, <1>4
  <1>6. PICK x \in RegisterType :
              /\ worker' = [worker EXCEPT ![w] = x] /\ RegistersFit(x, program.operations)
              /\ IsReader(worker[w]) => IsReader(x)
              /\ IsWriter(worker[w]) => IsWriter(x)
              /\ \A c \in Cells : Holds(worker[w], c) => Holds(x, c)
              /\ vectorClock[t][t] # 0
    BY <1>1, AtomicGoto
  <1>7. LocksHeld'
    BY <1>2, <1>6, SameLocks DEF shadowVars
  <1>8. CountsBounded' /\ \A c \in Cells : ReadsFit(shadow'[c])
    BY <1>2 DEF IInv, CountsBounded, ghostVars, shadowVars
  <1> QED
    BY <1>2, <1>5, <1>6, <1>7, <1>8, WorkerStep DEF IInv, Typed, shadowVars, runVars, ghostVars

\* The clock an atomic write leaves, and what an acquire of it learns.
LEMMA NewWriteTyped ==
    ASSUME IInv, NEW w \in Workers, worker[w].pc = "commit"
    PROVE  /\ NewWriteClock(w) \in ScalarClockType
           /\ Released(w) \in Counts /\ \A u \in Threads : Released(w)[u] =< known[u][u]
  <1> DEFINE t == SmOf[w]
             op == Op(w)
  <1>1. t \in Threads /\ Typed /\ CountsBounded /\ worker[w] \in RegisterType /\ op \in program.operations
    BY ConstantsAssumption DEF IInv, Typed, RegistersFit, InAccess, InAtomic, Op
  <1>2. op.scope \in Scopes /\ op.cells[1] \in Cells
    BY <1>1, Operations, CellsOfOperation
  <1>3. known[t] \in Counts /\ known[t][t] \in Nat /\ carried[op.cells[1]] \in Counts
    BY <1>1, <1>2 DEF Typed, Counts
  <1>4. ScalarClock(t, op.scope, known[t][t]) \in ScalarClockType
    BY <1>1, <1>2, <1>3, ScalarClockTyped
  <1>5. Continues(op) \in BOOLEAN
    BY DEF Continues
  <1>6. PublishedClock(t, op.scope, worker[w].token, known[t][t], Continues(op)) \in ScalarClockType
    BY <1>1, <1>2, <1>3, <1>5 DEF PublishedClock, ScalarClockType, RegisterType
  <1>7. NewWriteClock(w) \in ScalarClockType
    BY <1>4, <1>6 DEF NewWriteClock
  <1>8. NoClock \in Counts /\ \A u \in Threads : NoClock[u] = 0 /\ known[u][u] \in Nat
    BY <1>1 DEF NoClock, Counts, Typed
  <1>9. \A u \in Threads : known[t][u] =< known[u][u] /\ carried[op.cells[1]][u] =< known[u][u]
    BY <1>1, <1>2 DEF CountsBounded
  <1>10. Released(w) \in {known[t], carried[op.cells[1]], NoClock}
    BY DEF Released
  <1> QED
    BY <1>3, <1>7, <1>8, <1>9, <1>10

LEMMA CommitWriteStep ==
    ASSUME IInv, NEW w \in Workers, CommitWrite(w)
    PROVE  IInv'
  <1> DEFINE t == SmOf[w]
             op == Op(w)
             write == NewWriteClock(w)
             released == Released(w)
             b == [buffer[t] EXCEPT !.dirty = buffer[t].dirty \/ HasRelease(op.sem)]
             epoch == vectorClock[t][t] + 1
             clock == [vectorClock[t] EXCEPT ![t] = epoch]
  <1>1. worker[w].pc = "commit" /\ t \in Threads
    BY ConstantsAssumption DEF CommitWrite, Running
  <1>2. CASE HasRelease(op.sem) /\ vectorClock[t][t] = MaxEpoch
    BY <1>2, StopStep DEF CommitWrite
  <1>3. CASE ~ (HasRelease(op.sem) /\ vectorClock[t][t] = MaxEpoch)
    <2>1. /\ shadow' = [c \in Cells |-> IF c \in CellsOf(op) THEN [shadow[c] EXCEPT !.write = write]
                                        ELSE shadow[c]]
          /\ carried' = [c \in Cells |-> IF c \in CellsOf(op) THEN released ELSE carried[c]]
          /\ vectorClock' = IF HasRelease(op.sem) THEN [vectorClock EXCEPT ![t] = clock] ELSE vectorClock
          /\ buffer' = [buffer EXCEPT ![t] = b]
          /\ Goto(w, "release")
          /\ UNCHANGED <<ready, lock, cellLock, runVars, known>>
      BY <1>3 DEF CommitWrite
    <2>2. /\ Typed /\ CountsBounded
          /\ vectorClock \in [Threads -> ClockType] /\ buffer \in [Threads -> BufferType]
          /\ known \in [Threads -> Counts] /\ carried \in [Cells -> Counts]
          /\ shadow \in [Cells -> CellType]
          /\ \A c \in Cells : ReadsFit(shadow[c])
      BY DEF IInv, Typed
    <2>3. write \in ScalarClockType /\ released \in Counts /\ \A u \in Threads : released[u] =< known[u][u]
      BY <1>1, NewWriteTyped
    <2> HIDE DEF write, released
    <2>4. \A c \in Cells : /\ [shadow[c] EXCEPT !.write = write] \in CellType
                           /\ [shadow[c] EXCEPT !.write = write].reads = shadow[c].reads
      <3> TAKE c \in Cells
      <3>1. shadow[c] \in CellType
        BY <2>2
      <3> QED
        BY <2>3, <3>1 DEF CellType
    <2>5. shadow' \in [Cells -> CellType] /\ \A c \in Cells : ReadsFit(shadow'[c])
      <3>1. \A c \in Cells : shadow'[c] \in CellType /\ shadow'[c].reads = shadow[c].reads
        BY <2>1, <2>2, <2>4
      <3> QED
        BY <2>1, <2>2, <3>1 DEF ReadsFit
    <2>6. carried' \in [Cells -> Counts] /\ CountsBounded'
      <3>1. \A c \in Cells : carried'[c] = IF c \in CellsOf(op) THEN released ELSE carried[c]
        BY <2>1
      <3>2. \A c \in Cells : carried'[c] \in Counts /\ \A u \in Threads : carried'[c][u] =< known[u][u]
        BY <2>2, <2>3, <3>1 DEF CountsBounded
      <3> QED
        BY <2>1, <2>2, <3>2 DEF CountsBounded
    <2>7. b \in BufferType
      BY <1>1, <2>2 DEF BufferType, HasRelease
    <2>8. buffer' \in [Threads -> BufferType]
      <3> HIDE DEF b
      <3> QED
        BY <2>1, <2>2, <2>7
    <2>9. /\ vectorClock' \in [Threads -> ClockType]
          /\ \A u \in Threads : vectorClock[u][u] # 0 => vectorClock'[u][u] # 0
      <3>1. CASE ~HasRelease(op.sem)
        BY <2>1, <2>2, <3>1
      <3>2. CASE HasRelease(op.sem)
        <4>1. vectorClock[t] \in ClockType /\ vectorClock[t][t] \in 0 .. MaxEpoch
          BY <1>1, <2>2 DEF ClockType
        <4>2. epoch \in 0 .. MaxEpoch /\ epoch # 0
          BY <1>3, <3>2, <4>1, ConstantsAssumption
        <4> HIDE DEF epoch
        <4>3. clock \in ClockType /\ clock[t] = epoch
          BY <1>1, <4>1, <4>2 DEF ClockType
        <4> HIDE DEF clock
        <4> QED
          BY <2>1, <2>2, <3>2, <4>2, <4>3
      <3> QED
        BY <3>1, <3>2
    <2>10. worker[w].pc \in InAtomic /\ "release" \in InAtomic
      BY <1>1 DEF InAtomic
    <2>11. PICK x \in RegisterType :
                /\ worker' = [worker EXCEPT ![w] = x] /\ RegistersFit(x, program.operations)
                /\ IsReader(worker[w]) => IsReader(x)
                /\ IsWriter(worker[w]) => IsWriter(x)
                /\ \A c \in Cells : Holds(worker[w], c) => Holds(x, c)
                /\ vectorClock[t][t] # 0
      BY <2>1, <2>10, AtomicGoto
    <2>12. LocksHeld'
      BY <2>1, <2>11, SameLocks
    <2> QED
      BY <1>1, <2>1, <2>2, <2>5, <2>6, <2>8, <2>9, <2>11, <2>12, WorkerStep DEF Typed, runVars
  <1> QED
    BY <1>2, <1>3

-----------------------------------------------------------------------------
(* Launches                                                                *)

\* What the clocks are after the join that is queued behind a launch.
LEMMA SynchronizedClocks ==
    ASSUME IInv, NEW d \in Devices, SynchronizeLaunchStream(d)
    PROVE  /\ vectorClock' \in [Threads -> ClockType] /\ known' \in [Threads -> Counts]
           /\ \A t \in Threads \ Sms(d) : vectorClock'[t] = vectorClock[t] /\ known'[t] = known[t]
           /\ \A t \in Sms(d), u \in Threads :
                /\ \E v \in Sms(d) : vectorClock'[t][u] = vectorClock[v][u]
                /\ \E v \in Sms(d) : known'[t][u] = known[v][u]
                /\ \A v \in Sms(d) : vectorClock[v][u] =< vectorClock'[t][u] /\ known[v][u] =< known'[t][u]
           /\ \A t, u \in Threads : known'[t][u] =< known[u][u] /\ known'[u][u] = known[u][u]
  <1> DEFINE clocks == {vectorClock[t] : t \in Sms(d)}
             counts == {known[t] : t \in Sms(d)}
             epochs == [u \in Threads |-> MaxEpoch]
             made == [u \in Threads |-> known[u][u]]
  <1>1. /\ vectorClock' = [t \in Threads |-> IF t \in Sms(d) THEN Maximum(clocks) ELSE vectorClock[t]]
        /\ known' = [t \in Threads |-> IF t \in Sms(d) THEN Maximum(counts) ELSE known[t]]
    BY DEF SynchronizeLaunchStream
  <1>2. /\ vectorClock \in [Threads -> ClockType] /\ known \in [Threads -> Counts]
        /\ CountsBounded /\ Sms(d) \subseteq Threads
    BY DEF IInv, Typed, Sms
  <1>3. \A u \in Threads : known[u][u] \in Nat /\ \A t \in Threads : known[t][u] \in Nat /\ known[t][u] =< known[u][u]
    BY <1>2 DEF Counts, CountsBounded
  <1>4. CASE Sms(d) = {}
    BY <1>1, <1>2, <1>3, <1>4
  <1>5. CASE Sms(d) # {}
    <2>1. epochs \in [Threads -> Nat] /\ clocks # {}
          /\ \A f \in clocks : f \in [Threads -> Nat] /\ \A u \in Threads : f[u] =< epochs[u]
      BY <1>2, <1>5, ConstantsAssumption DEF ClockType
    <2>2. made \in [Threads -> Nat] /\ counts # {}
          /\ \A f \in counts : f \in [Threads -> Nat] /\ \A u \in Threads : f[u] =< made[u]
      BY <1>2, <1>3, <1>5 DEF Counts
    <2> HIDE DEF clocks, counts, epochs, made
    <2>3. /\ Maximum(clocks) \in [Threads -> Nat]
          /\ \A u \in Threads : /\ \E f \in clocks : Maximum(clocks)[u] = f[u]
                                /\ \A f \in clocks : f[u] =< Maximum(clocks)[u]
      BY <2>1, MaximumProperties
    <2>4. /\ Maximum(counts) \in [Threads -> Nat]
          /\ \A u \in Threads : /\ \E f \in counts : Maximum(counts)[u] = f[u]
                                /\ \A f \in counts : f[u] =< Maximum(counts)[u]
      BY <2>2, MaximumProperties
    <2>5. \A u \in Threads : /\ \E v \in Sms(d) : Maximum(clocks)[u] = vectorClock[v][u]
                             /\ \A v \in Sms(d) : vectorClock[v][u] =< Maximum(clocks)[u]
      BY <2>3 DEF clocks
    <2>6. \A u \in Threads : /\ \E v \in Sms(d) : Maximum(counts)[u] = known[v][u]
                             /\ \A v \in Sms(d) : known[v][u] =< Maximum(counts)[u]
      BY <2>4 DEF counts
    <2>7. Maximum(clocks) \in ClockType
      <3>1. \A u \in Threads : Maximum(clocks)[u] \in 0 .. MaxEpoch
        BY <1>2, <2>5 DEF ClockType
      <3> QED
        BY <2>3, <3>1 DEF ClockType
    <2>8. Maximum(counts) \in Counts
      BY <2>4 DEF Counts
    <2>9. \A t \in Threads : vectorClock'[t] = IF t \in Sms(d) THEN Maximum(clocks) ELSE vectorClock[t]
      BY <1>1
    <2>10. \A t \in Threads : known'[t] = IF t \in Sms(d) THEN Maximum(counts) ELSE known[t]
      BY <1>1
    <2>11. vectorClock' \in [Threads -> ClockType] /\ known' \in [Threads -> Counts]
      BY <1>1, <1>2, <2>7, <2>8
    <2>12. \A t, u \in Threads : known'[t][u] =< known[u][u]
      BY <1>2, <1>3, <2>6, <2>10
    <2>13. \A u \in Threads : known'[u][u] = known[u][u]
      <3> TAKE u \in Threads
      <3>1. CASE u \notin Sms(d)
        BY <2>10, <3>1
      <3>2. CASE u \in Sms(d)
        <4>1. known[u][u] =< Maximum(counts)[u] /\ Maximum(counts)[u] =< known[u][u] /\ Maximum(counts)[u] \in Nat
          BY <1>2, <1>3, <2>4, <2>6, <3>2
        <4> QED
          BY <1>3, <2>10, <3>2, <4>1
      <3> QED
        BY <3>1, <3>2
    <2>14. \A t \in Sms(d), u \in Threads :
                /\ \E v \in Sms(d) : vectorClock'[t][u] = vectorClock[v][u]
                /\ \E v \in Sms(d) : known'[t][u] = known[v][u]
                /\ \A v \in Sms(d) : vectorClock[v][u] =< vectorClock'[t][u] /\ known[v][u] =< known'[t][u]
      <3> TAKE t \in Sms(d), u \in Threads
      <3>1. vectorClock'[t] = Maximum(clocks) /\ known'[t] = Maximum(counts)
        BY <1>2, <2>9, <2>10
      <3>2. \E v \in Sms(d) : vectorClock'[t][u] = vectorClock[v][u]
        BY <2>5, <3>1
      <3>3. \E v \in Sms(d) : known'[t][u] = known[v][u]
        BY <2>6, <3>1
      <3>4. \A v \in Sms(d) : vectorClock[v][u] =< vectorClock'[t][u] /\ known[v][u] =< known'[t][u]
        BY <2>5, <2>6, <3>1
      <3> QED
        BY <3>2, <3>3, <3>4
    <2> QED
      BY <2>9, <2>10, <2>11, <2>12, <2>13, <2>14
  <1> QED
    BY <1>4, <1>5

LEMMA EntryRegisters ==
    AtEntry \in RegisterType /\ AtEntry.pc = "entry" /\ AtEntry.op = NoOperation
  <1>1. NoClock \in ClockType
    BY ConstantsAssumption DEF NoClock, ClockType
  <1>2. 0 \in 0 .. MaxEpoch /\ 1 \in Nat \ {0}
    BY ConstantsAssumption
  <1> QED
    BY <1>1, <1>2 DEF AtEntry, RegisterType, PCs

LEMMA SynchronizeLaunchStreamStep ==
    ASSUME IInv, NEW d \in Devices, SynchronizeLaunchStream(d)
    PROVE  IInv'
  <1>1. /\ vectorClock' \in [Threads -> ClockType] /\ known' \in [Threads -> Counts]
        /\ \A t, u \in Threads : known'[t][u] =< known[u][u] /\ known'[u][u] = known[u][u]
        /\ \A t \in Threads \ Sms(d) : vectorClock'[t] = vectorClock[t]
        /\ \A t \in Sms(d), u \in Threads : \A v \in Sms(d) : vectorClock[v][u] =< vectorClock'[t][u]
    BY SynchronizedClocks
  <1>2. /\ worker' = [w \in Workers |-> IF w \in OnDevice(d) THEN AtEntry ELSE worker[w]]
        /\ launches' = [launches EXCEPT ![d] = launches[d] + 1] /\ launches[d] < program.launches[d]
        /\ \A w \in OnDevice(d) : worker[w].pc = "exited"
        /\ UNCHANGED <<buffer, ready, lock, shadowVars, program, trap, carried>>
    BY DEF SynchronizeLaunchStream
  <1>3. \A w \in Workers : worker'[w] = IF w \in OnDevice(d) THEN AtEntry ELSE worker[w]
    BY <1>2
  <1>4. AtEntry \in RegisterType /\ AtEntry.pc = "entry" /\ AtEntry.op = NoOperation
    BY EntryRegisters
  <1>5. worker' \in [Workers -> RegisterType]
    BY <1>2, <1>4 DEF IInv, Typed
  <1>6. launches' \in [Devices -> Nat] /\ \A e \in Devices : launches'[e] =< program'.launches[e]
    <2>1. program \in Programs /\ launches \in [Devices -> Nat] /\ \A e \in Devices : launches[e] =< program.launches[e]
      BY DEF IInv, Typed
    <2>2. program.launches \in [Devices -> Nat]
      BY <2>1, ConstantsAssumption
    <2> QED
      BY <1>2, <2>1, <2>2
  <1>7. Typed'
    BY <1>1, <1>2, <1>5, <1>6 DEF IInv, Typed, shadowVars
  <1>8. CountsBounded' /\ \A c \in Cells : ReadsFit(shadow'[c])
    BY <1>1, <1>2 DEF IInv, CountsBounded, shadowVars
  <1>9. \A w \in Workers : RegistersFit(worker'[w], program'.operations)
    <2>1. RegistersFit(AtEntry, program.operations)
      BY <1>4 DEF RegistersFit, InAccess, InAtomic
    <2> QED
      BY <1>2, <1>3, <2>1 DEF IInv
  <1>10. \A w \in OnDevice(d) : ~IsReader(worker[w]) /\ ~IsWriter(worker[w]) /\ \A c : ~Holds(worker[w], c)
    <2> TAKE w \in OnDevice(d)
    <2>1. worker[w].pc \notin {"range", "access"} \cup InAtomic
      BY <1>2 DEF InAtomic
    <2> QED
      BY <2>1, HoldsNothing
  <1>11. LocksHeld'
    <2>1. \A t \in Threads : lock[t].readers \subseteq Workers /\ lock[t].writers \subseteq Workers
      BY DEF IInv, Typed
    <2>2. \A c \in Cells : cellLock[c] # NoWorker => cellLock[c] \in Workers
      BY DEF IInv, Typed
    <2> QED
      BY <1>2, <1>3, <1>10, <2>1, <2>2 DEF IInv, LocksHeld, shadowVars
  <1>12. Entered'
    <2> SUFFICES ASSUME NEW w \in Workers, worker'[w].pc \in PastEntry
                 PROVE  vectorClock'[SmOf[w]][SmOf[w]] # 0
      BY DEF Entered
    <2>1. w \notin OnDevice(d)
      BY <1>3, <1>4 DEF PastEntry, InAccess, InAtomic
    <2>2. SmOf[w] \in Threads /\ SmOf[w] \notin Sms(d)
      BY <2>1, ConstantsAssumption DEF OnDevice, Sms
    <2> QED
      BY <1>1, <1>3, <2>1, <2>2 DEF IInv, Entered
  <1> QED
    BY <1>7, <1>8, <1>9, <1>11, <1>12 DEF IInv

-----------------------------------------------------------------------------
(* Theorems                                                                *)

LEMMA InitIInv ==
    ASSUME Init PROVE IInv
  <1>1. NoClock \in ClockType /\ NoClock \in Counts /\ \A t \in Threads : NoClock[t] = 0
    BY ConstantsAssumption DEF NoClock, ClockType, Counts
  <1>2. 0 \in 0 .. MaxEpoch /\ 0 \in Threads
    <2>1. NumSms * NumDevices \in Nat \ {0}
      BY ConstantsAssumption
    <2> QED
      BY <2>1, ConstantsAssumption DEF Threads
  <1>3. EmptyScalarClock \in ScalarClockType /\ EmptyScalarClock.epoch = 0
    BY <1>2 DEF EmptyScalarClock, ScalarClockType, Scopes
  <1>4. /\ AtEntry \in RegisterType /\ AtEntry.pc = "entry"
        /\ [AtEntry EXCEPT !.pc = "exited"] \in RegisterType
        /\ [AtEntry EXCEPT !.pc = "exited"].pc = "exited"
    BY EntryRegisters DEF RegisterType, PCs
  <1>5. \A w \in Workers : worker[w] \in {AtEntry, [AtEntry EXCEPT !.pc = "exited"]}
    BY DEF Init
  <1>6. \A w \in Workers : worker[w] \in RegisterType /\ worker[w].pc \in {"entry", "exited"}
    BY <1>4, <1>5
  <1>7. worker \in [Workers -> RegisterType]
    <2>1. worker = [w \in Workers |-> worker[w]]
      BY DEF Init
    <2> QED
      BY <1>6, <2>1
  <1>8. program \in Programs /\ program.launches \in [Devices -> Nat]
    BY ConstantsAssumption DEF Init
  <1>9. \A d \in Devices : Min({1, program.launches[d]}) \in Nat /\ Min({1, program.launches[d]}) =< program.launches[d]
    <2> TAKE d \in Devices
    <2> DEFINE S == {1, program.launches[d]}
    <2>1. S \in SUBSET Nat /\ S # {} /\ program.launches[d] \in S
      BY <1>8
    <2> HIDE DEF S
    <2>2. Min(S) \in S /\ Min(S) =< program.launches[d]
      BY <2>1, MinProperties
    <2>3. Min(S) \in Nat
      BY <2>1, <2>2
    <2> QED
      BY <2>2, <2>3 DEF S
  <1>10. launches \in [Devices -> Nat] /\ \A d \in Devices : launches[d] =< program.launches[d]
    BY <1>9 DEF Init
  <1>11. buffer \in [Threads -> BufferType]
    BY <1>1, <1>2 DEF Init, BufferType
  <1>12. shadow \in [Cells -> CellType]
    BY <1>3 DEF Init, CellType
  <1>13. Typed
    <2>1. /\ vectorClock \in [Threads -> ClockType] /\ ready \subseteq Threads
          /\ lock \in [Threads -> [readers : SUBSET Workers, writers : SUBSET Workers]]
          /\ cellLock \in [Cells -> Workers \cup {NoWorker}]
          /\ known \in [Threads -> Counts] /\ carried \in [Cells -> Counts]
      BY <1>1 DEF Init
    <2> QED
      BY <1>7, <1>8, <1>10, <1>11, <1>12, <2>1 DEF Typed
  <1>14. CountsBounded
    BY <1>1 DEF Init, CountsBounded
  <1>15. \A w \in Workers : RegistersFit(worker[w], program.operations)
    BY <1>6 DEF RegistersFit, InAccess, InAtomic
  <1>16. LocksHeld
    BY DEF Init, LocksHeld
  <1>17. \A c \in Cells : ReadsFit(shadow[c])
    BY <1>3 DEF Init, ReadsFit
  <1>18. Entered
    BY <1>6 DEF Entered, PastEntry, InAccess, InAtomic
  <1> QED
    BY <1>13, <1>14, <1>15, <1>16, <1>17, <1>18 DEF IInv

LEMMA NextIInv ==
    ASSUME IInv, [Next]_vars PROVE IInv'
  <1>1. CASE UNCHANGED vars
    BY <1>1 DEF vars, threadVars, shadowVars, runVars, ghostVars, IInv, Typed, CountsBounded, LocksHeld, Entered
  <1>2. ASSUME NEW w \in Workers, Step(w)
        PROVE  IInv'
    BY <1>2, EnterStep, LazyInitStep, LoadEpochStep, StoreEpochStep, LoadWordStep, StoreWordStep,
       AcquireReadStep, AcquireWriteStep, AcquireShadowStep, ReleaseReadStep, DoReadStep, DoWriteStep,
       BeginAtomicStep, EndAtomicStep, EndFailedCasStep, FillSlotStep, MoveHeadStep, CommitWriteStep,
       ReleaseAtomicShadowRangeStep DEF Step
  <1>3. ASSUME NEW w \in Workers, Spin(w)
        PROVE  UNCHANGED vars
    BY <1>3 DEF Spin
  <1>4. CASE Stutter
    BY <1>1, <1>4 DEF Stutter
  <1> QED
    BY <1>1, <1>2, <1>3, <1>4, ExitStep, IssueStep, SynchronizeLaunchStreamStep DEF Next

\* The variables stay in their types and the locks with those that hold them,
\* however many workers share an SM.
THEOREM Invariance == Spec => []IInv
  <1>1. Init => IInv
    BY InitIInv
  <1>2. IInv /\ [Next]_vars => IInv'
    BY NextIInv
  <1> QED
    BY <1>1, <1>2, PTL DEF Spec

\* acquireAtomicShadowRange's FIXME: no workers wait for each other in a circle,
\* and none waits for one that is through with its access.
THEOREM NoCircleOfWaiters == Spec => []NoDeadlock
  <1>1. IInv => NoDeadlock
    BY LocksAreFreed
  <1> QED
    BY <1>1, Invariance, PTL

LEMMA TypesFit ==
    ASSUME IInv PROVE TypeOK
  <1>1. Typed
    BY DEF IInv
  <1>2. \A t \in Threads : buffer[t] \in BufferType
    BY <1>1 DEF Typed
  <1>3. \A c \in Cells : shadow[c] \in CellType
    BY <1>1 DEF Typed
  <1>4. \A w \in Workers : worker[w] \in RegisterType
    BY <1>1 DEF Typed
  <1>5. \A d \in Devices : launches[d] \in 0 .. program.launches[d]
    <2>1. program.launches \in [Devices -> Nat]
      BY <1>1, ConstantsAssumption DEF Typed
    <2> QED
      BY <1>1, <2>1 DEF Typed
  <1>6. \A w \in Workers : worker[w].pc \in PCs
    BY <1>4 DEF RegisterType
  <1>7. \A t \in Threads : /\ buffer[t].dirty \in BOOLEAN
                           /\ buffer[t].head \in 0 .. MaxEpoch
                           /\ buffer[t].slots \in [0 .. ClockBufferSize - 1 -> ClockType]
    BY <1>2 DEF BufferType
  <1>8. \A c \in Cells : /\ shadow[c].reads \in [ReadSlots -> ScalarClockType]
                         /\ shadow[c].write \in ScalarClockType
                         /\ shadow[c].numReads \in Nat
    BY <1>3 DEF CellType
  <1> QED
    BY <1>1, <1>5, <1>6, <1>7, <1>8 DEF TypeOK, Typed

\* The variables stay in their types.
THEOREM TypesKept == Spec => []TypeOK
  <1>1. IInv => TypeOK
    BY TypesFit
  <1> QED
    BY <1>1, Invariance, PTL

\* No step drops a reader of a cell that has a free slot: only recordRead writes
\* the slots, for a plain read and for the read half of an atomic.
LEMMA ReadersStep ==
    ASSUME IInv, [Next]_vars, NEW c \in Cells, \E i \in ReadSlots : shadow[c].reads[i].epoch = 0
    PROVE  ReadersOf(shadow[c]) \subseteq ReadersOf(shadow'[c])
  <1>1. /\ Typed /\ shadow \in [Cells -> CellType] /\ \A d \in Cells : ReadsFit(shadow[d])
        /\ \A w \in Workers : SmOf[w] \in Threads
    BY ConstantsAssumption DEF IInv, Typed
  <1>2. CASE shadow'[c].reads = shadow[c].reads
    BY <1>2 DEF ReadersOf
  <1>3. ASSUME NEW w \in Workers, DoRead(w)
        PROVE  ReadersOf(shadow[c]) \subseteq ReadersOf(shadow'[c])
    <2> DEFINE t == SmOf[w]
               e == CurrentCell(w)
               clock == ScalarClock(t, "nonatomic", NextAccess(t))
    <2>1. CASE UNCHANGED shadowVars
      BY <1>2, <2>1 DEF shadowVars
    <2>2. CASE ~ UNCHANGED shadowVars
      <3>1. /\ worker[w].pc = "access"
            /\ CountAccess(t) /\ ReleaseShadow(w) /\ UNCHANGED <<threadVars, lock, runVars, carried>>
            /\ \E slot \in ReadSlotChoices(t, e) : shadow' = [shadow EXCEPT ![e] = RecordRead(shadow[e], slot, clock)]
        BY <1>3, <2>2 DEF DoRead, Running, StopAtFirst, Stop
      <3>2. PICK slot \in ReadSlotChoices(t, e) : shadow' = [shadow EXCEPT ![e] = RecordRead(shadow[e], slot, clock)]
        BY <3>1
      <3>3. e \in Cells
        BY <3>1, ReleaseShadowStep DEF runVars
      <3>4. vectorClock[t][t] # 0
        BY <3>1 DEF IInv, Entered, PastEntry, InAccess
      <3>5. clock \in ScalarClockType /\ clock.threadId = t /\ clock.epoch = vectorClock[t][t]
        <4>1. NextAccess(t) \in Nat
          BY <1>1, <3>1, CountAccessStep
        <4> QED
          BY <1>1, <4>1, ScalarClockTyped DEF Scopes
      <3> HIDE DEF clock, e
      <3>6. (\E i \in ReadSlots : shadow[e].reads[i].epoch = 0)
               => ReadersOf(shadow[e]) \subseteq ReadersOf(RecordRead(shadow[e], slot, clock))
        BY <1>1, <3>3, <3>4, <3>5, RecordedReads
      <3> QED
        BY <1>1, <3>2, <3>3, <3>6
    <2> QED
      BY <2>1, <2>2
  <1>4. ASSUME NEW w \in Workers, BeginAtomic(w)
        PROVE  ReadersOf(shadow[c]) \subseteq ReadersOf(shadow'[c])
    <2> DEFINE t == SmOf[w]
               op == Op(w)
               clock == ScalarClock(t, op.scope, NextAccess(t))
    <2>1. CASE UNCHANGED shadowVars
      BY <1>2, <2>1 DEF shadowVars
    <2>2. CASE ~ UNCHANGED shadowVars
      <3>1. /\ worker[w].pc = "begin"
            /\ \E slot \in [CellsOf(op) -> UNION {ReadSlotChoices(t, d) : d \in CellsOf(op)}] :
                /\ \A d \in CellsOf(op) : slot[d] \in ReadSlotChoices(t, d)
                /\ shadow' = [d \in Cells |-> IF d \in CellsOf(op)
                                              THEN RecordRead(shadow[d], slot[d], clock) ELSE shadow[d]]
        BY <1>4, <2>2 DEF BeginAtomic, Running, StopAtFirst, Stop
      <3>2. PICK slot \in [CellsOf(op) -> UNION {ReadSlotChoices(t, d) : d \in CellsOf(op)}] :
                /\ \A d \in CellsOf(op) : slot[d] \in ReadSlotChoices(t, d)
                /\ shadow' = [d \in Cells |-> IF d \in CellsOf(op)
                                              THEN RecordRead(shadow[d], slot[d], clock) ELSE shadow[d]]
        BY <3>1
      <3>3. op \in program.operations
        BY <3>1, JoinedClocks
      <3>4. vectorClock[t][t] # 0
        BY <3>1 DEF IInv, Entered, PastEntry, InAccess, InAtomic
      <3>5. clock \in ScalarClockType /\ clock.threadId = t /\ clock.epoch = vectorClock[t][t]
        <4>1. known[t][t] \in Nat
          BY <1>1 DEF Typed, Counts
        <4>2. NextAccess(t) \in Nat
          BY <4>1 DEF NextAccess
        <4> QED
          BY <1>1, <3>3, <4>2, ScalarClockTyped, Operations
      <3> DEFINE s == slot[c]
      <3>6. CASE c \in CellsOf(op)
        <4>1. s \in ReadSlotChoices(t, c) /\ shadow'[c] = RecordRead(shadow[c], s, clock)
          BY <3>2, <3>6
        <4> HIDE DEF clock, s
        <4>2. ReadersOf(shadow[c]) \subseteq ReadersOf(RecordRead(shadow[c], s, clock))
          BY <1>1, <3>4, <3>5, <4>1, RecordedReads
        <4> QED
          BY <4>1, <4>2
      <3>7. CASE c \notin CellsOf(op)
        BY <1>2, <3>2, <3>7
      <3> QED
        BY <3>6, <3>7
    <2> QED
      BY <2>1, <2>2
  <1>5. ASSUME NEW w \in Workers, DoWrite(w)
        PROVE  shadow'[c].reads = shadow[c].reads
    <2>1. \/ shadow' = shadow
          \/ \E clock : shadow' = [shadow EXCEPT ![CurrentCell(w)].write = clock]
      BY <1>5 DEF DoWrite, StopAtFirst, Stop, shadowVars
    <2> QED
      BY <1>1, <2>1 DEF CellType
  <1>6. ASSUME NEW w \in Workers, CommitWrite(w)
        PROVE  shadow'[c].reads = shadow[c].reads
    <2>1. \/ shadow' = shadow
          \/ shadow' = [d \in Cells |-> IF d \in CellsOf(Op(w)) THEN [shadow[d] EXCEPT !.write = NewWriteClock(w)]
                                        ELSE shadow[d]]
      BY <1>6 DEF CommitWrite, Stop, shadowVars
    <2> DEFINE write == NewWriteClock(w)
    <2>2. shadow'[c] \in {shadow[c], [shadow[c] EXCEPT !.write = write]}
      BY <2>1
    <2>3. shadow[c] \in CellType
      BY <1>1
    <2> HIDE DEF write
    <2> QED
      BY <2>2, <2>3 DEF CellType
  <1>7. ASSUME NEW w \in Workers, Step(w) \/ Spin(w) \/ Exit(w) \/ \E op \in program.operations : Issue(w, op)
        PROVE  DoRead(w) \/ BeginAtomic(w) \/ DoWrite(w) \/ CommitWrite(w) \/ UNCHANGED shadow
    BY <1>7 DEF Step, Spin, Exit, Issue, Enter, LazyInit, LoadEpoch, StoreEpoch, LoadWord, StoreWord, AcquireRead,
       AcquireWrite, AcquireShadow, ReleaseRead, EndAtomic, EndFailedCas, FillSlot, MoveHead,
       ReleaseAtomicShadowRange, StopAtFirst, Stop, shadowVars, vars
  <1>8. ASSUME NEW d \in Devices, SynchronizeLaunchStream(d)
        PROVE  UNCHANGED shadow
    BY <1>8 DEF SynchronizeLaunchStream, shadowVars
  <1>9. CASE UNCHANGED shadow
    BY <1>2, <1>9
  <1>10. CASE UNCHANGED vars
    BY <1>9, <1>10 DEF vars, shadowVars
  <1>11. CASE Stutter
    BY <1>10, <1>11 DEF Stutter
  <1>12. \/ \E w \in Workers : Step(w) \/ Spin(w) \/ Exit(w) \/ \E op \in program.operations : Issue(w, op)
         \/ \E d \in Devices : SynchronizeLaunchStream(d)
         \/ Stutter \/ UNCHANGED vars
    BY DEF Next
  <1> QED
    BY <1>2, <1>3, <1>4, <1>5, <1>6, <1>7, <1>8, <1>9, <1>10, <1>11, <1>12

\* recordRead forgets no reader while a slot is free, and gives an SM one slot.
THEOREM ReadersAreKept == Spec => ReadersKept
  <1> DEFINE Kept == \A c \in Cells :
                /\ (\E i \in ReadSlots : shadow[c].reads[i].epoch = 0) => Readers(c) \subseteq Readers(c)'
                /\ Cardinality(Readers(c)') =
                     Cardinality({i \in ReadSlots : shadow'[c].reads[i].epoch # 0})
  <1>1. IInv /\ [Next]_vars => Kept
    <2> SUFFICES ASSUME IInv, [Next]_vars, NEW c \in Cells
                 PROVE  /\ (\E i \in ReadSlots : shadow[c].reads[i].epoch = 0) => Readers(c) \subseteq Readers(c)'
                        /\ Cardinality(Readers(c)') =
                             Cardinality({i \in ReadSlots : shadow'[c].reads[i].epoch # 0})
      OBVIOUS
    <2>1. Readers(c) = ReadersOf(shadow[c]) /\ Readers(c)' = ReadersOf(shadow'[c])
      BY DEF Readers, ReadersOf
    <2>2. (\E i \in ReadSlots : shadow[c].reads[i].epoch = 0) => ReadersOf(shadow[c]) \subseteq ReadersOf(shadow'[c])
      BY ReadersStep
    <2> DEFINE cell == shadow'[c]
    <2>3. cell \in CellType /\ ReadsFit(cell)
      BY NextIInv DEF IInv, Typed
    <2>4. Cardinality(ReadersOf(cell)) = Cardinality({i \in ReadSlots : cell.reads[i].epoch # 0})
      <3> HIDE DEF cell
      <3> QED
        BY <2>3, ReadersCounted
    <2> QED
      BY <2>1, <2>2, <2>4
  <1>2. IInv /\ [Next]_vars => [Kept]_vars
    BY <1>1
  <1> QED
    BY <1>2, Invariance, PTL DEF Spec, ReadersKept

-----------------------------------------------------------------------------
(* The clocks                                                              *)


\* Each SM runs one worker.
OnePerSm == \A v, w \in Workers : SmOf[v] = SmOf[w] => v = w

\* No SM has published as many clocks as its ring has slots.
RingsFresh == \A t \in Threads : buffer[t].head < ClockBufferSize

-----------------------------------------------------------------------------
(* The inductive invariant                                                 *)

\* What a thread, or a cell with a release write, knows of every thread: an
\* epoch, and with it the exact number of its accesses.
ViewType == [epochs : Counts, counts : Counts]
ThreadView == [t \in Threads |-> [epochs |-> vectorClock[t], counts |-> known[t]]]
CellView == [c \in Cells |-> [epochs |-> Slot(shadow[c].write), counts |-> carried[c]]]
ReleasedCells == {c \in Cells : shadow[c].write.isRelease}
Views == {ThreadView[t] : t \in Threads} \cup {CellView[c] : c \in ReleasedCells}

\* View x covers the access of scalar clock r by its epoch if and only if it
\* covers it by its number.
ScalarFits(x, r) == x.epochs[r.threadId] >= r.epoch <=> x.counts[r.threadId] >= r.n

\* A view that covers thread u as far as view q does has learnt all of q: q is
\* what u published when it left that epoch.
Above(x, q) == \A v \in Threads : x.epochs[v] >= q.epochs[v] /\ x.counts[v] >= q.counts[v]
Follows(x, q, u) == x.epochs[u] >= q.epochs[u] \/ x.counts[u] >= q.counts[u] => Above(x, q)

Scalars(cell) == {r \in {cell.write} \cup {cell.reads[i] : i \in ReadSlots} : r.epoch # 0 /\ ~r.isRelease}

ScalarExact(r) ==
    /\ r.epoch =< vectorClock[r.threadId][r.threadId] /\ r.n =< known[r.threadId][r.threadId]
    /\ \A x \in Views : ScalarFits(x, r)

ReleaseExact(c) ==
    \E u \in Threads :
        /\ \A x \in Views : Follows(x, CellView[c], u)
        /\ ~shadow[c].write.propagated => u = shadow[c].write.threadId /\ carried[c][u] = shadow[c].write.n

Exact == \A c \in Cells : /\ \A r \in Scalars(shadow[c]) : ScalarExact(r)
                          /\ c \in ReleasedCells => ReleaseExact(c)

\* The clocks of the cells: a published one has a token its thread handed out.
Tokens ==
    \A c \in Cells : LET write == shadow[c].write IN
        /\ \A i \in ReadSlots : ~shadow[c].reads[i].isRelease /\ ~shadow[c].reads[i].propagated
        /\ write.propagated => write.isRelease
        /\ write.isRelease => write.epoch # 0 /\ write.epoch =< buffer[write.threadId].head

\* A thread in a kernel has begun an epoch that nobody else has seen, and at the
\* end of an atomic it has made an access that nobody else has.
InKernel(u) == \E w \in Workers : SmOf[w] = u /\ worker[w].pc \in PastEntry
AtWrite(u) == \E w \in Workers : SmOf[w] = u /\ worker[w].pc \in {"end", "fill", "moveHead", "commit"}

NewEpochs ==
    \A u \in Threads : InKernel(u) =>
        /\ \A t \in Threads \ {u} : vectorClock[t][u] < vectorClock[u][u]
        /\ \A c \in ReleasedCells : Slot(shadow[c].write)[u] < vectorClock[u][u]

NewCounts ==
    \A u \in Threads : AtWrite(u) =>
        /\ \A t \in Threads \ {u} : known[t][u] < known[u][u]
        /\ \A c \in Cells : carried[c][u] < known[u][u]

\* The head of a ring moves forward only: initThread stores the one it loaded.
HeadFits(w) ==
    LET head == buffer[SmOf[w]].head IN
    /\ worker[w].pc \notin {"entry", "lazyInit", "exited"} => SmOf[w] \in ready
    /\ worker[w].pc = "lazyInit" => SmOf[w] \notin ready
    /\ worker[w].pc = "storeWord" => worker[w].word.head = head
    /\ worker[w].pc = "moveHead" => worker[w].token = head + 1

HInv ==
    /\ IInv
    /\ \A t \in Threads \ ready : buffer[t].head = 0
    /\ \A w \in Workers : HeadFits(w)

\* A worker holds the locks of its cells, and its registers agree with its SM's
\* state, which no other worker changes.
Publishes(op) == HasRelease(op.sem) \/ shadow[op.cells[1]].write.isRelease

WorkerFits(w) ==
    LET t == SmOf[w]
        x == worker[w]
        b == buffer[t] IN
    /\ \A c \in Cells : Holds(x, c) => cellLock[c] = w
    /\ x.pc = "storeEpoch" => x.epoch = vectorClock[t][t]
    /\ x.pc \in {"idle"} \cup InAccess => b.dirty \/ x.pc = "commit"
    /\ x.pc \in {"fill", "moveHead"} => Publishes(x.op)
    /\ x.pc \in {"fill", "moveHead", "commit"} /\ Publishes(x.op)
          => x.snapshot = IF HasRelease(x.op.sem) THEN vectorClock[t]
                          ELSE Slot(shadow[x.op.cells[1]].write)
    /\ x.pc = "moveHead" => b.slots[x.token % ClockBufferSize] = x.snapshot
    /\ x.pc = "commit" /\ ~HasRelease(x.op.sem) => b.dirty
    /\ x.pc = "commit" /\ Publishes(x.op)
          => x.token = b.head /\ x.token # 0 /\ b.slots[x.token % ClockBufferSize] = x.snapshot

CInv ==
    /\ HInv
    /\ \A w \in Workers : WorkerFits(w)
    /\ ClocksBounded /\ Tokens /\ NewEpochs /\ NewCounts /\ Exact

-----------------------------------------------------------------------------
(* Views                                                                   *)

\* x is the elementwise maximum of the views A.
IsJoin(x, A) ==
    \A v \in Threads : /\ \E y \in A : x.epochs[v] = y.epochs[v]
                       /\ \E y \in A : x.counts[v] = y.counts[v]
                       /\ \A y \in A : y.epochs[v] =< x.epochs[v] /\ y.counts[v] =< x.counts[v]

\* x is y but for an advance of thread t.
Advances(x, y, t) ==
    /\ x.epochs[t] >= y.epochs[t] /\ x.counts[t] >= y.counts[t]
    /\ \A v \in Threads \ {t} : x.epochs[v] = y.epochs[v] /\ x.counts[v] = y.counts[v]

Bounded(q) == \A v \in Threads : q.epochs[v] =< vectorClock[v][v] /\ q.counts[v] =< known[v][v]

\* What holds of every view holds of x.
Sound(x) ==
    /\ x \in ViewType
    /\ \A r \in ScalarClockType : ScalarExact(r) => ScalarFits(x, r)
    /\ \A q \in ViewType, u \in Threads :
          Bounded(q) /\ (\A y \in Views : Follows(y, q, u)) => Follows(x, q, u)

LEMMA ViewsTyped ==
    ASSUME IInv
    PROVE  /\ \A t \in Threads : /\ ThreadView[t] \in ViewType /\ ThreadView[t] \in Views
                                 /\ ThreadView[t].epochs = vectorClock[t] /\ ThreadView[t].counts = known[t]
           /\ \A c \in Cells : /\ CellView[c] \in ViewType /\ (c \in ReleasedCells => CellView[c] \in Views)
                               /\ CellView[c].epochs = Slot(shadow[c].write)
                               /\ CellView[c].counts = carried[c]
                               /\ shadow[c].write \in ScalarClockType
           /\ Views \subseteq ViewType
           /\ \A t, u \in Threads : vectorClock[t][u] \in Nat /\ known[t][u] \in Nat
  <1>1. Typed
    BY DEF IInv
  <1>2. \A f \in ClockType : f \in Counts
    BY ConstantsAssumption DEF ClockType, Counts
  <1>3. \A t \in Threads : vectorClock[t] \in Counts /\ known[t] \in Counts
    BY <1>1, <1>2 DEF Typed
  <1>4. \A t \in Threads : /\ ThreadView[t] \in ViewType /\ ThreadView[t] \in Views
                           /\ ThreadView[t].epochs = vectorClock[t] /\ ThreadView[t].counts = known[t]
    BY <1>3 DEF ThreadView, ViewType, Views
  <1>5. \A c \in Cells : shadow[c].write \in ScalarClockType /\ carried[c] \in Counts
    BY <1>1 DEF Typed, CellType
  <1>6. \A c \in Cells : Slot(shadow[c].write) \in Counts
    BY <1>1, <1>2, <1>5, SlotTyped
  <1>7. \A c \in Cells : /\ CellView[c] \in ViewType /\ (c \in ReleasedCells => CellView[c] \in Views)
                         /\ CellView[c].epochs = Slot(shadow[c].write)
                         /\ CellView[c].counts = carried[c]
    BY <1>5, <1>6 DEF CellView, ViewType, Views
  <1>8. Views \subseteq ViewType
    BY <1>4, <1>7 DEF Views, ReleasedCells
  <1>9. \A t, u \in Threads : vectorClock[t][u] \in Nat /\ known[t][u] \in Nat
    BY <1>3 DEF Counts
  <1> QED
    BY <1>4, <1>5, <1>7, <1>8, <1>9

LEMMA OldIsSound ==
    ASSUME IInv, NEW x \in Views PROVE Sound(x)
  BY ViewsTyped DEF Sound, ScalarExact

\* Thread t covers u's epoch as soon as one of those it joined did.
LEMMA JoinIsSound ==
    ASSUME IInv, NEW x \in ViewType, NEW A \in SUBSET Views, IsJoin(x, A)
    PROVE  Sound(x)
  <1>1. A \subseteq ViewType
    BY ViewsTyped
  <1>2. ASSUME NEW r \in ScalarClockType, \A y \in Views : ScalarFits(y, r)
        PROVE  ScalarFits(x, r)
    <2> DEFINE u == r.threadId
    <2>1. u \in Threads /\ r.epoch \in Nat /\ r.n \in Nat
      BY ConstantsAssumption DEF ScalarClockType
    <2>2. /\ x.epochs[u] \in Nat /\ x.counts[u] \in Nat
          /\ \A y \in A : y.epochs[u] \in Nat /\ y.counts[u] \in Nat
      BY <1>1, <2>1 DEF ViewType, Counts
    <2>3. PICK y \in A : x.epochs[u] = y.epochs[u]
      BY <2>1 DEF IsJoin
    <2>4. PICK z \in A : x.counts[u] = z.counts[u]
      BY <2>1 DEF IsJoin
    <2>5. y.counts[u] =< x.counts[u] /\ z.epochs[u] =< x.epochs[u]
      BY <2>1 DEF IsJoin
    <2>6. (y.epochs[u] >= r.epoch <=> y.counts[u] >= r.n) /\ (z.epochs[u] >= r.epoch <=> z.counts[u] >= r.n)
      BY <1>2 DEF ScalarFits
    <2>7. x.epochs[u] >= r.epoch <=> x.counts[u] >= r.n
      <3> HIDE DEF u
      <3>1. y.epochs[u] \in Nat /\ y.counts[u] \in Nat /\ z.epochs[u] \in Nat /\ z.counts[u] \in Nat
        BY <2>2
      <3> QED
        BY <2>1, <2>2, <2>3, <2>4, <2>5, <2>6, <3>1
    <2> QED
      BY <2>7 DEF ScalarFits
  <1>3. ASSUME NEW q \in ViewType, NEW u \in Threads, \A y \in Views : Follows(y, q, u)
        PROVE  Follows(x, q, u)
    <2> SUFFICES ASSUME x.epochs[u] >= q.epochs[u] \/ x.counts[u] >= q.counts[u] PROVE Above(x, q)
      BY DEF Follows
    <2>1. PICK y \in A : y.epochs[u] >= q.epochs[u] \/ y.counts[u] >= q.counts[u]
      BY DEF IsJoin
    <2>2. Above(y, q)
      BY <1>3, <2>1 DEF Follows
    <2>3. ASSUME NEW v \in Threads
          PROVE  x.epochs[v] >= q.epochs[v] /\ x.counts[v] >= q.counts[v]
      <3>1. /\ x.epochs[v] \in Nat /\ x.counts[v] \in Nat /\ q.epochs[v] \in Nat /\ q.counts[v] \in Nat
            /\ y.epochs[v] \in Nat /\ y.counts[v] \in Nat
        BY <1>1 DEF ViewType, Counts
      <3>2. y.epochs[v] =< x.epochs[v] /\ y.counts[v] =< x.counts[v]
        BY DEF IsJoin
      <3>3. y.epochs[v] >= q.epochs[v] /\ y.counts[v] >= q.counts[v]
        BY <2>2 DEF Above
      <3> QED
        BY <3>1, <3>2, <3>3
    <2> QED
      BY <2>3 DEF Above
  <1> QED
    BY <1>2, <1>3 DEF Sound, ScalarExact

\* A thread's advance concerns what is recorded of the thread itself, all of
\* which it covers already.
LEMMA AdvanceIsSound ==
    ASSUME IInv, NEW t \in Threads, NEW y, Sound(y), NEW x \in ViewType, Advances(x, y, t),
           y.epochs[t] >= vectorClock[t][t], y.counts[t] >= known[t][t]
    PROVE  Sound(x)
  <1>1. y \in ViewType
    BY DEF Sound
  <1>2. \A v \in Threads : /\ x.epochs[v] \in Nat /\ x.counts[v] \in Nat
                           /\ y.epochs[v] \in Nat /\ y.counts[v] \in Nat
                           /\ vectorClock[v][v] \in Nat /\ known[v][v] \in Nat
    BY <1>1, ViewsTyped DEF ViewType, Counts
  <1>3. ASSUME NEW r \in ScalarClockType, ScalarExact(r)
        PROVE  ScalarFits(x, r)
    <2>1. r.threadId \in Threads /\ r.epoch \in Nat /\ r.n \in Nat
      BY ConstantsAssumption DEF ScalarClockType
    <2>2. ScalarFits(y, r)
      BY <1>3 DEF Sound
    <2>3. CASE r.threadId # t
      BY <2>1, <2>2, <2>3 DEF ScalarFits, Advances
    <2>4. CASE r.threadId = t
      <3>1. r.epoch =< vectorClock[t][t] /\ r.n =< known[t][t]
        BY <1>3, <2>4 DEF ScalarExact
      <3>2. x.epochs[t] >= r.epoch /\ x.counts[t] >= r.n
        BY <1>2, <2>1, <3>1 DEF Advances
      <3> QED
        BY <2>4, <3>2 DEF ScalarFits
    <2> QED
      BY <2>3, <2>4
  <1>4. ASSUME NEW q \in ViewType, NEW u \in Threads, Bounded(q), \A z \in Views : Follows(z, q, u)
        PROVE  Follows(x, q, u)
    <2> SUFFICES ASSUME x.epochs[u] >= q.epochs[u] \/ x.counts[u] >= q.counts[u] PROVE Above(x, q)
      BY DEF Follows
    <2>1. \A v \in Threads : q.epochs[v] \in Nat /\ q.counts[v] \in Nat
      BY DEF ViewType, Counts
    <2>2. Follows(y, q, u)
      BY <1>4 DEF Sound
    <2>3. y.epochs[u] >= q.epochs[u] \/ y.counts[u] >= q.counts[u]
      <3>1. CASE u # t
        BY <3>1 DEF Advances
      <3>2. CASE u = t
        <4>1. q.epochs[t] =< vectorClock[t][t]
          BY <1>4 DEF Bounded
        <4> QED
          BY <1>2, <2>1, <3>2, <4>1
      <3> QED
        BY <3>1, <3>2
    <2>4. Above(y, q)
      BY <2>2, <2>3 DEF Follows
    <2>5. \A v \in Threads : x.epochs[v] >= q.epochs[v] /\ x.counts[v] >= q.counts[v]
      BY <1>2, <2>1, <2>4 DEF Above, Advances
    <2> QED
      BY <2>5 DEF Above
  <1> QED
    BY <1>3, <1>4 DEF Sound

LEMMA CellsBounded ==
    ASSUME IInv, ClocksBounded, NEW c \in Cells
    PROVE  Bounded(CellView[c]) /\ \A u \in Threads : Slot(shadow[c].write)[u] =< vectorClock[u][u]
  <1>1. shadow[c].write \in ScalarClockType
    BY ViewsTyped
  <1> DEFINE t == shadow[c].write.threadId
             i == shadow[c].write.epoch % ClockBufferSize
  <1>2. t \in Threads /\ shadow[c].write.epoch \in Nat
    BY <1>1, ConstantsAssumption DEF ScalarClockType
  <1>3. buffer[t] \in BufferType
    BY <1>2 DEF IInv, Typed
  <1>4. i \in 0 .. ClockBufferSize - 1
    BY <1>2, ConstantsAssumption
  <1>5. i \in DOMAIN buffer[t].slots
    BY <1>3, <1>4 DEF BufferType
  <1>6. \A u \in Threads : Slot(shadow[c].write)[u] =< vectorClock[u][u]
    BY <1>2, <1>5 DEF ClocksBounded, Slot
  <1>7. \A u \in Threads : carried[c][u] =< known[u][u]
    BY DEF IInv, CountsBounded
  <1> QED
    BY <1>6, <1>7, ViewsTyped DEF Bounded

\* A step keeps the detector exact if each view is sound, and each clock it
\* records is exact.
LEMMA ExactStep ==
    ASSUME IInv, IInv', ClocksBounded, Exact,
           \A x \in Views' : Sound(x),
           \A u \in Threads : vectorClock[u][u] =< vectorClock'[u][u] /\ known[u][u] =< known'[u][u],
           \A c \in Cells : \A r \in Scalars(shadow'[c]) : r \in Scalars(shadow[c]) \/ ScalarExact(r)',
           \A c \in ReleasedCells' :
              \/ ReleaseExact(c)'
              \/ /\ c \in ReleasedCells /\ CellView'[c] = CellView[c]
                 /\ shadow'[c].write = shadow[c].write /\ carried'[c] = carried[c]
    PROVE  Exact'
  <1>1. /\ \A t, u \in Threads : vectorClock[t][u] \in Nat /\ known[t][u] \in Nat
        /\ \A c \in Cells : CellView[c] \in ViewType
        /\ \A c \in Cells : shadow[c] \in CellType
    BY ViewsTyped DEF IInv, Typed
  <1>2. \A t, u \in Threads : vectorClock'[t][u] \in Nat /\ known'[t][u] \in Nat
    BY DEF IInv, Typed, Counts, ClockType
  <1>3. ASSUME NEW c \in Cells, NEW r \in Scalars(shadow[c])
        PROVE  ScalarExact(r)'
    <2>1. r \in ScalarClockType
      BY <1>1 DEF Scalars, CellType
    <2>2. ScalarExact(r)
      BY DEF Exact
    <2>3. r.threadId \in Threads /\ r.epoch \in Nat /\ r.n \in Nat
      BY <2>1, ConstantsAssumption DEF ScalarClockType
    <2>4. r.epoch =< vectorClock'[r.threadId][r.threadId] /\ r.n =< known'[r.threadId][r.threadId]
      BY <1>1, <1>2, <2>2, <2>3 DEF ScalarExact
    <2>5. \A x \in Views' : ScalarFits(x, r)
      BY <2>1, <2>2 DEF Sound
    <2> QED
      BY <2>4, <2>5 DEF ScalarExact, ScalarFits
  <1>4. ASSUME NEW c \in ReleasedCells, CellView'[c] = CellView[c], shadow'[c].write = shadow[c].write,
               carried'[c] = carried[c]
        PROVE  ReleaseExact(c)'
    <2>1. c \in Cells /\ Bounded(CellView[c]) /\ CellView[c] \in ViewType
      BY <1>1, CellsBounded DEF ReleasedCells
    <2>2. PICK u \in Threads :
            /\ \A x \in Views : Follows(x, CellView[c], u)
            /\ ~shadow[c].write.propagated => u = shadow[c].write.threadId /\ carried[c][u] = shadow[c].write.n
      BY <2>1 DEF Exact, ReleaseExact
    <2> DEFINE q == CellView[c]
    <2>3. q \in ViewType /\ Bounded(q) /\ \A x \in Views : Follows(x, q, u)
      BY <2>1, <2>2
    <2>4. \A x \in Views' : Follows(x, q, u)
      <3> HIDE DEF q
      <3> QED
        BY <2>3 DEF Sound
    <2>5. \A x \in Views' : Follows(x, CellView'[c], u)
      BY <1>4, <2>4
    <2> QED
      BY <1>4, <2>2, <2>5 DEF ReleaseExact, Follows, Above
  <1> QED
    BY <1>3, <1>4 DEF Exact

\* An exact detector's tests say what happens-before says.
LEMMA TestsAreExact ==
    ASSUME IInv, Tokens, Exact PROVE ClocksExact
  <1> SUFFICES ASSUME NEW t \in Threads, NEW c \in Cells, NEW clock \in RecordedClocks(c)
               PROVE  HappensBefore(t, clock) <=> Ordered(t, c, clock)
    BY DEF ClocksExact
  <1>1. clock.epoch # 0 /\ (clock = shadow[c].write \/ \E i \in ReadSlots : clock = shadow[c].reads[i])
    BY DEF RecordedClocks
  <1>2. ThreadView[t] \in Views /\ ThreadView[t].epochs = vectorClock[t] /\ ThreadView[t].counts = known[t]
    BY ViewsTyped
  <1>3. CASE ~clock.isRelease
    <2>1. clock \in Scalars(shadow[c])
      BY <1>1, <1>3 DEF Scalars
    <2>2. ScalarFits(ThreadView[t], clock)
      BY <1>2, <2>1 DEF Exact, ScalarExact
    <2>3. ~clock.propagated
      BY <1>1, <1>3 DEF Tokens
    <2> QED
      BY <1>1, <1>2, <1>3, <2>2, <2>3 DEF ScalarFits, HappensBefore, Ordered
  <1>4. CASE clock.isRelease
    <2>1. clock = shadow[c].write /\ c \in ReleasedCells
      BY <1>1, <1>4 DEF Tokens, ReleasedCells
    <2>2. PICK u \in Threads :
            /\ \A x \in Views : Follows(x, CellView[c], u)
            /\ ~clock.propagated => u = clock.threadId /\ carried[c][u] = clock.n
      BY <2>1 DEF Exact, ReleaseExact
    <2>3. CellView[c].epochs = Slot(clock) /\ CellView[c].counts = carried[c]
      BY <2>1, ViewsTyped
    <2>4. vectorClock[t][u] >= Slot(clock)[u] \/ known[t][u] >= carried[c][u]
            => Dominates(vectorClock[t], Slot(clock)) /\ Dominates(known[t], carried[c])
      BY <1>2, <2>2, <2>3 DEF Follows, Above, Dominates
    <2>5. HappensBefore(t, clock) <=> Dominates(vectorClock[t], Slot(clock))
      BY <1>1, <1>4 DEF HappensBefore
    <2>6. Ordered(t, c, clock) <=> IF clock.propagated THEN Dominates(known[t], carried[c])
                                  ELSE known[t][u] >= carried[c][u]
      BY <2>2 DEF Ordered
    <2> QED
      BY <2>4, <2>5, <2>6 DEF Dominates
  <1> QED
    BY <1>3, <1>4

-----------------------------------------------------------------------------
(* The heads of the rings                                                  *)

\* A step of w moves the head of its own ring only.
LEMMA HeadsStep ==
    ASSUME HInv, IInv', OnePerSm, NEW w \in Workers,
           \A v \in Workers \ {w} : worker'[v] = worker[v],
           \A t \in Threads \ {SmOf[w]} : buffer'[t].head = buffer[t].head,
           ready \subseteq ready', ready' \subseteq ready \cup {SmOf[w]},
           SmOf[w] \notin ready' => buffer'[SmOf[w]].head = 0,
           HeadFits(w)'
    PROVE  HInv'
  <1>1. \A v \in Workers \ {w} : SmOf[v] \in Threads \ {SmOf[w]}
    BY ConstantsAssumption DEF OnePerSm
  <1>2. \A v \in Workers \ {w} : HeadFits(v)'
    BY <1>1 DEF HInv, HeadFits
  <1>3. \A t \in Threads \ ready' : buffer'[t].head = 0
    BY DEF HInv
  <1> QED
    BY <1>2, <1>3 DEF HInv

\* A step that moves no head and stores none.
LEMMA SameHeads ==
    ASSUME HInv, IInv', OnePerSm, NEW w \in Workers,
           \A v \in Workers \ {w} : worker'[v] = worker[v],
           \A t \in Threads : buffer'[t].head = buffer[t].head,
           ready' = ready,
           worker'[w].pc \notin {"lazyInit", "storeWord", "moveHead"},
           SmOf[w] \notin ready => worker'[w].pc \in {"entry", "lazyInit", "exited"}
    PROVE  HInv'
  <1>1. SmOf[w] \in Threads
    BY ConstantsAssumption
  <1>2. HeadFits(w)'
    BY DEF HeadFits
  <1>3. SmOf[w] \notin ready' => buffer'[SmOf[w]].head = 0
    BY <1>1 DEF HInv
  <1> QED
    BY <1>2, <1>3, HeadsStep

\* No step of a worker takes a head back.
LEMMA StepHeads ==
    ASSUME HInv, IInv', OnePerSm, NEW w \in Workers, Step(w)
    PROVE  HInv' /\ \A t \in Threads : buffer[t].head =< buffer'[t].head
  <1> DEFINE t == SmOf[w]
             Same == UNCHANGED <<worker, buffer, ready>>
             Own == /\ \A v \in Workers \ {w} : worker'[v] = worker[v]
                    /\ \A u \in Threads : buffer'[u].head = buffer[u].head
                    /\ ready' = ready
                    /\ worker'[w].pc \notin {"lazyInit", "storeWord", "moveHead"}
                    /\ worker[w].pc \notin {"entry", "lazyInit", "exited"}
  <1>1. /\ t \in Threads /\ worker \in [Workers -> RegisterType] /\ buffer \in [Threads -> BufferType]
        /\ buffer' \in [Threads -> BufferType] /\ worker' \in [Workers -> RegisterType]
    BY ConstantsAssumption DEF HInv, IInv, Typed
  <1>2. \A u \in Threads : buffer[u].head \in Nat /\ buffer'[u].head \in Nat
    BY <1>1, ConstantsAssumption DEF BufferType
  <1> HIDE DEF t
  <1>3. CASE Same
    BY <1>2, <1>3 DEF HInv, HeadFits
  <1>4. CASE Own
    <2>1. SmOf[w] \in ready
      BY <1>4 DEF HInv, HeadFits
    <2> QED
      BY <1>2, <1>4, <2>1, SameHeads
  <1>5. CASE Enter(w)
    <2>1. UNCHANGED <<buffer, ready>>
      BY <1>5 DEF Enter, threadVars
    <2>2. worker'[w].pc = IF t \in ready THEN "init" ELSE "lazyInit"
      BY <1>1, <1>5 DEF Enter, Goto, t
    <2>3. \A v \in Workers \ {w} : worker'[v] = worker[v]
      BY <1>1, <1>5 DEF Enter, Goto
    <2>4. HeadFits(w)'
      BY <1>5, <2>1, <2>2 DEF HeadFits, t, Enter, Running
    <2>5. t \notin ready' => buffer'[t].head = 0
      BY <1>1, <2>1 DEF HInv
    <2> QED
      BY <1>2, <2>1, <2>3, <2>4, <2>5, HeadsStep DEF t
  <1>6. CASE LazyInit(w)
    <2>1. ready' = ready \cup {t} /\ t \notin ready
      BY <1>6 DEF LazyInit, Running, HInv, HeadFits, t
    <2>2. \A u \in Threads \ {t} : buffer'[u] = buffer[u]
      BY <1>1, <1>6 DEF LazyInit, t
    <2>3. buffer'[t].head = 0 /\ buffer[t].head = 0
      BY <1>1, <1>6, <2>1 DEF LazyInit, t, BufferType, HInv
    <2>4. worker'[w].pc = "init" /\ \A v \in Workers \ {w} : worker'[v] = worker[v]
      BY <1>1, <1>6 DEF LazyInit, Goto
    <2>5. HeadFits(w)'
      BY <2>1, <2>4 DEF HeadFits, t
    <2> QED
      BY <1>2, <2>1, <2>2, <2>3, <2>4, <2>5, HeadsStep DEF t
  <1>7. CASE LoadEpoch(w)
    <2>1. CASE vectorClock[t][t] = MaxEpoch
      BY <1>3, <1>7, <2>1 DEF LoadEpoch, Stop, threadVars, t
    <2>2. CASE vectorClock[t][t] # MaxEpoch
      <3> DEFINE x == [worker[w] EXCEPT !.pc = "storeEpoch", !.epoch = vectorClock[t][t]]
      <3>1. worker' = [worker EXCEPT ![w] = x] /\ UNCHANGED <<buffer, ready>> /\ worker[w].pc = "init"
        BY <1>7, <2>2 DEF LoadEpoch, Running, threadVars, t
      <3>2. x.pc = "storeEpoch"
        BY <1>1 DEF RegisterType
      <3> HIDE DEF x
      <3>3. Own
        BY <1>1, <3>1, <3>2
      <3> QED
        BY <1>4, <3>3
    <2> QED
      BY <2>1, <2>2
  <1>8. CASE StoreEpoch(w)
    <2>1. Own
      BY <1>1, <1>8 DEF StoreEpoch, Running, Goto
    <2> QED
      BY <1>4, <2>1
  <1>9. CASE LoadWord(w)
    <2>1. UNCHANGED <<buffer, ready>>
      BY <1>9 DEF LoadWord, threadVars
    <2>2. worker'[w].pc = "storeWord" /\ worker'[w].word.head = buffer[t].head
      BY <1>1, <1>9 DEF LoadWord, t
    <2>3. \A v \in Workers \ {w} : worker'[v] = worker[v]
      BY <1>1, <1>9 DEF LoadWord
    <2>4. HeadFits(w)'
      BY <1>9, <2>1, <2>2 DEF HeadFits, HInv, LoadWord, Running, t
    <2>5. t \notin ready' => buffer'[t].head = 0
      BY <1>1, <2>1 DEF HInv
    <2> QED
      BY <1>2, <2>1, <2>3, <2>4, <2>5, HeadsStep DEF t
  <1>10. CASE StoreWord(w)
    <2>1. worker[w].word.head = buffer[t].head
      BY <1>10 DEF StoreWord, Running, HInv, HeadFits, t
    <2>2. \A u \in Threads : buffer'[u].head = buffer[u].head
      BY <1>1, <1>10, <2>1 DEF StoreWord, BufferType, t
    <2>3. Own
      BY <1>1, <1>10, <2>2 DEF StoreWord, Running, Goto
    <2> QED
      BY <1>4, <2>3
  <1>11. CASE AcquireRead(w) \/ AcquireWrite(w) \/ ReleaseRead(w) \/ EndFailedCas(w) \/ ReleaseAtomicShadowRange(w)
    <2>1. Own
      <3>1. UNCHANGED <<buffer, ready>> /\ worker[w].pc \in {"lockRead", "lockWrite", "range", "end", "release"}
        BY <1>11 DEF AcquireRead, AcquireWrite, ReleaseRead, EndFailedCas, ReleaseAtomicShadowRange, Running, threadVars
      <3>2. \E label \in {"range", "idle", "release"} : Goto(w, label)
        BY <1>11 DEF AcquireRead, AcquireWrite, ReleaseRead, EndFailedCas, ReleaseAtomicShadowRange
      <3> QED
        BY <1>1, <3>1, <3>2 DEF Goto
    <2> QED
      BY <1>4, <2>1
  <1>12. CASE AcquireShadow(w)
    <2> DEFINE atomic == Op(w).kind \in {"rmw", "cas"}
               last == worker[w].idx = Len(Op(w).cells)
               label == IF ~atomic THEN "access" ELSE IF last THEN "begin" ELSE "range"
               idx == IF atomic THEN worker[w].idx + 1 ELSE worker[w].idx
               x == [worker[w] EXCEPT !.pc = label, !.idx = idx]
    <2>1. worker' = [worker EXCEPT ![w] = x] /\ UNCHANGED <<buffer, ready>> /\ worker[w].pc = "range"
      BY <1>12 DEF AcquireShadow, Running, threadVars
    <2>2. x.pc \in {"access", "begin", "range"}
      BY <1>1 DEF RegisterType
    <2> HIDE DEF x
    <2>3. Own
      BY <1>1, <2>1, <2>2
    <2> QED
      BY <1>4, <2>3
  <1>13. CASE DoRead(w) \/ DoWrite(w)
    <2>1. worker[w].pc = "access"
      BY <1>13 DEF DoRead, DoWrite, Running
    <2>2. CASE ReleaseShadow(w) /\ UNCHANGED <<lock, program, buffer, ready>>
      <3>1. PICK x \in RegisterType : worker' = [worker EXCEPT ![w] = x] /\ x.pc = "range"
        BY <2>1, <2>2, ReleaseShadowStep DEF HInv
      <3>2. Own
        BY <1>1, <2>1, <2>2, <3>1
      <3> QED
        BY <1>4, <3>2
    <2>3. CASE ~ (ReleaseShadow(w) /\ UNCHANGED <<lock, program, buffer, ready>>)
      BY <1>3, <1>13, <2>3 DEF DoRead, DoWrite, StopAtFirst, Stop, threadVars, runVars
    <2> QED
      BY <2>2, <2>3
  <1>14. CASE BeginAtomic(w)
    <2> DEFINE op == Op(w)
               checks == BeginChecks(t, op)
               joined == Maximum({vectorClock[t]} \cup {Slot(shadow[c].write) : c \in Synchronizing(t, op)})
               dirty == buffer[t].dirty \/ joined # vectorClock[t]
               b == [buffer[t] EXCEPT !.dirty = dirty]
    <2>1. CASE Failures(checks) # {}
      BY <1>3, <1>14, <2>1 DEF BeginAtomic, StopAtFirst, Stop, threadVars, t
    <2>2. CASE ~ (Failures(checks) # {})
      <3>1. buffer' = [buffer EXCEPT ![t] = b] /\ ready' = ready /\ Goto(w, "end") /\ worker[w].pc = "begin"
        BY <1>14, <2>2 DEF BeginAtomic, Running, t
      <3>2. b.head = buffer[t].head
        BY <1>1 DEF BufferType
      <3> HIDE DEF b
      <3>3. \A u \in Threads : buffer'[u].head = buffer[u].head
        BY <1>1, <3>1, <3>2
      <3>4. Own
        BY <1>1, <3>1, <3>3 DEF Goto
      <3> QED
        BY <1>4, <3>4
    <2> QED
      BY <2>1, <2>2
  <1>15. CASE EndAtomic(w)
    <2>1. worker[w].pc = "end" /\ UNCHANGED <<buffer, ready>>
      BY <1>15 DEF EndAtomic, Running, StopAtFirst, Stop, threadVars
    <2>2. worker' = worker \/ \E label \in {"fill", "commit"} : \E token, snapshot :
                worker' = [worker EXCEPT ![w] = [worker[w] EXCEPT !.pc = label, !.token = token, !.snapshot = snapshot]]
      <3> DEFINE op == Op(w)
                 previous == shadow[op.cells[1]].write
                 checks == EndChecks(t, op) \o
                             IF ~HasRelease(op.sem) /\ previous.isRelease
                             THEN <<[prior |-> previous, verdict |-> TokenVerdict(previous)]>>
                             ELSE <<>>
                 label == IF \/ HasRelease(op.sem) /\ buffer[t].dirty
                             \/ ~HasRelease(op.sem) /\ previous.isRelease
                          THEN "fill" ELSE "commit"
                 token == IF HasRelease(op.sem) THEN buffer[t].head ELSE 0
                 snapshot == IF HasRelease(op.sem) THEN vectorClock[t]
                             ELSE IF previous.isRelease THEN Slot(previous) ELSE worker[w].snapshot
      <3>1. CASE Failures(checks) # {}
        BY <1>15, <3>1 DEF EndAtomic, StopAtFirst, Stop, t
      <3>2. CASE ~ (Failures(checks) # {})
        <4>1. worker' = [worker EXCEPT ![w] = [worker[w] EXCEPT !.pc = label, !.token = token, !.snapshot = snapshot]]
          BY <1>15, <3>2 DEF EndAtomic, t
        <4>2. label \in {"fill", "commit"}
          OBVIOUS
        <4> HIDE DEF label, token, snapshot
        <4> QED
          BY <4>1, <4>2
      <3> QED
        BY <3>1, <3>2
    <2>3. CASE worker' = worker
      BY <1>3, <2>1, <2>3
    <2>4. ASSUME NEW label \in {"fill", "commit"}, NEW token, NEW snapshot,
                 worker' = [worker EXCEPT ![w] = [worker[w] EXCEPT !.pc = label, !.token = token, !.snapshot = snapshot]]
          PROVE  Own
      <3> DEFINE x == [worker[w] EXCEPT !.pc = label, !.token = token, !.snapshot = snapshot]
      <3>1. x.pc = label
        BY <1>1 DEF RegisterType
      <3>2. worker' = [worker EXCEPT ![w] = x]
        BY <2>4
      <3> HIDE DEF x
      <3> QED
        BY <1>1, <2>1, <3>1, <3>2
    <2> QED
      BY <1>4, <2>2, <2>3, <2>4
  <1>16. CASE FillSlot(w)
    <2> DEFINE next == buffer[t].head + 1
    <2>1. CASE next > MaxEpoch
      BY <1>3, <1>16, <2>1 DEF FillSlot, Stop, threadVars, t
    <2>2. CASE ~(next > MaxEpoch)
      <3> DEFINE slots == [buffer[t].slots EXCEPT ![next % ClockBufferSize] = worker[w].snapshot]
                 b == [buffer[t] EXCEPT !.slots = slots]
                 x == [worker[w] EXCEPT !.pc = "moveHead", !.token = next]
      <3>1. buffer' = [buffer EXCEPT ![t] = b] /\ worker' = [worker EXCEPT ![w] = x] /\ ready' = ready
            /\ worker[w].pc = "fill"
        BY <1>16, <2>2 DEF FillSlot, Running, t
      <3> HIDE DEF slots
      <3>2. b.head = buffer[t].head /\ x.pc = "moveHead" /\ x.token = next
        BY <1>1 DEF BufferType, RegisterType
      <3> HIDE DEF b, x
      <3>3. \A u \in Threads : buffer'[u].head = buffer[u].head
        BY <1>1, <3>1, <3>2
      <3>4. worker'[w] = x /\ \A v \in Workers \ {w} : worker'[v] = worker[v]
        BY <1>1, <3>1
      <3>5. t \in ready
        BY <3>1 DEF HInv, HeadFits, t
      <3>6. HeadFits(w)'
        BY <1>1, <3>1, <3>2, <3>3, <3>4, <3>5 DEF HeadFits, t
      <3> QED
        BY <1>2, <3>1, <3>3, <3>4, <3>5, <3>6, HeadsStep DEF t
    <2> QED
      BY <2>1, <2>2
  <1>17. CASE MoveHead(w)
    <2> DEFINE dirty == ~HasRelease(Op(w).sem)
               b == [buffer[t] EXCEPT !.head = worker[w].token, !.dirty = dirty]
    <2>1. worker[w].token = buffer[t].head + 1 /\ t \in ready /\ worker[w].pc = "moveHead"
      BY <1>17 DEF MoveHead, Running, HInv, HeadFits, t
    <2>2. buffer' = [buffer EXCEPT ![t] = b] /\ ready' = ready
      BY <1>17 DEF MoveHead, t
    <2>3. b.head = buffer[t].head + 1
      BY <1>1, <2>1 DEF BufferType
    <2> HIDE DEF b
    <2>4. buffer'[t].head = buffer[t].head + 1 /\ \A u \in Threads \ {t} : buffer'[u] = buffer[u]
      BY <1>1, <2>2, <2>3
    <2>5. worker'[w].pc = "commit" /\ \A v \in Workers \ {w} : worker'[v] = worker[v]
      BY <1>1, <1>17 DEF MoveHead, Goto
    <2>6. HeadFits(w)'
      BY <2>1, <2>2, <2>5 DEF HeadFits, t
    <2>7. HInv'
      BY <2>1, <2>2, <2>4, <2>5, <2>6, HeadsStep DEF t
    <2>8. \A u \in Threads : buffer[u].head =< buffer'[u].head
      BY <1>1, <1>2, <2>4
    <2> QED
      BY <2>7, <2>8
  <1>18. CASE CommitWrite(w)
    <2> DEFINE op == Op(w)
               dirty == buffer[t].dirty \/ HasRelease(op.sem)
               b == [buffer[t] EXCEPT !.dirty = dirty]
    <2>1. CASE HasRelease(op.sem) /\ vectorClock[t][t] = MaxEpoch
      BY <1>3, <1>18, <2>1 DEF CommitWrite, Stop, threadVars, t
    <2>2. CASE ~ (HasRelease(op.sem) /\ vectorClock[t][t] = MaxEpoch)
      <3>1. buffer' = [buffer EXCEPT ![t] = b] /\ ready' = ready /\ Goto(w, "release") /\ worker[w].pc = "commit"
        BY <1>18, <2>2 DEF CommitWrite, Running, t
      <3>2. b.head = buffer[t].head
        BY <1>1 DEF BufferType
      <3> HIDE DEF b
      <3>3. \A u \in Threads : buffer'[u].head = buffer[u].head
        BY <1>1, <3>1, <3>2
      <3>4. Own
        BY <1>1, <3>1, <3>3 DEF Goto
      <3> QED
        BY <1>4, <3>4
    <2> QED
      BY <2>1, <2>2
  <1> QED
    BY <1>5, <1>6, <1>7, <1>8, <1>9, <1>10, <1>11, <1>12, <1>13, <1>14, <1>15, <1>16, <1>17, <1>18 DEF Step

LEMMA NextHeads ==
    ASSUME HInv, OnePerSm, [Next]_vars
    PROVE  HInv' /\ \A t \in Threads : buffer[t].head =< buffer'[t].head
  <1>1. IInv'
    BY NextIInv DEF HInv
  <1>2. /\ worker \in [Workers -> RegisterType]
        /\ \A u \in Threads : buffer[u].head \in Nat
    <2>1. worker \in [Workers -> RegisterType] /\ buffer \in [Threads -> BufferType]
      BY DEF HInv, IInv, Typed
    <2> QED
      BY <2>1, ConstantsAssumption DEF BufferType
  <1>3. CASE UNCHANGED vars
    <2>1. UNCHANGED <<worker, buffer, ready>>
      BY <1>3 DEF vars, threadVars
    <2> QED
      BY <1>1, <1>2, <2>1 DEF HInv, HeadFits
  <1>4. ASSUME NEW w \in Workers, Step(w)
        PROVE  HInv' /\ \A t \in Threads : buffer[t].head =< buffer'[t].head
    BY <1>1, <1>4, StepHeads
  <1>5. ASSUME NEW w \in Workers, worker[w].pc = "idle", UNCHANGED <<buffer, ready>>,
               \A v \in Workers \ {w} : worker'[v] = worker[v],
               worker'[w].pc \in {"exited", "lockRead", "lockWrite"}
        PROVE  HInv' /\ \A t \in Threads : buffer[t].head =< buffer'[t].head
    <2>1. SmOf[w] \in ready
      BY <1>5 DEF HInv, HeadFits
    <2> QED
      BY <1>1, <1>2, <1>5, <2>1, SameHeads
  <1>6. ASSUME NEW w \in Workers, Exit(w)
        PROVE  HInv' /\ \A t \in Threads : buffer[t].head =< buffer'[t].head
    <2>1. /\ worker[w].pc = "idle" /\ UNCHANGED <<buffer, ready>>
          /\ \A v \in Workers \ {w} : worker'[v] = worker[v]
          /\ worker'[w].pc = "exited"
      BY <1>2, <1>6 DEF Exit, Running, Goto, threadVars
    <2> QED
      BY <1>5, <2>1
  <1>7. ASSUME NEW w \in Workers, NEW op, Issue(w, op)
        PROVE  HInv' /\ \A t \in Threads : buffer[t].head =< buffer'[t].head
    <2> DEFINE label == IF op.kind \in {"load", "store"} THEN "lockRead" ELSE "lockWrite"
               done == worker[w].done + 1
               x == [worker[w] EXCEPT !.pc = label, !.op = op, !.idx = 1, !.done = done]
    <2>1. worker[w].pc = "idle" /\ UNCHANGED <<buffer, ready>> /\ worker' = [worker EXCEPT ![w] = x]
      BY <1>7 DEF Issue, Running, threadVars
    <2>2. x.pc \in {"lockRead", "lockWrite"}
      BY <1>2 DEF RegisterType
    <2> HIDE DEF x
    <2>3. \A v \in Workers \ {w} : worker'[v] = worker[v]
      BY <1>2, <2>1
    <2>4. worker'[w].pc \in {"exited", "lockRead", "lockWrite"}
      BY <1>2, <2>1, <2>2
    <2> QED
      BY <1>5, <2>1, <2>3, <2>4
  <1>8. ASSUME NEW d \in Devices, SynchronizeLaunchStream(d)
        PROVE  HInv' /\ \A t \in Threads : buffer[t].head =< buffer'[t].head
    <2>1. /\ UNCHANGED <<buffer, ready>>
          /\ \A v \in Workers : worker'[v] = worker[v] \/ worker'[v] = AtEntry
      BY <1>8 DEF SynchronizeLaunchStream
    <2>2. AtEntry.pc = "entry"
      BY EntryRegisters
    <2>3. \A v \in Workers : HeadFits(v)'
      BY <2>1, <2>2 DEF HInv, HeadFits
    <2> QED
      BY <1>1, <1>2, <2>1, <2>3 DEF HInv
  <1> QED
    BY <1>3, <1>4, <1>6, <1>7, <1>8 DEF Next, Spin, Stutter

-----------------------------------------------------------------------------
(* Steps                                                                   *)

WritePCs == {"end", "fill", "moveHead", "commit"}

\* A step of w leaves the registers, the SMs and the cells of the others alone.
LEMMA OthersFit ==
    ASSUME CInv, OnePerSm, NEW w \in Workers,
           \A v \in Workers \ {w} : worker'[v] = worker[v],
           \A t \in Threads \ {SmOf[w]} : buffer'[t] = buffer[t] /\ vectorClock'[t] = vectorClock[t],
           \A c \in Cells : cellLock'[c] = cellLock[c] \/ cellLock[c] \in {NoWorker, w},
           \A c \in Cells : cellLock[c] # w => shadow'[c].write = shadow[c].write,
           \A c \in ReleasedCells : cellLock[c] # w => Slot(shadow[c].write)' = Slot(shadow[c].write)
    PROVE  \A v \in Workers \ {w} : WorkerFits(v)'
  <1> SUFFICES ASSUME NEW v \in Workers \ {w} PROVE WorkerFits(v)'
    OBVIOUS
  <1> DEFINE t == SmOf[v]
             x == worker[v]
             d == x.op.cells[1]
  <1>1. t \in Threads \ {SmOf[w]} /\ NoWorker \notin Workers /\ v \in Workers
    BY ConstantsAssumption DEF OnePerSm
  <1>2. buffer'[t] = buffer[t] /\ vectorClock'[t] = vectorClock[t] /\ worker'[v] = x
    BY <1>1
  <1>3. WorkerFits(v)
    BY DEF CInv
  <1>4. \A c \in Cells : Holds(x, c) => cellLock[c] = v /\ cellLock'[c] = v
    BY <1>1, <1>3 DEF WorkerFits
  <1>5. ASSUME x.pc \in WritePCs
        PROVE  /\ shadow'[d].write = shadow[d].write
               /\ shadow[d].write.isRelease => Slot(shadow[d].write)' = Slot(shadow[d].write)
    <2>1. x.op \in program.operations
      BY <1>1, <1>5 DEF CInv, HInv, IInv, RegistersFit, InAccess, InAtomic, WritePCs
    <2>2. d \in Cells /\ d \in CellsOf(x.op)
      BY <2>1, CellsOfOperation DEF CInv, HInv, IInv
    <2>3. Holds(x, d)
      BY <1>5, <2>2 DEF Holds, InAtomic, WritePCs
    <2>4. cellLock[d] # w
      BY <1>4, <2>2, <2>3
    <2> QED
      BY <2>2, <2>4 DEF ReleasedCells
  <1>6. x.pc \in {"fill", "moveHead", "commit"} => (Publishes(x.op)' <=> Publishes(x.op))
    BY <1>5 DEF Publishes, WritePCs
  <1>7. x.pc \in {"fill", "moveHead", "commit"} /\ Publishes(x.op)
           => (IF HasRelease(x.op.sem) THEN vectorClock[t] ELSE Slot(shadow[d].write))'
                = IF HasRelease(x.op.sem) THEN vectorClock[t] ELSE Slot(shadow[d].write)
    <2> SUFFICES ASSUME x.pc \in {"fill", "moveHead", "commit"}, Publishes(x.op), ~HasRelease(x.op.sem)
                 PROVE  Slot(shadow[d].write)' = Slot(shadow[d].write)
      BY <1>2
    <2> QED
      BY <1>5 DEF Publishes, WritePCs
  <1> QED
    BY <1>2, <1>3, <1>4, <1>6, <1>7 DEF WorkerFits

\* A step of w that changes no clock and no cell: it may move the head of w's
\* ring and fill slots that no cell refers to.
LEMMA QuietStep ==
    ASSUME CInv, HInv', OnePerSm, NEW w \in Workers,
           \A v \in Workers \ {w} : worker'[v] = worker[v],
           UNCHANGED <<vectorClock, known, carried, shadow>>,
           \A t \in Threads \ {SmOf[w]} : buffer'[t] = buffer[t],
           \A t \in Threads : buffer[t].head =< buffer'[t].head,
           \A i \in DOMAIN buffer'[SmOf[w]].slots : \A u \in Threads : buffer'[SmOf[w]].slots[i][u] =< vectorClock[u][u],
           \A c \in ReleasedCells : Slot(shadow[c].write)' = Slot(shadow[c].write),
           \A c \in Cells : cellLock'[c] = cellLock[c] \/ cellLock[c] \in {NoWorker, w},
           worker'[w].pc \in PastEntry => worker[w].pc \in PastEntry,
           worker'[w].pc \in WritePCs => worker[w].pc \in WritePCs,
           WorkerFits(w)'
    PROVE  CInv'
  <1>1. SmOf[w] \in Threads /\ worker \in [Workers -> RegisterType] /\ buffer \in [Threads -> BufferType]
        /\ buffer' \in [Threads -> BufferType]
    BY ConstantsAssumption DEF CInv, HInv, IInv, Typed
  <1>4. \A v \in Workers : WorkerFits(v)'
    BY OthersFit
  <1>5. ClocksBounded'
    <2>1. \A t, u \in Threads : /\ vectorClock'[t][u] =< vectorClock'[u][u]
                                /\ \A i \in DOMAIN buffer'[t].slots : buffer'[t].slots[i][u] =< vectorClock'[u][u]
      BY DEF CInv, ClocksBounded
    <2> QED
      BY <2>1 DEF ClocksBounded
  <1>6. Tokens'
    <2>1. \A t \in Threads : buffer[t].head \in Nat /\ buffer'[t].head \in Nat /\ buffer[t].head =< buffer'[t].head
      <3> TAKE t \in Threads
      <3>1. buffer[t].head \in Nat /\ buffer'[t].head \in Nat
        BY <1>1, ConstantsAssumption DEF BufferType
      <3> QED
        BY <3>1
    <2>2. \A c \in Cells : shadow[c].write.threadId \in Threads /\ shadow[c].write.epoch \in Nat
      BY ViewsTyped, ConstantsAssumption DEF CInv, HInv, ScalarClockType
    <2> QED
      BY <2>1, <2>2 DEF CInv, Tokens
  <1>7. /\ ReleasedCells' = ReleasedCells
        /\ \A t \in Threads : ThreadView'[t] = ThreadView[t]
        /\ \A c \in ReleasedCells : CellView'[c] = CellView[c]
    BY DEF ReleasedCells, ThreadView, CellView
  <1>8. \A u \in Threads : (InKernel(u)' => InKernel(u)) /\ (AtWrite(u)' => AtWrite(u))
    <2>1. \A v \in Workers : /\ worker'[v].pc \in PastEntry => worker[v].pc \in PastEntry
                             /\ worker'[v].pc \in WritePCs => worker[v].pc \in WritePCs
      OBVIOUS
    <2> QED
      BY <2>1 DEF InKernel, AtWrite, WritePCs
  <1>9. NewEpochs' /\ NewCounts'
    BY <1>7, <1>8 DEF CInv, NewEpochs, NewCounts
  <1>10. Views' = Views
    <2>1. {ThreadView[t] : t \in Threads}' = {ThreadView[t] : t \in Threads}
      BY <1>7
    <2>2. {CellView[c] : c \in ReleasedCells}' = {CellView[c] : c \in ReleasedCells}
      BY <1>7
    <2> QED
      BY <2>1, <2>2 DEF Views
  <1>11. Exact'
    <2>1. \A y \in Views' : Sound(y)
      BY <1>10, OldIsSound DEF CInv, HInv
    <2>2. \A u \in Threads : vectorClock[u][u] =< vectorClock'[u][u] /\ known[u][u] =< known'[u][u]
      BY ViewsTyped DEF CInv, HInv
    <2>3. \A c \in ReleasedCells' : /\ c \in ReleasedCells /\ CellView'[c] = CellView[c]
                                    /\ shadow'[c].write = shadow[c].write /\ carried'[c] = carried[c]
      <3> TAKE c \in ReleasedCells'
      <3>1. c \in ReleasedCells
        BY <1>7
      <3>2. CellView'[c] = CellView[c]
        BY <1>7, <3>1
      <3>3. shadow'[c].write = shadow[c].write /\ carried'[c] = carried[c]
        OBVIOUS
      <3> QED
        BY <3>1, <3>2, <3>3
    <2> QED
      BY <2>1, <2>2, <2>3, ExactStep DEF CInv, HInv
  <1> QED
    BY <1>4, <1>5, <1>6, <1>9, <1>11 DEF CInv

\* A step of w that changes its registers, the locks and flags only.
LEMMA ControlKeeps ==
    ASSUME CInv, HInv', OnePerSm, NEW w \in Workers,
           \A v \in Workers \ {w} : worker'[v] = worker[v],
           UNCHANGED <<vectorClock, shadow, known, carried>>,
           \A t \in Threads : buffer'[t].slots = buffer[t].slots /\ buffer'[t].head = buffer[t].head,
           \A t \in Threads \ {SmOf[w]} : buffer'[t] = buffer[t],
           \A c \in Cells : cellLock'[c] = cellLock[c] \/ cellLock[c] \in {NoWorker, w},
           worker'[w].pc \in PastEntry => worker[w].pc \in PastEntry,
           worker'[w].pc \in WritePCs => worker[w].pc \in WritePCs,
           WorkerFits(w)'
    PROVE  CInv'
  <1>1. SmOf[w] \in Threads /\ buffer \in [Threads -> BufferType]
    BY ConstantsAssumption DEF CInv, HInv, IInv, Typed
  <1>2. \A t \in Threads : buffer[t].head \in Nat
    BY <1>1, ConstantsAssumption DEF BufferType
  <1>3. \A t \in Threads : buffer[t].head =< buffer'[t].head
    BY <1>2
  <1>4. \A i \in DOMAIN buffer'[SmOf[w]].slots : \A u \in Threads : buffer'[SmOf[w]].slots[i][u] =< vectorClock[u][u]
    BY <1>1 DEF CInv, ClocksBounded
  <1>5. \A c \in ReleasedCells : Slot(shadow[c].write)' = Slot(shadow[c].write)
    <2> TAKE c \in ReleasedCells
    <2>1. shadow[c].write.threadId \in Threads /\ shadow'[c].write = shadow[c].write
      BY ViewsTyped DEF CInv, HInv, ReleasedCells, ScalarClockType
    <2> QED
      BY <2>1 DEF Slot
  <1> QED
    BY <1>3, <1>4, <1>5, QuietStep

\* A failed assertion leaves everything but the trap as it is.
LEMMA StopKeeps ==
    ASSUME CInv, HInv', UNCHANGED <<vectorClock, buffer, shadow, cellLock, worker, known, carried>>
    PROVE  CInv'
  <1>1. CellView' = CellView
    BY DEF CellView, Slot
  <1>2. Views' = Views /\ ReleasedCells' = ReleasedCells
    BY <1>1 DEF Views, ReleasedCells, ThreadView
  <1>3. Exact'
    BY <1>1, <1>2 DEF CInv, Exact, ScalarExact, ReleaseExact
  <1>4. NewEpochs' /\ NewCounts'
    BY <1>2 DEF CInv, NewEpochs, NewCounts, InKernel, AtWrite, Slot
  <1>5. ClocksBounded' /\ Tokens'
    BY DEF CInv, ClocksBounded, Tokens
  <1>6. \A v \in Workers : WorkerFits(v)'
    BY DEF CInv, WorkerFits, Publishes, Slot
  <1> QED
    BY <1>3, <1>4, <1>5, <1>6 DEF CInv

-----------------------------------------------------------------------------
(* Steps that change no clock and no cell                                  *)

LEMMA OwnRegisters ==
    ASSUME IInv, NEW w \in Workers, NEW x, worker' = [worker EXCEPT ![w] = x]
    PROVE  worker'[w] = x /\ \A v \in Workers \ {w} : worker'[v] = worker[v]
  BY DEF IInv, Typed

LEMMA OwnGoto ==
    ASSUME IInv, NEW w \in Workers, NEW label, Goto(w, label)
    PROVE  /\ worker'[w].pc = label /\ worker'[w].op = worker[w].op /\ worker'[w].idx = worker[w].idx
           /\ worker'[w].token = worker[w].token /\ worker'[w].snapshot = worker[w].snapshot
           /\ \A v \in Workers \ {w} : worker'[v] = worker[v]
  <1>1. worker \in [Workers -> RegisterType] /\ worker[w] \in RegisterType
    BY DEF IInv, Typed
  <1>2. worker'[w] = [worker[w] EXCEPT !.pc = label] /\ \A v \in Workers \ {w} : worker'[v] = worker[v]
    BY <1>1 DEF Goto
  <1> QED
    BY <1>1, <1>2 DEF RegisterType

\* Registers that hold no lock and are bound to nothing but a dirty buffer.
LEMMA OutsideFits ==
    ASSUME NEW w \in Workers, worker'[w].pc \notin {"storeEpoch", "range", "access"} \cup InAtomic,
           worker'[w].pc \in {"idle", "lockRead", "lockWrite"} => buffer'[SmOf[w]].dirty
    PROVE  WorkerFits(w)'
  <1> DEFINE x == worker'[w]
  <1>1. ~(x.pc \in {"fill", "moveHead", "commit"}) /\ x.pc # "storeEpoch" /\ x.pc # "moveHead" /\ x.pc # "commit"
    BY DEF InAtomic
  <1>2. x.pc \in {"idle"} \cup InAccess => buffer'[SmOf[w]].dirty
    BY DEF InAccess
  <1>3. \A c : ~Holds(x, c)
    BY HoldsNothing
  <1> QED
    BY <1>1, <1>2, <1>3 DEF WorkerFits

LEMMA EnterKeeps ==
    ASSUME CInv, HInv', OnePerSm, NEW w \in Workers, Enter(w)
    PROVE  CInv'
  <1> DEFINE label == IF SmOf[w] \in ready THEN "init" ELSE "lazyInit"
  <1>1. label \in {"init", "lazyInit"}
    OBVIOUS
  <1>2. Goto(w, label) /\ UNCHANGED <<vectorClock, buffer, shadow, cellLock, known, carried>>
    BY DEF Enter, threadVars, shadowVars, ghostVars
  <1> HIDE DEF label
  <1>3. worker'[w].pc = label /\ \A v \in Workers \ {w} : worker'[v] = worker[v]
    BY <1>1, <1>2, OwnGoto DEF CInv, HInv
  <1>4. WorkerFits(w)'
    BY <1>1, <1>3, OutsideFits DEF InAtomic
  <1> QED
    BY <1>1, <1>2, <1>3, <1>4, ControlKeeps DEF PastEntry, InAccess, InAtomic, WritePCs

LEMMA LazyInitKeeps ==
    ASSUME CInv, HInv', OnePerSm, NEW w \in Workers, LazyInit(w)
    PROVE  CInv'
  <1> DEFINE t == SmOf[w]
             b == [buffer[t] EXCEPT !.dirty = FALSE, !.head = 0]
  <1>1. /\ worker[w].pc = "lazyInit" /\ Goto(w, "init") /\ t \in Threads
        /\ buffer' = [buffer EXCEPT ![t] = b]
        /\ UNCHANGED <<vectorClock, shadow, cellLock, known, carried>>
    BY ConstantsAssumption DEF LazyInit, Running, shadowVars, ghostVars
  <1>2. worker'[w].pc = "init" /\ \A v \in Workers \ {w} : worker'[v] = worker[v]
    BY <1>1, OwnGoto DEF CInv, HInv
  <1>3. buffer \in [Threads -> BufferType] /\ buffer[t].head = 0
    <2>1. t \notin ready
      BY <1>1 DEF CInv, HInv, HeadFits
    <2> QED
      BY <1>1, <2>1 DEF CInv, HInv, IInv, Typed
  <1>4. b.head = buffer[t].head /\ b.slots = buffer[t].slots
    BY <1>1, <1>3 DEF BufferType
  <1> HIDE DEF b
  <1>5. /\ \A u \in Threads : buffer'[u].slots = buffer[u].slots /\ buffer'[u].head = buffer[u].head
        /\ \A u \in Threads \ {t} : buffer'[u] = buffer[u]
    BY <1>1, <1>3, <1>4
  <1>6. WorkerFits(w)'
    BY <1>2, OutsideFits DEF InAtomic
  <1> QED
    BY <1>1, <1>2, <1>5, <1>6, ControlKeeps DEF PastEntry, InAccess, InAtomic, WritePCs

LEMMA LoadEpochKeeps ==
    ASSUME CInv, HInv', OnePerSm, NEW w \in Workers, LoadEpoch(w)
    PROVE  CInv'
  <1> DEFINE t == SmOf[w]
             x == [worker[w] EXCEPT !.pc = "storeEpoch", !.epoch = vectorClock[t][t]]
  <1>1. UNCHANGED <<vectorClock, buffer, shadow, cellLock, known, carried>>
    BY DEF LoadEpoch, Stop, threadVars, shadowVars, ghostVars
  <1>2. CASE vectorClock[t][t] = MaxEpoch
    BY <1>1, <1>2, StopKeeps DEF LoadEpoch, Stop
  <1>3. CASE vectorClock[t][t] # MaxEpoch
    <2>1. worker' = [worker EXCEPT ![w] = x] /\ worker[w] \in RegisterType
      BY <1>3 DEF LoadEpoch, CInv, HInv, IInv, Typed
    <2>2. x.pc = "storeEpoch" /\ x.epoch = vectorClock[t][t]
      BY <2>1 DEF RegisterType
    <2> HIDE DEF x
    <2>3. worker'[w] = x /\ \A v \in Workers \ {w} : worker'[v] = worker[v]
      BY <2>1, OwnRegisters DEF CInv, HInv
    <2>4. WorkerFits(w)'
      BY <1>1, <2>2, <2>3 DEF WorkerFits, Holds, InAccess, InAtomic
    <2> QED
      BY <1>1, <2>2, <2>3, <2>4, ControlKeeps DEF PastEntry, InAccess, InAtomic, WritePCs
  <1> QED
    BY <1>2, <1>3

LEMMA LoadWordKeeps ==
    ASSUME CInv, HInv', OnePerSm, NEW w \in Workers, LoadWord(w)
    PROVE  CInv'
  <1> DEFINE word == [dirty |-> buffer[SmOf[w]].dirty, head |-> buffer[SmOf[w]].head]
             x == [worker[w] EXCEPT !.pc = "storeWord", !.word = word]
  <1>1. /\ UNCHANGED <<vectorClock, buffer, shadow, cellLock, known, carried>>
        /\ worker' = [worker EXCEPT ![w] = x] /\ worker[w] \in RegisterType /\ worker[w].pc = "loadWord"
    BY DEF LoadWord, Running, threadVars, shadowVars, ghostVars, CInv, HInv, IInv, Typed
  <1>2. x.pc = "storeWord"
    BY <1>1 DEF RegisterType
  <1> HIDE DEF x
  <1>3. worker'[w] = x /\ \A v \in Workers \ {w} : worker'[v] = worker[v]
    BY <1>1, OwnRegisters DEF CInv, HInv
  <1>4. WorkerFits(w)'
    BY <1>2, <1>3, OutsideFits DEF InAtomic
  <1> QED
    BY <1>1, <1>2, <1>3, <1>4, ControlKeeps DEF PastEntry, InAccess, InAtomic, WritePCs

LEMMA StoreWordKeeps ==
    ASSUME CInv, HInv', OnePerSm, NEW w \in Workers, StoreWord(w)
    PROVE  CInv'
  <1> DEFINE t == SmOf[w]
             head == worker[w].word.head
             b == [buffer[t] EXCEPT !.dirty = TRUE, !.head = head]
  <1>1. /\ worker[w].pc = "storeWord" /\ Goto(w, "idle") /\ t \in Threads
        /\ buffer' = [buffer EXCEPT ![t] = b]
        /\ UNCHANGED <<vectorClock, shadow, cellLock, known, carried>>
    BY ConstantsAssumption DEF StoreWord, Running, shadowVars, ghostVars
  <1>2. worker'[w].pc = "idle" /\ \A v \in Workers \ {w} : worker'[v] = worker[v]
    BY <1>1, OwnGoto DEF CInv, HInv
  <1>3. buffer \in [Threads -> BufferType] /\ head = buffer[t].head
    BY <1>1 DEF CInv, HInv, HeadFits, IInv, Typed
  <1> HIDE DEF head
  <1>4. b.head = buffer[t].head /\ b.slots = buffer[t].slots /\ b.dirty
    BY <1>1, <1>3 DEF BufferType
  <1> HIDE DEF b
  <1>5. /\ \A u \in Threads : buffer'[u].slots = buffer[u].slots /\ buffer'[u].head = buffer[u].head
        /\ \A u \in Threads \ {t} : buffer'[u] = buffer[u]
        /\ buffer'[t].dirty
    BY <1>1, <1>3, <1>4
  <1>6. WorkerFits(w)'
    BY <1>2, <1>5, OutsideFits DEF InAtomic
  <1> QED
    BY <1>1, <1>2, <1>5, <1>6, ControlKeeps DEF PastEntry, InAccess, InAtomic, WritePCs

LEMMA IssueKeeps ==
    ASSUME CInv, HInv', OnePerSm, NEW w \in Workers, NEW op, Issue(w, op)
    PROVE  CInv'
  <1> DEFINE label == IF op.kind \in {"load", "store"} THEN "lockRead" ELSE "lockWrite"
             done == worker[w].done + 1
             x == [worker[w] EXCEPT !.pc = label, !.op = op, !.idx = 1, !.done = done]
  <1>1. /\ UNCHANGED <<vectorClock, buffer, shadow, cellLock, known, carried>>
        /\ worker' = [worker EXCEPT ![w] = x] /\ worker[w] \in RegisterType /\ worker[w].pc = "idle"
    BY DEF Issue, Running, threadVars, shadowVars, ghostVars, CInv, HInv, IInv, Typed
  <1>2. x.pc \in {"lockRead", "lockWrite"}
    BY <1>1 DEF RegisterType
  <1> HIDE DEF x
  <1>3. worker'[w] = x /\ \A v \in Workers \ {w} : worker'[v] = worker[v]
    BY <1>1, OwnRegisters DEF CInv, HInv
  <1>4. buffer'[SmOf[w]].dirty
    BY <1>1 DEF CInv, WorkerFits
  <1>5. WorkerFits(w)'
    BY <1>2, <1>3, <1>4, OutsideFits DEF InAtomic
  <1> QED
    BY <1>1, <1>2, <1>3, <1>5, ControlKeeps DEF PastEntry, InAccess, InAtomic, WritePCs

LEMMA ExitKeeps ==
    ASSUME CInv, HInv', OnePerSm, NEW w \in Workers, Exit(w)
    PROVE  CInv'
  <1>1. /\ UNCHANGED <<vectorClock, buffer, shadow, cellLock, known, carried>>
        /\ Goto(w, "exited")
    BY DEF Exit, threadVars, shadowVars, ghostVars
  <1>2. worker'[w].pc = "exited" /\ \A v \in Workers \ {w} : worker'[v] = worker[v]
    BY <1>1, OwnGoto DEF CInv, HInv
  <1>3. WorkerFits(w)'
    BY <1>2, OutsideFits DEF InAtomic
  <1> QED
    BY <1>1, <1>2, <1>3, ControlKeeps DEF PastEntry, InAccess, InAtomic, WritePCs

\* A worker in an access runs its own SM with its clock buffer dirty, but at the
\* commit of its release.
LEMMA AccessFacts ==
    ASSUME CInv, NEW w \in Workers, worker[w].pc \in {"idle"} \cup InAccess
    PROVE  /\ SmOf[w] \in Threads /\ worker[w] \in RegisterType /\ Typed /\ IInv
           /\ buffer \in [Threads -> BufferType] /\ buffer[SmOf[w]] \in BufferType
           /\ RegistersFit(worker[w], program.operations)
           /\ worker[w].pc # "commit" => buffer[SmOf[w]].dirty
           /\ worker[w].pc \in InAccess => worker[w].op \in program.operations
           /\ \A c \in Cells : Holds(worker[w], c) => cellLock[c] = w
  <1>1. IInv /\ Typed /\ RegistersFit(worker[w], program.operations) /\ WorkerFits(w)
    BY DEF CInv, HInv, IInv
  <1>2. SmOf[w] \in Threads
    BY ConstantsAssumption
  <1>3. /\ worker[w].pc # "commit" => buffer[SmOf[w]].dirty
        /\ \A c \in Cells : Holds(worker[w], c) => cellLock[c] = w
    BY <1>1 DEF WorkerFits
  <1>4. worker[w].pc \in InAccess => worker[w].op \in program.operations
    BY <1>1 DEF RegistersFit
  <1> QED
    BY <1>1, <1>2, <1>3, <1>4 DEF Typed

LEMMA AcquireReadKeeps ==
    ASSUME CInv, HInv', OnePerSm, NEW w \in Workers, AcquireRead(w)
    PROVE  CInv'
  <1>1. /\ UNCHANGED <<vectorClock, buffer, shadow, cellLock, known, carried>>
        /\ Goto(w, "range") /\ worker[w].pc = "lockRead"
    BY DEF AcquireRead, Running, threadVars, shadowVars, ghostVars
  <1>2. worker'[w].pc = "range" /\ worker'[w].op = worker[w].op /\ \A v \in Workers \ {w} : worker'[v] = worker[v]
    BY <1>1, OwnGoto DEF CInv, HInv
  <1>3. buffer[SmOf[w]].dirty /\ worker[w].op.kind \in PlainKinds
    BY <1>1, AccessFacts DEF InAccess, RegistersFit
  <1>4. WorkerFits(w)'
    BY <1>1, <1>2, <1>3 DEF WorkerFits, Holds, InAtomic, PlainKinds, AtomicKinds
  <1> QED
    BY <1>1, <1>2, <1>4, ControlKeeps DEF PastEntry, InAccess, WritePCs

LEMMA AcquireWriteKeeps ==
    ASSUME CInv, HInv', OnePerSm, NEW w \in Workers, AcquireWrite(w)
    PROVE  CInv'
  <1>1. /\ UNCHANGED <<vectorClock, buffer, shadow, cellLock, known, carried>>
        /\ Goto(w, "range") /\ worker[w].pc = "lockWrite"
    BY DEF AcquireWrite, Running, threadVars, shadowVars, ghostVars
  <1>2. worker'[w].pc = "range" /\ worker'[w].idx = worker[w].idx /\ \A v \in Workers \ {w} : worker'[v] = worker[v]
    BY <1>1, OwnGoto DEF CInv, HInv
  <1>3. buffer[SmOf[w]].dirty /\ worker[w].idx = 1
    BY <1>1, AccessFacts DEF InAccess, RegistersFit
  <1>4. \A c : ~Holds(worker'[w], c)
    BY <1>2, <1>3 DEF Holds, InAtomic
  <1>5. WorkerFits(w)'
    BY <1>1, <1>2, <1>3, <1>4 DEF WorkerFits
  <1> QED
    BY <1>1, <1>2, <1>5, ControlKeeps DEF PastEntry, InAccess, WritePCs

LEMMA ReleaseReadKeeps ==
    ASSUME CInv, HInv', OnePerSm, NEW w \in Workers, ReleaseRead(w)
    PROVE  CInv'
  <1>1. /\ UNCHANGED <<vectorClock, buffer, shadow, cellLock, known, carried>>
        /\ Goto(w, "idle") /\ worker[w].pc = "range"
    BY DEF ReleaseRead, Running, threadVars, shadowVars, ghostVars
  <1>2. worker'[w].pc = "idle" /\ \A v \in Workers \ {w} : worker'[v] = worker[v]
    BY <1>1, OwnGoto DEF CInv, HInv
  <1>3. buffer[SmOf[w]].dirty
    BY <1>1, AccessFacts DEF InAccess
  <1>4. WorkerFits(w)'
    BY <1>1, <1>2, <1>3, OutsideFits DEF InAtomic
  <1> QED
    BY <1>1, <1>2, <1>4, ControlKeeps DEF PastEntry, InAccess, WritePCs

LEMMA ReleaseAtomicShadowRangeKeeps ==
    ASSUME CInv, HInv', OnePerSm, NEW w \in Workers, ReleaseAtomicShadowRange(w)
    PROVE  CInv'
  <1>1. /\ UNCHANGED <<vectorClock, buffer, shadow, known, carried>>
        /\ Goto(w, "idle") /\ worker[w].pc = "release"
        /\ cellLock' = [c \in Cells |-> IF c \in CellsOf(worker[w].op) THEN NoWorker ELSE cellLock[c]]
    BY DEF ReleaseAtomicShadowRange, Running, Op, threadVars, shadowVars, ghostVars
  <1>2. worker'[w].pc = "idle" /\ \A v \in Workers \ {w} : worker'[v] = worker[v]
    BY <1>1, OwnGoto DEF CInv, HInv
  <1>3. buffer[SmOf[w]].dirty /\ \A c \in Cells : Holds(worker[w], c) => cellLock[c] = w
    BY <1>1, AccessFacts DEF InAccess, InAtomic
  <1>4. \A c \in Cells : cellLock'[c] = cellLock[c] \/ cellLock[c] \in {NoWorker, w}
    BY <1>1, <1>3 DEF Holds, InAtomic
  <1>5. WorkerFits(w)'
    BY <1>1, <1>2, <1>3, OutsideFits DEF InAtomic
  <1> QED
    BY <1>1, <1>2, <1>4, <1>5, ControlKeeps DEF PastEntry, InAccess, InAtomic, WritePCs

LEMMA AcquireShadowKeeps ==
    ASSUME CInv, HInv', OnePerSm, NEW w \in Workers, AcquireShadow(w)
    PROVE  CInv'
  <1> DEFINE op == worker[w].op
             idx == worker[w].idx
             n == Len(op.cells)
             c == op.cells[idx]
             atomic == op.kind \in AtomicKinds
             label == IF ~atomic THEN "access" ELSE IF idx = n THEN "begin" ELSE "range"
             next == IF atomic THEN idx + 1 ELSE idx
             x == [worker[w] EXCEPT !.pc = label, !.idx = next]
  <1>1. worker[w].pc = "range" /\ cellLock[c] = NoWorker /\ ~RangeDone(w)
    BY DEF AcquireShadow, Running, CurrentCell, Op
  <1>2. /\ worker[w] \in RegisterType /\ op \in program.operations /\ idx \in Nat \ {0}
        /\ Typed /\ buffer[SmOf[w]].dirty
        /\ \A d \in Cells : Holds(worker[w], d) => cellLock[d] = w
    BY <1>1, AccessFacts DEF RegisterType, InAccess
  <1>3. n \in Nat \ {0} /\ idx \in 1 .. n /\ c \in Cells
    BY <1>1, <1>2, Operations DEF RangeDone, Op
  <1>4. /\ worker' = [worker EXCEPT ![w] = x]
        /\ cellLock' = [cellLock EXCEPT ![c] = w]
        /\ UNCHANGED <<vectorClock, buffer, shadow, known, carried>>
    BY DEF AcquireShadow, AtomicKinds, CurrentCell, Op, threadVars, ghostVars
  <1>5. label \in {"access", "begin", "range"} /\ next \in Nat \ {0}
    BY <1>3
  <1>6. /\ label = "access" => next = idx
        /\ label = "begin" => atomic /\ idx = n
        /\ label = "range" => atomic /\ next = idx + 1
    BY <1>3
  <1> HIDE DEF label, next
  <1>7. x.pc = label /\ x.idx = next /\ x.op = op
    BY <1>2, <1>5 DEF RegisterType
  <1> HIDE DEF x
  <1>8. worker'[w] = x /\ \A v \in Workers \ {w} : worker'[v] = worker[v]
    BY <1>4, OwnRegisters DEF CInv, HInv
  <1>9. \A d \in Cells : cellLock'[d] = IF d = c THEN w ELSE cellLock[d]
    BY <1>2, <1>3, <1>4 DEF Typed
  <1>10. ASSUME NEW d \in Cells, Holds(x, d) PROVE cellLock'[d] = w
    <2>1. CASE d = c
      BY <1>9, <2>1
    <2>2. CASE d # c
      <3>1. atomic /\ \E i \in 1 .. n : i < idx /\ d = op.cells[i]
        <4>1. CASE label = "access"
          BY <1>6, <1>7, <1>10, <2>2, <4>1 DEF Holds, InAtomic
        <4>2. CASE label = "begin"
          <5>1. d \in CellsOf(op) /\ atomic /\ idx = n
            BY <1>6, <1>7, <1>10, <4>2 DEF Holds, InAtomic
          <5>2. PICK i \in 1 .. n : d = op.cells[i]
            BY <1>2, <5>1, CellsOfOperation
          <5>3. i < idx
            BY <1>3, <2>2, <5>1, <5>2
          <5> QED
            BY <5>1, <5>2, <5>3
        <4>3. CASE label = "range"
          <5>1. PICK i \in 1 .. n : i < idx + 1 /\ d = op.cells[i]
            BY <1>6, <1>7, <1>10, <4>3 DEF Holds, InAtomic
          <5>2. i < idx
            BY <1>3, <2>2, <5>1
          <5> QED
            BY <1>6, <4>3, <5>1, <5>2
        <4> QED
          BY <1>5, <4>1, <4>2, <4>3
      <3>2. Holds(worker[w], d)
        BY <1>1, <3>1 DEF Holds
      <3> QED
        BY <1>2, <1>9, <2>2, <3>2
    <2> QED
      BY <2>1, <2>2
  <1>11. WorkerFits(w)'
    BY <1>2, <1>4, <1>5, <1>7, <1>8, <1>10 DEF WorkerFits
  <1>12. \A d \in Cells : cellLock'[d] = cellLock[d] \/ cellLock[d] \in {NoWorker, w}
    BY <1>1, <1>9
  <1>13. SmOf[w] \in Threads /\ buffer[SmOf[w]] = buffer'[SmOf[w]]
    BY <1>4, ConstantsAssumption
  <1> QED
    BY <1>1, <1>4, <1>5, <1>7, <1>8, <1>11, <1>12, ControlKeeps DEF PastEntry, InAccess, InAtomic, WritePCs

LEMMA EndFailedCasKeeps ==
    ASSUME CInv, HInv', OnePerSm, NEW w \in Workers, EndFailedCas(w)
    PROVE  CInv'
  <1>1. /\ UNCHANGED <<vectorClock, buffer, shadow, cellLock, known, carried>>
        /\ Goto(w, "release") /\ worker[w].pc = "end"
    BY DEF EndFailedCas, Running, threadVars, shadowVars, ghostVars
  <1>2. worker'[w].pc = "release" /\ worker'[w].op = worker[w].op /\ \A v \in Workers \ {w} : worker'[v] = worker[v]
    BY <1>1, OwnGoto DEF CInv, HInv
  <1>3. buffer[SmOf[w]].dirty /\ \A c \in Cells : Holds(worker[w], c) => cellLock[c] = w
    BY <1>1, AccessFacts DEF InAccess, InAtomic
  <1>4. \A c \in Cells : Holds(worker'[w], c) => cellLock'[c] = w
    BY <1>1, <1>2, <1>3 DEF Holds, InAtomic
  <1>5. WorkerFits(w)'
    BY <1>1, <1>2, <1>3, <1>4 DEF WorkerFits
  <1> QED
    BY <1>1, <1>2, <1>5, ControlKeeps DEF PastEntry, InAccess, InAtomic, WritePCs

\* An atomic keeps its operation, its cells and their locks from its beginning
\* to its end.
LEMMA AtomicFacts ==
    ASSUME CInv, NEW w \in Workers, worker[w].pc \in InAtomic
    PROVE  /\ SmOf[w] \in Threads /\ worker[w] \in RegisterType /\ IInv /\ Typed
           /\ buffer \in [Threads -> BufferType] /\ buffer[SmOf[w]] \in BufferType
           /\ worker[w].op \in program.operations /\ CellsOf(worker[w].op) \subseteq Cells
           /\ worker[w].op.cells[1] \in CellsOf(worker[w].op)
           /\ \A c \in CellsOf(worker[w].op) : cellLock[c] = w
           /\ \A c \in Cells : \A x : x.pc \in InAtomic /\ x.op = worker[w].op /\ Holds(x, c) => cellLock[c] = w
  <1>1. /\ SmOf[w] \in Threads /\ worker[w] \in RegisterType /\ Typed /\ IInv
        /\ buffer \in [Threads -> BufferType] /\ buffer[SmOf[w]] \in BufferType
        /\ worker[w].op \in program.operations
        /\ \A c \in Cells : Holds(worker[w], c) => cellLock[c] = w
    BY AccessFacts DEF InAccess
  <1>2. CellsOf(worker[w].op) \subseteq Cells /\ worker[w].op.cells[1] \in CellsOf(worker[w].op)
    BY <1>1, CellsOfOperation
  <1>3. \A c \in CellsOf(worker[w].op) : cellLock[c] = w
    BY <1>1, <1>2 DEF Holds
  <1>4. \A c \in Cells : \A x : x.pc \in InAtomic /\ x.op = worker[w].op /\ Holds(x, c) => cellLock[c] = w
    BY <1>3 DEF Holds, InAtomic
  <1> QED
    BY <1>1, <1>2, <1>3, <1>4

LEMMA EndAtomicKeeps ==
    ASSUME CInv, HInv', OnePerSm, NEW w \in Workers, EndAtomic(w)
    PROVE  CInv'
  <1> DEFINE t == SmOf[w]
             op == Op(w)
             previous == shadow[op.cells[1]].write
             checks == EndChecks(t, op) \o
                         IF ~HasRelease(op.sem) /\ previous.isRelease
                         THEN <<[prior |-> previous, verdict |-> TokenVerdict(previous)]>>
                         ELSE <<>>
             label == IF \/ HasRelease(op.sem) /\ buffer[t].dirty
                         \/ ~HasRelease(op.sem) /\ previous.isRelease
                      THEN "fill" ELSE "commit"
             token == IF HasRelease(op.sem) THEN buffer[t].head ELSE 0
             snapshot == IF HasRelease(op.sem) THEN vectorClock[t]
                         ELSE IF previous.isRelease THEN Slot(previous) ELSE worker[w].snapshot
             x == [worker[w] EXCEPT !.pc = label, !.token = token, !.snapshot = snapshot]
  <1>1. worker[w].pc = "end" /\ op = worker[w].op /\ UNCHANGED <<vectorClock, buffer, shadow, cellLock, known, carried>>
    BY DEF EndAtomic, Running, Op, StopAtFirst, Stop, threadVars, shadowVars, ghostVars
  <1>2. CASE Failures(checks) # {}
    BY <1>1, <1>2, StopKeeps DEF EndAtomic, StopAtFirst, Stop
  <1>3. CASE ~ (Failures(checks) # {})
    <2>1. worker' = [worker EXCEPT ![w] = x]
      BY <1>3 DEF EndAtomic
    <2>2. worker[w] \in RegisterType /\ buffer[t].dirty
          /\ \A c \in Cells : \A y : y.pc \in InAtomic /\ y.op = op /\ Holds(y, c) => cellLock[c] = w
      BY <1>1, AtomicFacts, AccessFacts DEF InAtomic, InAccess
    <2>3. /\ label = "fill" => Publishes(op)
          /\ label = "commit" => ~HasRelease(op.sem) /\ ~Publishes(op)
          /\ label \in {"fill", "commit"}
      BY <2>2 DEF Publishes
    <2>4. Publishes(op) => snapshot = IF HasRelease(op.sem) THEN vectorClock[t] ELSE Slot(previous)
      BY DEF Publishes
    <2> HIDE DEF label, token, snapshot
    <2>5. x.pc = label /\ x.op = op /\ x.snapshot = snapshot
      BY <1>1, <2>2 DEF RegisterType
    <2> HIDE DEF x
    <2>6. worker'[w] = x /\ \A v \in Workers \ {w} : worker'[v] = worker[v]
      BY <2>1, OwnRegisters DEF CInv, HInv
    <2>7. \A c \in Cells : Holds(x, c) => cellLock'[c] = w
      BY <1>1, <2>2, <2>3, <2>5 DEF InAtomic
    <2>8. op.cells[1] \in Cells
      BY <1>1, AtomicFacts DEF InAtomic
    <2> HIDE DEF op
    <2>9. WorkerFits(w)'
      <3>1. Publishes(worker[w].op)' <=> Publishes(op)
        BY <1>1, <2>5, <2>6 DEF Publishes
      <3>2. (IF HasRelease(worker[w].op.sem) THEN vectorClock[t] ELSE Slot(shadow[worker[w].op.cells[1]].write))'
              = IF HasRelease(op.sem) THEN vectorClock[t] ELSE Slot(previous)
        BY <1>1, <2>5, <2>6 DEF Slot
      <3> QED
        BY <1>1, <2>2, <2>3, <2>4, <2>5, <2>6, <2>7, <3>1, <3>2 DEF WorkerFits
    <2> QED
      BY <1>1, <2>3, <2>5, <2>6, <2>9, ControlKeeps DEF PastEntry, InAccess, InAtomic, WritePCs
  <1> QED
    BY <1>2, <1>3

LEMMA SmallModulus ==
    ASSUME NEW a \in Nat, NEW b \in Nat \ {0}
    PROVE  /\ a % b \in 0 .. b - 1
           /\ a < b => a % b = a
           /\ b % b = 0
  OBVIOUS

\* appendClockBufferSnapshot fills a slot that no token refers to: one more than
\* the head, or slot 0 when the ring becomes full.
LEMMA FillSlotKeeps ==
    ASSUME CInv, HInv', OnePerSm, RingsFresh, NEW w \in Workers, FillSlot(w)
    PROVE  CInv'
  <1> DEFINE t == SmOf[w]
             next == buffer[t].head + 1
             i == next % ClockBufferSize
             snapshot == worker[w].snapshot
             slots == [buffer[t].slots EXCEPT ![i] = snapshot]
             b == [buffer[t] EXCEPT !.slots = slots]
             x == [worker[w] EXCEPT !.pc = "moveHead", !.token = next]
  <1>1. worker[w].pc = "fill" /\ UNCHANGED <<vectorClock, shadow, cellLock, known, carried>>
    BY DEF FillSlot, Running, Stop, threadVars, shadowVars, ghostVars
  <1>2. CASE next > MaxEpoch
    BY <1>1, <1>2, StopKeeps DEF FillSlot, Stop, threadVars
  <1>3. CASE ~ (next > MaxEpoch)
    <2>1. buffer' = [buffer EXCEPT ![t] = b] /\ worker' = [worker EXCEPT ![w] = x]
      BY <1>3 DEF FillSlot
    <2>2. /\ t \in Threads /\ worker[w] \in RegisterType /\ buffer \in [Threads -> BufferType]
          /\ buffer[t] \in BufferType /\ IInv
          /\ worker[w].op.cells[1] \in Cells
          /\ \A c \in Cells : \A y : y.pc \in InAtomic /\ y.op = worker[w].op /\ Holds(y, c) => cellLock[c] = w
          /\ buffer[t].dirty
      BY <1>1, AtomicFacts, AccessFacts DEF InAtomic, InAccess
    <2>3. /\ WorkerFits(w) /\ Publishes(worker[w].op)
          /\ snapshot = IF HasRelease(worker[w].op.sem) THEN vectorClock[t]
                        ELSE Slot(shadow[worker[w].op.cells[1]].write)
      BY <1>1 DEF CInv, WorkerFits
    <2>4. buffer[t].head \in Nat /\ next \in Nat /\ buffer[t].head < ClockBufferSize
          /\ ClockBufferSize \in Nat \ {0} /\ buffer[t].slots \in [0 .. ClockBufferSize - 1 -> ClockType]
          /\ snapshot \in ClockType
      BY <2>2, ConstantsAssumption DEF BufferType, RingsFresh, RegisterType
    <2>5. i \in 0 .. ClockBufferSize - 1 /\ (i = next \/ i = 0)
      <3>1. next < ClockBufferSize \/ next = ClockBufferSize
        BY <2>4
      <3> HIDE DEF next
      <3> QED
        BY <2>4, <3>1, SmallModulus
    <2>6. \A c \in ReleasedCells : /\ shadow[c].write.threadId \in Threads
                                   /\ shadow[c].write.epoch % ClockBufferSize \in 0 .. ClockBufferSize - 1
                                   /\ shadow[c].write.threadId = t => shadow[c].write.epoch % ClockBufferSize # i
      <3> TAKE c \in ReleasedCells
      <3> DEFINE e == shadow[c].write.epoch
                 u == shadow[c].write.threadId
      <3>1. e \in Nat /\ u \in Threads /\ e # 0 /\ e =< buffer[u].head
        BY <2>2, ViewsTyped, ConstantsAssumption DEF CInv, Tokens, ReleasedCells, ScalarClockType
      <3>2. buffer[u].head < ClockBufferSize /\ buffer[u].head \in Nat
        BY <2>2, <3>1, ConstantsAssumption DEF RingsFresh, BufferType
      <3>3. e < ClockBufferSize
        BY <2>4, <3>1, <3>2
      <3>4. e % ClockBufferSize = e
        <4> HIDE DEF e
        <4> QED
          BY <2>4, <3>1, <3>3, SmallModulus
      <3>5. u = t => e # i
        BY <2>4, <2>5, <3>1
      <3>6. e % ClockBufferSize \in 0 .. ClockBufferSize - 1
        BY <2>4, <3>1, <3>3, <3>4
      <3> QED
        BY <3>1, <3>4, <3>5, <3>6
    <2> HIDE DEF next, i, snapshot
    <2>7. /\ slots \in [0 .. ClockBufferSize - 1 -> ClockType] /\ slots[i] = snapshot
          /\ \A j \in 0 .. ClockBufferSize - 1 : j # i => slots[j] = buffer[t].slots[j]
      BY <2>4, <2>5
    <2> HIDE DEF slots
    <2>8. b.head = buffer[t].head /\ b.dirty = buffer[t].dirty /\ b.slots = slots
      BY <2>2 DEF BufferType
    <2>9. x.pc = "moveHead" /\ x.op = worker[w].op /\ x.token = next /\ x.snapshot = snapshot
      BY <2>2 DEF RegisterType, snapshot
    <2> HIDE DEF b, x
    <2>10. /\ \A u \in Threads \ {t} : buffer'[u] = buffer[u]
           /\ buffer'[t] = b
           /\ \A u \in Threads : buffer[u].head =< buffer'[u].head
      <3>1. \A u \in Threads : buffer[u].head \in Nat
        BY <2>2, ConstantsAssumption DEF BufferType
      <3> QED
        BY <2>1, <2>2, <2>8, <3>1
    <2>11. worker'[w] = x /\ \A v \in Workers \ {w} : worker'[v] = worker[v]
      BY <2>1, <2>2, OwnRegisters
    <2>12. \A u \in Threads : snapshot[u] =< vectorClock[u][u]
      BY <2>2, <2>3, CellsBounded DEF CInv, ClocksBounded
    <2>13. \A j \in DOMAIN buffer'[t].slots : \A u \in Threads : buffer'[t].slots[j][u] =< vectorClock[u][u]
      <3>1. DOMAIN buffer'[t].slots = 0 .. ClockBufferSize - 1 /\ DOMAIN buffer[t].slots = 0 .. ClockBufferSize - 1
        BY <2>4, <2>7, <2>8, <2>10
      <3>2. \A j \in 0 .. ClockBufferSize - 1 : \A u \in Threads : buffer[t].slots[j][u] =< vectorClock[u][u]
        BY <2>2, <3>1 DEF CInv, ClocksBounded
      <3> QED
        BY <2>7, <2>8, <2>10, <2>12, <3>1, <3>2
    <2>14. \A c \in ReleasedCells : Slot(shadow[c].write)' = Slot(shadow[c].write)
      <3> TAKE c \in ReleasedCells
      <3>1. shadow'[c].write = shadow[c].write
        BY <1>1
      <3>2. CASE shadow[c].write.threadId = t
        BY <2>6, <2>7, <2>8, <2>10, <3>1, <3>2 DEF Slot
      <3>3. CASE shadow[c].write.threadId # t
        BY <2>6, <2>10, <3>1, <3>3 DEF Slot
      <3> QED
        BY <3>2, <3>3
    <2>15. WorkerFits(w)'
      <3> DEFINE c == worker[w].op.cells[1]
      <3>1. Publishes(worker[w].op)' <=> Publishes(worker[w].op)
        BY <1>1, <2>9, <2>11 DEF Publishes
      <3>2. ~HasRelease(worker[w].op.sem) => shadow[c].write.isRelease
        BY <2>3 DEF Publishes
      <3>3. ~HasRelease(worker[w].op.sem) => Slot(shadow[c].write)' = Slot(shadow[c].write)
        <4> SUFFICES ASSUME ~HasRelease(worker[w].op.sem) PROVE Slot(shadow[c].write)' = Slot(shadow[c].write)
          OBVIOUS
        <4>1. c \in ReleasedCells /\ c' = c
          BY <2>2, <2>9, <2>11, <3>2 DEF ReleasedCells
        <4>2. Slot(shadow[c].write)' = buffer'[shadow[c].write.threadId].slots[shadow[c].write.epoch % ClockBufferSize]
          BY <1>1, <4>1 DEF Slot
        <4>3. buffer'[shadow[c].write.threadId].slots[shadow[c].write.epoch % ClockBufferSize]
                = buffer[shadow[c].write.threadId].slots[shadow[c].write.epoch % ClockBufferSize]
          BY <2>6, <2>7, <2>8, <2>10, <4>1
        <4> QED
          BY <4>2, <4>3 DEF Slot
      <3>4. x.snapshot = (IF HasRelease(worker[w].op.sem) THEN vectorClock[t] ELSE Slot(shadow[c].write))'
        BY <1>1, <2>3, <2>9, <2>11, <3>3
      <3>5. buffer'[t].slots[x.token % ClockBufferSize] = x.snapshot
        BY <2>7, <2>8, <2>9, <2>10 DEF i
      <3>6. \A d \in Cells : Holds(x, d) => cellLock'[d] = w
        BY <1>1, <2>2, <2>9 DEF InAtomic
      <3> QED
        BY <2>2, <2>3, <2>8, <2>9, <2>10, <2>11, <3>1, <3>4, <3>5, <3>6 DEF WorkerFits
    <2> QED
      BY <1>1, <2>9, <2>10, <2>11, <2>13, <2>14, <2>15, QuietStep DEF PastEntry, InAccess, InAtomic, WritePCs
  <1> QED
    BY <1>2, <1>3

LEMMA MoveHeadKeeps ==
    ASSUME CInv, HInv', OnePerSm, NEW w \in Workers, MoveHead(w)
    PROVE  CInv'
  <1> DEFINE t == SmOf[w]
             dirty == ~HasRelease(Op(w).sem)
             b == [buffer[t] EXCEPT !.head = worker[w].token, !.dirty = dirty]
  <1>1. /\ worker[w].pc = "moveHead" /\ UNCHANGED <<vectorClock, shadow, cellLock, known, carried>>
        /\ buffer' = [buffer EXCEPT ![t] = b] /\ Goto(w, "commit")
    BY DEF MoveHead, Running, shadowVars, ghostVars
  <1>2. /\ t \in Threads /\ worker[w] \in RegisterType /\ buffer \in [Threads -> BufferType]
        /\ buffer[t] \in BufferType /\ IInv
        /\ worker[w].op.cells[1] \in Cells
        /\ \A c \in Cells : \A y : y.pc \in InAtomic /\ y.op = worker[w].op /\ Holds(y, c) => cellLock[c] = w
    BY <1>1, AtomicFacts DEF InAtomic
  <1>3. /\ Publishes(worker[w].op)
        /\ worker[w].snapshot = IF HasRelease(worker[w].op.sem) THEN vectorClock[t]
                                ELSE Slot(shadow[worker[w].op.cells[1]].write)
        /\ buffer[t].slots[worker[w].token % ClockBufferSize] = worker[w].snapshot
    BY <1>1 DEF CInv, WorkerFits
  <1>4. worker[w].token = buffer[t].head + 1 /\ buffer[t].head \in Nat
    BY <1>1, <1>2, ConstantsAssumption DEF CInv, HInv, HeadFits, BufferType
  <1>5. b.head = worker[w].token /\ b.dirty = ~HasRelease(worker[w].op.sem) /\ b.slots = buffer[t].slots
    BY <1>2 DEF BufferType, Op
  <1> HIDE DEF b, dirty
  <1>6. /\ \A u \in Threads \ {t} : buffer'[u] = buffer[u]
        /\ buffer'[t] = b
        /\ \A u \in Threads : buffer[u].head =< buffer'[u].head /\ buffer'[u].slots = buffer[u].slots
    <2>1. \A u \in Threads : buffer[u].head \in Nat
      BY <1>2, ConstantsAssumption DEF BufferType
    <2> QED
      BY <1>1, <1>2, <1>4, <1>5, <2>1
  <1>7. /\ worker'[w].pc = "commit" /\ worker'[w].op = worker[w].op /\ worker'[w].token = worker[w].token
        /\ worker'[w].snapshot = worker[w].snapshot /\ \A v \in Workers \ {w} : worker'[v] = worker[v]
    BY <1>1, <1>2, OwnGoto
  <1>8. \A j \in DOMAIN buffer'[t].slots : \A u \in Threads : buffer'[t].slots[j][u] =< vectorClock[u][u]
    BY <1>2, <1>6 DEF CInv, ClocksBounded
  <1>9. \A c \in Cells : shadow[c].write.threadId \in Threads
    BY <1>2, ViewsTyped DEF ScalarClockType
  <1>10. \A c \in ReleasedCells : Slot(shadow[c].write)' = Slot(shadow[c].write)
    <2> TAKE c \in ReleasedCells
    <2>1. shadow'[c].write = shadow[c].write /\ shadow[c].write.threadId \in Threads
      BY <1>1, <1>9 DEF ReleasedCells
    <2> QED
      BY <1>6, <2>1 DEF Slot
  <1>11. WorkerFits(w)'
    <2> DEFINE c == worker[w].op.cells[1]
    <2>1. Publishes(worker[w].op)' <=> Publishes(worker[w].op)
      BY <1>1, <1>7 DEF Publishes
    <2>2. (IF HasRelease(worker[w].op.sem) THEN vectorClock[t] ELSE Slot(shadow[c].write))'
            = IF HasRelease(worker[w].op.sem) THEN vectorClock[t] ELSE Slot(shadow[c].write)
      BY <1>1, <1>2, <1>6, <1>7, <1>9 DEF Slot
    <2>3. \A d \in Cells : Holds(worker'[w], d) => cellLock'[d] = w
      BY <1>1, <1>2, <1>7 DEF InAtomic
    <2>4. worker'[w].token = buffer'[t].head /\ worker'[w].token # 0
      BY <1>4, <1>5, <1>6, <1>7
    <2> QED
      BY <1>2, <1>3, <1>5, <1>6, <1>7, <2>1, <2>2, <2>3, <2>4 DEF WorkerFits
  <1> QED
    BY <1>1, <1>6, <1>7, <1>8, <1>10, <1>11, QuietStep DEF PastEntry, InAccess, InAtomic, WritePCs

-----------------------------------------------------------------------------
(* Steps that change clocks                                                *)

\* The views after a step of thread t.
LEMMA NewViews ==
    ASSUME NEW t \in Threads,
           \A u \in Threads \ {t} : vectorClock'[u] = vectorClock[u] /\ known'[u] = known[u],
           NEW x \in Views'
    PROVE  \/ x = ThreadView'[t]
           \/ \E u \in Threads \ {t} : x = ThreadView[u]
           \/ \E c \in ReleasedCells' : x = CellView'[c]
  <1>1. \A u \in Threads \ {t} : ThreadView'[u] = ThreadView[u]
    BY DEF ThreadView
  <1> QED
    BY <1>1 DEF Views

\* The cells' views after a step that changes no slot.
LEMMA SameSlots ==
    ASSUME IInv, \A u \in Threads : buffer'[u].slots = buffer[u].slots, NEW c \in Cells,
           shadow'[c].write = shadow[c].write
    PROVE  /\ Slot(shadow[c].write)' = Slot(shadow[c].write)
           /\ carried'[c] = carried[c] => CellView'[c] = CellView[c]
           /\ c \in ReleasedCells' <=> c \in ReleasedCells
  <1>1. shadow[c].write.threadId \in Threads
    BY ViewsTyped DEF ScalarClockType
  <1>2. Slot(shadow[c].write)' = Slot(shadow[c].write)
    BY <1>1 DEF Slot
  <1>3. carried'[c] = carried[c] => CellView'[c] = CellView[c]
    BY <1>2 DEF CellView
  <1> QED
    BY <1>2, <1>3 DEF ReleasedCells

\* initThread begins an epoch.
LEMMA StoreEpochKeeps ==
    ASSUME CInv, HInv', OnePerSm, NEW w \in Workers, StoreEpoch(w)
    PROVE  CInv'
  <1> DEFINE t == SmOf[w]
             k == [vectorClock[t] EXCEPT ![t] = vectorClock[t][t] + 1]
  <1>1. worker[w].pc = "storeEpoch" /\ Goto(w, "loadWord") /\ UNCHANGED <<buffer, shadow, cellLock, known, carried>>
        /\ t \in Threads /\ IInv /\ IInv'
    BY ConstantsAssumption DEF StoreEpoch, Running, shadowVars, ghostVars, CInv, HInv
  <1>2. vectorClock' = [vectorClock EXCEPT ![t] = k]
    <2>1. worker[w].epoch = vectorClock[t][t]
      BY <1>1 DEF CInv, WorkerFits
    <2> QED
      BY <2>1 DEF StoreEpoch
  <1>3. \A u, v \in Threads : vectorClock[u][v] \in Nat /\ known[u][v] \in Nat
    BY <1>1, ViewsTyped
  <1>4. /\ \A u \in Threads \ {t} : vectorClock'[u] = vectorClock[u]
        /\ \A u \in Threads : vectorClock'[t][u] = IF u = t THEN vectorClock[t][t] + 1 ELSE vectorClock[t][u]
    <2>1. vectorClock \in [Threads -> ClockType] /\ vectorClock[t] \in ClockType
      BY <1>1 DEF IInv, Typed
    <2> QED
      BY <1>1, <1>2, <2>1 DEF ClockType
  <1>5. \A u \in Threads : vectorClock[u][u] =< vectorClock'[u][u]
    BY <1>3, <1>4
  <1>6. worker'[w].pc = "loadWord" /\ \A v \in Workers \ {w} : worker'[v] = worker[v]
    BY <1>1, OwnGoto
  <1>7. \A v \in Workers : WorkerFits(v)'
    <2>1. WorkerFits(w)'
      BY <1>6, OutsideFits DEF InAtomic
    <2>2. \A c \in ReleasedCells : Slot(shadow[c].write)' = Slot(shadow[c].write)
      BY <1>1 DEF Slot
    <2> QED
      BY <1>1, <1>4, <1>6, <2>1, <2>2, OthersFit
  <1>8. ClocksBounded'
    <2>1. \A u, v \in Threads : vectorClock'[u][v] =< vectorClock'[v][v]
      BY <1>1, <1>3, <1>4, <1>5 DEF CInv, ClocksBounded
    <2>2. \A u, v \in Threads : \A i \in DOMAIN buffer'[u].slots : buffer'[u].slots[i][v] =< vectorClock'[v][v]
      <3> SUFFICES ASSUME NEW u \in Threads, NEW v \in Threads, NEW i \in DOMAIN buffer[u].slots
                   PROVE  buffer[u].slots[i][v] =< vectorClock'[v][v]
        BY <1>1
      <3>1. buffer[u].slots[i] \in ClockType
        <4>1. buffer[u] \in BufferType
          BY <1>1 DEF IInv, Typed
        <4> QED
          BY <4>1 DEF BufferType
      <3>2. buffer[u].slots[i][v] \in Nat
        BY <3>1, ConstantsAssumption DEF ClockType
      <3>3. buffer[u].slots[i][v] =< vectorClock[v][v]
        BY DEF CInv, ClocksBounded
      <3> QED
        BY <1>3, <1>4, <1>5, <3>2, <3>3
    <2> QED
      BY <2>1, <2>2 DEF ClocksBounded
  <1>9. Tokens'
    BY <1>1 DEF CInv, Tokens
  <1>10. /\ ReleasedCells' = ReleasedCells
         /\ \A c \in ReleasedCells : Slot(shadow[c].write)' = Slot(shadow[c].write) /\ CellView'[c] = CellView[c]
    BY <1>1 DEF ReleasedCells, Slot, CellView
  <1>11. \A u \in Threads : /\ u # t /\ InKernel(u)' => InKernel(u)
                            /\ AtWrite(u)' => AtWrite(u)
    <2>1. \A v \in Workers : SmOf[v] = t => v = w
      BY DEF OnePerSm
    <2>2. worker'[w].pc \notin WritePCs
      BY <1>6 DEF WritePCs
    <2> QED
      BY <1>6, <2>1, <2>2 DEF InKernel, AtWrite, WritePCs
  <1>12. NewEpochs'
    <2> SUFFICES ASSUME NEW u \in Threads, InKernel(u)'
                 PROVE  /\ \A v \in Threads \ {u} : vectorClock'[v][u] < vectorClock'[u][u]
                        /\ \A c \in ReleasedCells' : Slot(shadow[c].write)'[u] < vectorClock'[u][u]
      BY DEF NewEpochs
    <2>1. CASE u = t
      <3>1. \A v \in Threads \ {t} : vectorClock'[v][t] < vectorClock'[t][t]
        BY <1>1, <1>3, <1>4 DEF CInv, ClocksBounded
      <3>2. \A c \in ReleasedCells : Slot(shadow[c].write)[t] =< vectorClock[t][t] /\ Slot(shadow[c].write)[t] \in Nat
        BY <1>1, CellsBounded, ViewsTyped DEF CInv, ReleasedCells, ViewType, Counts
      <3> QED
        BY <1>1, <1>3, <1>4, <1>10, <2>1, <3>1, <3>2
    <2>2. CASE u # t
      BY <1>4, <1>10, <1>11, <2>2 DEF CInv, NewEpochs
    <2> QED
      BY <2>1, <2>2
  <1>13. NewCounts'
    BY <1>1, <1>11 DEF CInv, NewCounts
  <1>14. Exact'
    <2>1. Sound(ThreadView'[t])
      <3>1. ThreadView'[t] \in ViewType /\ ThreadView'[t].epochs = k /\ ThreadView'[t].counts = known[t]
        <4>1. vectorClock'[t] \in Counts /\ known'[t] \in Counts /\ vectorClock'[t] = k
          BY <1>1, <1>2, ConstantsAssumption DEF IInv, Typed, ClockType, Counts
        <4> HIDE DEF k
        <4> QED
          BY <1>1, <4>1 DEF ThreadView, ViewType
      <3>2. \A u \in Threads : k[u] = IF u = t THEN vectorClock[t][t] + 1 ELSE vectorClock[t][u]
        BY <1>1 DEF IInv, Typed, ClockType
      <3> HIDE DEF k
      <3>3. ThreadView[t].epochs = vectorClock[t] /\ ThreadView[t].counts = known[t] /\ Sound(ThreadView[t])
        BY <1>1, ViewsTyped, OldIsSound
      <3>4. Advances(ThreadView'[t], ThreadView[t], t)
        BY <1>1, <1>3, <3>1, <3>2, <3>3 DEF Advances
      <3> QED
        BY <1>1, <1>3, <3>1, <3>3, <3>4, AdvanceIsSound
    <2>2. \A x \in Views' : Sound(x)
      <3> TAKE x \in Views'
      <3>1. \/ x = ThreadView'[t]
            \/ \E u \in Threads \ {t} : x = ThreadView[u]
            \/ \E c \in ReleasedCells' : x = CellView'[c]
        BY <1>1, <1>4, NewViews
      <3>2. (\E u \in Threads \ {t} : x = ThreadView[u]) \/ (\E c \in ReleasedCells' : x = CellView'[c]) => x \in Views
        BY <1>10 DEF Views
      <3> QED
        BY <1>1, <2>1, <3>1, <3>2, OldIsSound
    <2>3. \A u \in Threads : vectorClock[u][u] =< vectorClock'[u][u] /\ known[u][u] =< known'[u][u]
      BY <1>1, <1>3, <1>5
    <2> QED
      BY <1>1, <1>10, <2>2, <2>3, ExactStep DEF CInv
  <1> QED
    BY <1>7, <1>8, <1>9, <1>12, <1>13, <1>14 DEF CInv

\* A clock that a thread records for its newest access is exact: no other thread
\* and no cell has seen the thread's epoch or the access.
LEMMA FreshScalar ==
    ASSUME CInv, HInv', NEW t \in Threads, InKernel(t), NEW r, r.threadId = t, r.epoch = vectorClock[t][t],
           r.n \in Nat, known[t][t] < r.n \/ (AtWrite(t) /\ r.n = known[t][t]),
           \A u \in Threads \ {t} : vectorClock'[u] = vectorClock[u] /\ known'[u] = known[u],
           vectorClock[t][t] =< vectorClock'[t][t], r.n =< known'[t][t],
           \A c \in ReleasedCells' : \E d \in ReleasedCells : CellView'[c] = CellView[d]
    PROVE  ScalarExact(r)'
  <1>1. IInv /\ \A u, v \in Threads : vectorClock[u][v] \in Nat /\ known[u][v] \in Nat
    BY ViewsTyped DEF CInv, HInv
  <1>2. vectorClock'[t][t] \in Nat /\ known'[t][t] \in Nat /\ ThreadView'[t].epochs = vectorClock'[t]
        /\ ThreadView'[t].counts = known'[t]
    BY ConstantsAssumption DEF HInv, IInv, Typed, ClockType, Counts, ThreadView
  <1>3. \A u \in Threads \ {t} : ~ (ThreadView[u].epochs[t] >= r.epoch) /\ ~ (ThreadView[u].counts[t] >= r.n)
    <2> TAKE u \in Threads \ {t}
    <2>1. vectorClock[u][t] < vectorClock[t][t] /\ known[u][t] =< known[t][t] /\ (AtWrite(t) => known[u][t] < known[t][t])
      BY <1>1 DEF CInv, NewEpochs, NewCounts, IInv, CountsBounded
    <2>2. known[u][t] < r.n
      BY <1>1, <2>1
    <2> QED
      BY <1>1, <2>1, <2>2, ViewsTyped
  <1>4. \A d \in ReleasedCells : ~ (CellView[d].epochs[t] >= r.epoch) /\ ~ (CellView[d].counts[t] >= r.n)
    <2> TAKE d \in ReleasedCells
    <2>1. d \in Cells /\ CellView[d] \in ViewType /\ CellView[d].epochs = Slot(shadow[d].write) /\ CellView[d].counts = carried[d]
      BY <1>1, ViewsTyped DEF ReleasedCells
    <2>2. CellView[d].epochs[t] \in Nat /\ CellView[d].counts[t] \in Nat
      BY <2>1 DEF ViewType, Counts
    <2>3. CellView[d].epochs[t] < vectorClock[t][t]
      BY <2>1 DEF CInv, NewEpochs
    <2>4. CellView[d].counts[t] =< known[t][t] /\ (AtWrite(t) => CellView[d].counts[t] < known[t][t])
      BY <1>1, <2>1 DEF CInv, NewCounts, IInv, CountsBounded
    <2> QED
      BY <1>1, <2>2, <2>3, <2>4
  <1>5. ASSUME NEW x \in Views' PROVE ScalarFits(x, r)
    <2>1. CASE x = ThreadView'[t]
      <3>1. x.epochs[t] >= r.epoch /\ x.counts[t] >= r.n
        BY <1>1, <1>2, <2>1
      <3> QED
        BY <3>1 DEF ScalarFits
    <2>2. CASE \E u \in Threads \ {t} : x = ThreadView[u]
      BY <1>3, <2>2 DEF ScalarFits
    <2>3. CASE \E c \in ReleasedCells' : x = CellView'[c]
      BY <1>4, <2>3 DEF ScalarFits
    <2> QED
      BY <2>1, <2>2, <2>3, NewViews
  <1>6. r.epoch =< vectorClock'[t][t] /\ r.n =< known'[t][t]
    OBVIOUS
  <1> QED
    BY <1>5, <1>6 DEF ScalarExact, ScalarFits

\* The access of a worker to a cell, which it reads or writes.
LEMMA PlainAccessKeeps ==
    ASSUME CInv, HInv', OnePerSm, NEW w \in Workers, worker[w].pc = "access",
           CountAccess(SmOf[w]), ReleaseShadow(w), UNCHANGED <<vectorClock, buffer, lock, program>>,
           NEW c, c = CurrentCell(w), NEW r, r = ScalarClock(SmOf[w], "nonatomic", NextAccess(SmOf[w])),
           \A d \in Cells \ {c} : shadow'[d] = shadow[d] /\ carried'[d] = carried[d],
           \A i \in ReadSlots : shadow'[c].reads[i] \in {shadow[c].reads[i], r},
           \/ shadow'[c].write = shadow[c].write /\ carried'[c] = carried[c]
           \/ shadow'[c].write = r /\ carried'[c] = NoClock
    PROVE  CInv'
  <1> DEFINE t == SmOf[w]
  <1>1. /\ t \in Threads /\ IInv /\ IInv' /\ worker[w] \in RegisterType /\ buffer[t].dirty
        /\ worker[w].op.kind \in PlainKinds
        /\ \A d \in Cells : Holds(worker[w], d) => cellLock[d] = w
    BY AccessFacts DEF InAccess, RegistersFit, HInv
  <1>2. c \in Cells /\ cellLock[c] = w
    <2>1. c \in Cells
      BY <1>1, ReleaseShadowStep
    <2> QED
      BY <1>1, <2>1 DEF Holds, CurrentCell, Op
  <1>3. \A d \in Cells : cellLock'[d] = IF d = c THEN NoWorker ELSE cellLock[d]
    BY <1>1, <1>2 DEF ReleaseShadow, IInv, Typed
  <1>4. InKernel(t)
    BY DEF InKernel, PastEntry, InAccess
  <1>5. \A u, v \in Threads : vectorClock[u][v] \in Nat /\ known[u][v] \in Nat
    BY <1>1, ViewsTyped
  <1>6. /\ \A u \in Threads \ {t} : known'[u] = known[u]
        /\ \A u \in Threads : known'[t][u] = IF u = t THEN known[t][t] + 1 ELSE known[t][u]
    BY <1>1 DEF CountAccess, IInv, Typed, Counts
  <1>7. /\ r.threadId = t /\ r.epoch = vectorClock[t][t] /\ ~r.isRelease /\ ~r.propagated
        /\ r.n = known[t][t] + 1 /\ r.epoch # 0
    BY <1>1 DEF ScalarClock, NextAccess, IInv, Entered, PastEntry, InAccess
  <1>8. /\ worker'[w].pc = "range" /\ worker'[w].op = worker[w].op /\ \A v \in Workers \ {w} : worker'[v] = worker[v]
    <2> DEFINE idx == worker[w].idx + 1
               x == [worker[w] EXCEPT !.pc = "range", !.idx = idx]
    <2>1. worker' = [worker EXCEPT ![w] = x]
      BY DEF ReleaseShadow
    <2>2. x.pc = "range" /\ x.op = worker[w].op
      BY <1>1 DEF RegisterType
    <2> HIDE DEF x
    <2> QED
      BY <1>1, <2>1, <2>2, OwnRegisters
  <1>9. \A d \in Cells \ {c} : shadow'[d].write = shadow[d].write /\ carried'[d] = carried[d]
    OBVIOUS
  <1>10. \A d \in ReleasedCells' : /\ d \in ReleasedCells /\ shadow'[d].write = shadow[d].write
                                   /\ carried'[d] = carried[d] /\ CellView'[d] = CellView[d]
                                   /\ Slot(shadow[d].write)' = Slot(shadow[d].write)
    <2> TAKE d \in ReleasedCells'
    <2>1. d \in Cells /\ shadow'[d].write.isRelease
      BY DEF ReleasedCells
    <2>2. shadow'[d].write = shadow[d].write /\ carried'[d] = carried[d]
      BY <1>7, <2>1
    <2> QED
      BY <1>1, <2>1, <2>2, SameSlots
  <1>11. \A v \in Workers : WorkerFits(v)'
    <2>1. \A d : ~Holds(worker'[w], d)
      BY <1>1, <1>8 DEF Holds, PlainKinds, AtomicKinds, InAtomic
    <2>2. WorkerFits(w)'
      BY <1>1, <1>8, <2>1 DEF WorkerFits
    <2>3. \A d \in Cells : cellLock'[d] = cellLock[d] \/ cellLock[d] \in {NoWorker, w}
      BY <1>2, <1>3
    <2>4. \A d \in Cells : cellLock[d] # w => shadow'[d].write = shadow[d].write
      BY <1>2, <1>9
    <2>5. \A d \in ReleasedCells : cellLock[d] # w => Slot(shadow[d].write)' = Slot(shadow[d].write)
      BY <1>1, <2>4, SameSlots DEF ReleasedCells
    <2> QED
      BY <1>8, <2>2, <2>3, <2>4, <2>5, OthersFit
  <1>12. ClocksBounded'
    BY DEF CInv, ClocksBounded
  <1>13. Tokens'
    <2> SUFFICES ASSUME NEW d \in Cells
                 PROVE  /\ \A i \in ReadSlots : ~shadow'[d].reads[i].isRelease /\ ~shadow'[d].reads[i].propagated
                        /\ shadow'[d].write.propagated => shadow'[d].write.isRelease
                        /\ shadow'[d].write.isRelease
                             => shadow'[d].write.epoch # 0
                                /\ shadow'[d].write.epoch =< buffer[shadow'[d].write.threadId].head
      BY DEF Tokens
    <2>1. /\ \A i \in ReadSlots : ~shadow[d].reads[i].isRelease /\ ~shadow[d].reads[i].propagated
          /\ shadow[d].write.propagated => shadow[d].write.isRelease
          /\ shadow[d].write.isRelease
               => shadow[d].write.epoch # 0 /\ shadow[d].write.epoch =< buffer[shadow[d].write.threadId].head
      BY DEF CInv, Tokens
    <2>2. /\ \A i \in ReadSlots : shadow'[d].reads[i] \in {shadow[d].reads[i], r}
          /\ shadow'[d].write \in {shadow[d].write, r}
      BY <1>2
    <2> QED
      BY <1>7, <2>1, <2>2
  <1>14. \A u \in Threads : /\ InKernel(u)' => InKernel(u)
                            /\ AtWrite(u)' => AtWrite(u) /\ u # t
    <2>1. \A v \in Workers : SmOf[v] = t => v = w
      BY DEF OnePerSm
    <2>2. worker[w].pc \in PastEntry /\ worker'[w].pc \notin WritePCs
      BY <1>8 DEF WritePCs, PastEntry, InAccess
    <2> QED
      BY <1>8, <2>1, <2>2 DEF InKernel, AtWrite, WritePCs
  <1>15. NewEpochs'
    BY <1>10, <1>14 DEF CInv, NewEpochs
  <1>16. NewCounts'
    <2> SUFFICES ASSUME NEW u \in Threads \ {t}, AtWrite(u)
                 PROVE  /\ \A v \in Threads \ {u} : known'[v][u] < known'[u][u]
                        /\ \A d \in Cells : carried'[d][u] < known'[u][u]
      BY <1>14 DEF NewCounts
    <2>1. \A v \in Threads \ {u} : known[v][u] < known[u][u]
      BY DEF CInv, NewCounts
    <2>2. \A d \in Cells : carried[d][u] < known[u][u]
      BY DEF CInv, NewCounts
    <2>3. 0 < known[u][u]
      BY <1>1, <1>5, <2>1
    <2>4. \A d \in Cells : carried'[d] = carried[d] \/ carried'[d][u] = 0
      BY DEF NoClock
    <2> QED
      BY <1>1, <1>6, <2>1, <2>2, <2>3, <2>4
  <1>17. Exact'
    <2>1. Sound(ThreadView'[t])
      <3>1. /\ ThreadView'[t] \in ViewType /\ ThreadView'[t].epochs = vectorClock[t]
            /\ ThreadView'[t].counts = known'[t]
        <4>1. vectorClock[t] \in Counts /\ known'[t] \in Counts
          BY <1>1, ConstantsAssumption DEF IInv, Typed, ClockType, Counts
        <4> QED
          BY <1>1, <4>1 DEF ThreadView, ViewType
      <3>2. ThreadView[t].epochs = vectorClock[t] /\ ThreadView[t].counts = known[t] /\ Sound(ThreadView[t])
        BY <1>1, ViewsTyped, OldIsSound
      <3>3. Advances(ThreadView'[t], ThreadView[t], t)
        BY <1>1, <1>5, <1>6, <3>1, <3>2 DEF Advances
      <3> QED
        BY <1>1, <1>5, <3>1, <3>2, <3>3, AdvanceIsSound
    <2>2. \A x \in Views' : Sound(x)
      <3> TAKE x \in Views'
      <3>1. \/ x = ThreadView'[t]
            \/ \E u \in Threads \ {t} : x = ThreadView[u]
            \/ \E d \in ReleasedCells' : x = CellView'[d]
        BY <1>1, <1>6, NewViews
      <3>2. (\E u \in Threads \ {t} : x = ThreadView[u]) \/ (\E d \in ReleasedCells' : x = CellView'[d]) => x \in Views
        BY <1>10 DEF Views
      <3> QED
        BY <1>1, <2>1, <3>1, <3>2, OldIsSound
    <2>3. \A u \in Threads : vectorClock[u][u] =< vectorClock'[u][u] /\ known[u][u] =< known'[u][u]
      BY <1>1, <1>5, <1>6
    <2>4. ScalarExact(r)'
      <3>1. r.n \in Nat /\ known[t][t] < r.n /\ r.n =< known'[t][t] /\ vectorClock[t][t] =< vectorClock'[t][t]
        BY <1>1, <1>5, <1>6, <1>7
      <3> QED
        BY <1>1, <1>4, <1>6, <1>7, <1>10, <3>1, FreshScalar
    <2>5. \A d \in Cells : \A s \in Scalars(shadow'[d]) : s \in Scalars(shadow[d]) \/ ScalarExact(s)'
      <3> SUFFICES ASSUME NEW d \in Cells, NEW s \in Scalars(shadow'[d]), s # r
                   PROVE  s \in Scalars(shadow[d])
        BY <2>4
      <3>1. /\ \A i \in ReadSlots : shadow'[d].reads[i] \in {shadow[d].reads[i], r}
            /\ shadow'[d].write \in {shadow[d].write, r}
        BY <1>2
      <3> QED
        BY <3>1 DEF Scalars
    <2> QED
      BY <1>1, <1>10, <2>2, <2>3, <2>5, ExactStep DEF CInv
  <1> QED
    BY <1>11, <1>12, <1>13, <1>15, <1>16, <1>17 DEF CInv

LEMMA DoReadKeeps ==
    ASSUME CInv, HInv', OnePerSm, NEW w \in Workers, DoRead(w)
    PROVE  CInv'
  <1> DEFINE t == SmOf[w]
             c == CurrentCell(w)
             r == ScalarClock(t, "nonatomic", NextAccess(t))
  <1>1. worker[w].pc = "access"
    BY DEF DoRead, Running
  <1>2. CASE Failures(ReadChecks(t, "nonatomic", c)) # {}
    <2>1. UNCHANGED <<vectorClock, buffer, shadow, cellLock, worker, known, carried>>
      BY <1>2 DEF DoRead, StopAtFirst, Stop, threadVars, shadowVars, ghostVars
    <2> QED
      BY <2>1, StopKeeps
  <1>3. CASE ~ (Failures(ReadChecks(t, "nonatomic", c)) # {})
    <2>1. PICK slot \in ReadSlotChoices(t, c) : shadow' = [shadow EXCEPT ![c] = RecordRead(shadow[c], slot, r)]
      BY <1>3 DEF DoRead
    <2>2. CountAccess(t) /\ ReleaseShadow(w) /\ UNCHANGED <<vectorClock, buffer, lock, program, carried>>
      BY <1>3 DEF DoRead, threadVars, runVars
    <2>3. c \in Cells /\ t \in Threads /\ IInv /\ shadow \in [Cells -> CellType]
      BY <1>1, <2>2, ReleaseShadowStep, ConstantsAssumption DEF CInv, HInv, IInv, Typed
    <2>4. r \in ScalarClockType /\ r.threadId = t /\ r.epoch # 0
      <3>1. NextAccess(t) \in Nat
        BY <2>2, <2>3, CountAccessStep
      <3>2. r \in ScalarClockType /\ r.threadId = t /\ r.epoch = vectorClock[t][t]
        BY <2>3, <3>1, ScalarClockTyped DEF Scopes, IInv
      <3> QED
        BY <1>1, <3>2, <2>3 DEF IInv, Entered, PastEntry, InAccess
    <2> HIDE DEF r, c
    <2>5. /\ RecordRead(shadow[c], slot, r).write = shadow[c].write
          /\ \A i \in ReadSlots : \/ RecordRead(shadow[c], slot, r).reads[i] = shadow[c].reads[i]
                                  \/ RecordRead(shadow[c], slot, r).reads[i] = r
      BY <2>1, <2>3, <2>4, RecordedReads DEF IInv
    <2>6. /\ \A d \in Cells \ {c} : shadow'[d] = shadow[d] /\ carried'[d] = carried[d]
          /\ \A i \in ReadSlots : shadow'[c].reads[i] \in {shadow[c].reads[i], r}
          /\ shadow'[c].write = shadow[c].write /\ carried'[c] = carried[c]
      BY <2>1, <2>2, <2>3, <2>5
    <2> QED
      BY <1>1, <2>2, <2>6, PlainAccessKeeps DEF r, c
  <1> QED
    BY <1>2, <1>3

LEMMA DoWriteKeeps ==
    ASSUME CInv, HInv', OnePerSm, NEW w \in Workers, DoWrite(w)
    PROVE  CInv'
  <1> DEFINE t == SmOf[w]
             c == CurrentCell(w)
             r == ScalarClock(t, "nonatomic", NextAccess(t))
  <1>1. worker[w].pc = "access"
    BY DEF DoWrite, Running
  <1>2. CASE Failures(WriteChecks(t, "nonatomic", c)) # {}
    <2>1. UNCHANGED <<vectorClock, buffer, shadow, cellLock, worker, known, carried>>
      BY <1>2 DEF DoWrite, StopAtFirst, Stop, threadVars, shadowVars, ghostVars
    <2> QED
      BY <2>1, StopKeeps
  <1>3. CASE ~ (Failures(WriteChecks(t, "nonatomic", c)) # {})
    <2> DEFINE cell == [shadow[c] EXCEPT !.write = r]
    <2>1. /\ shadow' = [shadow EXCEPT ![c] = cell] /\ carried' = [carried EXCEPT ![c] = NoClock]
          /\ CountAccess(t) /\ ReleaseShadow(w) /\ UNCHANGED <<vectorClock, buffer, lock, program>>
      BY <1>3 DEF DoWrite, threadVars, runVars
    <2>2. c \in Cells /\ shadow \in [Cells -> CellType] /\ carried \in [Cells -> Counts]
      BY <1>1, <2>1, ReleaseShadowStep DEF CInv, HInv, IInv, Typed
    <2> HIDE DEF r, c
    <2>3. cell.write = r /\ cell.reads = shadow[c].reads
      BY <2>2 DEF CellType
    <2> HIDE DEF cell
    <2>4. /\ \A d \in Cells \ {c} : shadow'[d] = shadow[d] /\ carried'[d] = carried[d]
          /\ \A i \in ReadSlots : shadow'[c].reads[i] \in {shadow[c].reads[i], r}
          /\ shadow'[c].write = r /\ carried'[c] = NoClock
      BY <2>1, <2>2, <2>3
    <2> QED
      BY <1>1, <2>1, <2>4, PlainAccessKeeps DEF r, c
  <1> QED
    BY <1>2, <1>3

\* beginAtomicAccess joins the clocks of the writes it synchronises with and
\* makes the thread's next access.
LEMMA BeginAtomicKeeps ==
    ASSUME CInv, HInv', OnePerSm, NEW w \in Workers, BeginAtomic(w)
    PROVE  CInv'
  <1> DEFINE t == SmOf[w]
             op == Op(w)
             checks == BeginChecks(t, op)
             S == Synchronizing(t, op)
             joined == Maximum({vectorClock[t]} \cup {Slot(shadow[c].write) : c \in S})
             learnt == Maximum({known[t]} \cup {carried[c] : c \in S})
             n == NextAccess(t)
             r == ScalarClock(t, op.scope, n)
             k == [learnt EXCEPT ![t] = n]
             dirty == buffer[t].dirty \/ joined # vectorClock[t]
             b == [buffer[t] EXCEPT !.dirty = dirty]
  <1>1. worker[w].pc = "begin" /\ op = worker[w].op
    BY DEF BeginAtomic, Running, Op
  <1>2. CASE Failures(checks) # {}
    <2>1. UNCHANGED <<vectorClock, buffer, shadow, cellLock, worker, known, carried>>
      BY <1>2 DEF BeginAtomic, StopAtFirst, Stop, threadVars, shadowVars, ghostVars
    <2> QED
      BY <2>1, StopKeeps
  <1>3. CASE ~ (Failures(checks) # {})
    <2>1. /\ \E slot \in [CellsOf(op) -> UNION {ReadSlotChoices(t, c) : c \in CellsOf(op)}] :
                /\ \A c \in CellsOf(op) : slot[c] \in ReadSlotChoices(t, c)
                /\ shadow' = [c \in Cells |-> IF c \in CellsOf(op)
                                              THEN RecordRead(shadow[c], slot[c], r) ELSE shadow[c]]
          /\ vectorClock' = [vectorClock EXCEPT ![t] = joined]
          /\ buffer' = [buffer EXCEPT ![t] = b]
          /\ known' = [known EXCEPT ![t] = k]
          /\ Goto(w, "end")
          /\ UNCHANGED <<cellLock, carried>>
      BY <1>3 DEF BeginAtomic
    <2>2. /\ op \in program.operations /\ CellsOf(op) \subseteq Cells
          /\ joined \in ClockType /\ learnt \in Counts /\ S \subseteq CellsOf(op)
          /\ \A u \in Threads :
               /\ \/ joined[u] = vectorClock[t][u]
                  \/ \E c \in S : joined[u] = Slot(shadow[c].write)[u]
               /\ vectorClock[t][u] =< joined[u]
               /\ \A c \in S : Slot(shadow[c].write)[u] =< joined[u]
               /\ learnt[u] = known[t][u] \/ \E c \in S : learnt[u] = carried[c][u]
               /\ known[t][u] =< learnt[u]
               /\ \A c \in S : carried[c][u] =< learnt[u]
      BY <1>1, JoinedClocks DEF CInv, HInv
    <2>3. /\ t \in Threads /\ IInv /\ Typed /\ IInv' /\ buffer \in [Threads -> BufferType]
          /\ buffer[t] \in BufferType /\ buffer[t].dirty
          /\ vectorClock \in [Threads -> ClockType] /\ known \in [Threads -> Counts]
          /\ \A c \in Cells : \A x : x.pc \in InAtomic /\ x.op = op /\ Holds(x, c) => cellLock[c] = w
      BY <1>1, AtomicFacts, AccessFacts DEF InAtomic, InAccess, HInv, Typed
    <2>4. S \subseteq ReleasedCells
      BY <2>2 DEF Synchronizing, SynchronizesWith, ReleasedCells
    <2>5. InKernel(t)
      BY <1>1 DEF InKernel, PastEntry, InAccess, InAtomic
    <2>6. \A u, v \in Threads : vectorClock[u][v] \in Nat /\ known[u][v] \in Nat
      BY <2>3, ViewsTyped
    <2>7. \A u \in Threads : joined[u] \in Nat /\ learnt[u] \in Nat
      BY <2>2, ConstantsAssumption DEF ClockType, Counts
    <2>8. n = known[t][t] + 1 /\ n \in Nat
      BY <2>3, <2>6 DEF NextAccess
    <2>9. /\ r \in ScalarClockType /\ r.threadId = t /\ r.epoch = vectorClock[t][t] /\ r.epoch # 0
          /\ ~r.isRelease /\ ~r.propagated /\ r.n = n
      <3>1. r \in ScalarClockType /\ r.threadId = t /\ r.epoch = vectorClock[t][t]
        BY <2>2, <2>3, <2>8, ScalarClockTyped, Operations
      <3>2. vectorClock[t][t] # 0
        BY <1>1, <2>3 DEF IInv, Entered, PastEntry, InAccess, InAtomic
      <3> QED
        BY <3>1, <3>2 DEF ScalarClock
    <2>10. PICK slot \in [CellsOf(op) -> UNION {ReadSlotChoices(t, c) : c \in CellsOf(op)}] :
                /\ \A c \in CellsOf(op) : slot[c] \in ReadSlotChoices(t, c)
                /\ shadow' = [c \in Cells |-> IF c \in CellsOf(op)
                                              THEN RecordRead(shadow[c], slot[c], r) ELSE shadow[c]]
      BY <2>1
    <2>11. buffer'[t].dirty /\ \A u \in Threads : buffer'[u].slots = buffer[u].slots /\ buffer'[u].head = buffer[u].head
      <3>1. b.head = buffer[t].head /\ b.slots = buffer[t].slots /\ b.dirty = dirty
        BY <2>3 DEF BufferType
      <3>2. dirty
        BY <2>3
      <3> HIDE DEF b, dirty
      <3> QED
        BY <2>1, <2>3, <3>1, <3>2
    <2>12. \A u \in Threads \ {t} : buffer'[u] = buffer[u] /\ vectorClock'[u] = vectorClock[u] /\ known'[u] = known[u]
      BY <2>1, <2>3
    <2> HIDE DEF joined, learnt, checks, op, S, r, n
    <2>13. vectorClock'[t] = joined /\ known'[t] = k
           /\ \A u \in Threads : k[u] = IF u = t THEN n ELSE learnt[u]
      BY <2>1, <2>2, <2>3 DEF Counts
    <2>14. \A c \in Cells : /\ shadow'[c].write = shadow[c].write
                            /\ \A i \in ReadSlots : shadow'[c].reads[i] \in {shadow[c].reads[i], r}
      <3> TAKE c \in Cells
      <3>1. CASE c \in CellsOf(op)
        <4> DEFINE i == slot[c]
        <4>1. i \in ReadSlotChoices(t, c) /\ shadow'[c] = RecordRead(shadow[c], i, r)
          BY <2>10, <3>1
        <4> HIDE DEF i
        <4> QED
          BY <2>3, <2>9, <4>1, RecordedReads DEF IInv
      <3>2. CASE c \notin CellsOf(op)
        BY <2>10, <3>2
      <3> QED
        BY <3>1, <3>2
    <2> HIDE DEF k, b, dirty
    <2>15. worker'[w].pc = "end" /\ worker'[w].op = worker[w].op /\ \A v \in Workers \ {w} : worker'[v] = worker[v]
      BY <2>1, <2>3, OwnGoto
    <2>16. /\ ReleasedCells' = ReleasedCells
           /\ \A c \in ReleasedCells : Slot(shadow[c].write)' = Slot(shadow[c].write) /\ CellView'[c] = CellView[c]
      <3>1. \A c \in Cells : c \in ReleasedCells' <=> c \in ReleasedCells
        BY <2>14 DEF ReleasedCells
      <3>2. ReleasedCells' \subseteq Cells /\ ReleasedCells \subseteq Cells
        BY DEF ReleasedCells
      <3>3. \A c \in ReleasedCells : Slot(shadow[c].write)' = Slot(shadow[c].write) /\ CellView'[c] = CellView[c]
        BY <2>1, <2>3, <2>11, <2>14, <3>2, SameSlots
      <3> QED
        BY <3>1, <3>2, <3>3
    <2>17. \A v \in Workers : WorkerFits(v)'
      <3>1. \A c \in Cells : Holds(worker'[w], c) => cellLock'[c] = w
        BY <1>1, <2>1, <2>3, <2>15 DEF InAtomic
      <3>2. WorkerFits(w)'
        BY <2>11, <2>15, <3>1 DEF WorkerFits
      <3> QED
        BY <2>1, <2>12, <2>14, <2>15, <2>16, <3>2, OthersFit
    <2>18. \A u \in Threads : vectorClock[u][u] =< vectorClock'[u][u] /\ known[u][u] =< known'[u][u]
      BY <2>2, <2>3, <2>6, <2>7, <2>8, <2>12, <2>13
    <2>19. \A u \in Threads : joined[u] =< vectorClock'[u][u]
      <3> TAKE u \in Threads
      <3>1. CASE u = t
        BY <2>7, <2>13, <3>1
      <3>2. CASE u # t
        <4>1. \A c \in S : Slot(shadow[c].write)[u] =< vectorClock[u][u]
          BY <2>2, <2>3, CellsBounded DEF CInv
        <4>2. vectorClock[t][u] =< vectorClock[u][u]
          BY <2>3 DEF CInv, ClocksBounded
        <4> QED
          BY <2>2, <2>12, <3>2, <4>1, <4>2
      <3> QED
        BY <3>1, <3>2
    <2>20. ClocksBounded'
      <3>1. \A u, v \in Threads : vectorClock'[u][v] =< vectorClock'[v][v]
        <4> TAKE u, v \in Threads
        <4>1. CASE u = t
          BY <2>13, <2>19, <4>1
        <4>2. CASE u # t
          <5>1. vectorClock'[u][v] = vectorClock[u][v] /\ vectorClock[u][v] =< vectorClock[v][v]
            BY <2>12, <4>2 DEF CInv, ClocksBounded
          <5>2. vectorClock'[v][v] \in Nat
            BY <2>7, <2>12, <2>13, <2>6
          <5> QED
            BY <2>6, <2>18, <5>1, <5>2
        <4> QED
          BY <4>1, <4>2
      <3>2. \A u, v \in Threads : \A i \in DOMAIN buffer'[u].slots : buffer'[u].slots[i][v] =< vectorClock'[v][v]
        <4> SUFFICES ASSUME NEW u \in Threads, NEW v \in Threads, NEW i \in DOMAIN buffer[u].slots
                     PROVE  buffer[u].slots[i][v] =< vectorClock'[v][v]
          BY <2>11
        <4>1. buffer[u].slots[i] \in ClockType
          <5>1. buffer[u] \in BufferType
            BY <2>3
          <5> QED
            BY <5>1 DEF BufferType
        <4>2. buffer[u].slots[i][v] \in Nat
          BY <4>1, ConstantsAssumption DEF ClockType
        <4>3. buffer[u].slots[i][v] =< vectorClock[v][v]
          BY DEF CInv, ClocksBounded
        <4>4. vectorClock'[v][v] \in Nat
          BY <2>7, <2>12, <2>13, <2>6
        <4> QED
          BY <2>6, <2>18, <4>2, <4>3, <4>4
      <3> QED
        BY <3>1, <3>2 DEF ClocksBounded
    <2>21. Tokens'
      <3> SUFFICES ASSUME NEW c \in Cells
                   PROVE  /\ \A i \in ReadSlots : ~shadow'[c].reads[i].isRelease /\ ~shadow'[c].reads[i].propagated
                          /\ shadow'[c].write.propagated => shadow'[c].write.isRelease
                          /\ shadow'[c].write.isRelease
                               => shadow'[c].write.epoch # 0
                                  /\ shadow'[c].write.epoch =< buffer'[shadow'[c].write.threadId].head
        BY DEF Tokens
      <3>1. /\ \A i \in ReadSlots : ~shadow[c].reads[i].isRelease /\ ~shadow[c].reads[i].propagated
            /\ shadow[c].write.propagated => shadow[c].write.isRelease
            /\ shadow[c].write.isRelease
                 => shadow[c].write.epoch # 0 /\ shadow[c].write.epoch =< buffer[shadow[c].write.threadId].head
        BY DEF CInv, Tokens
      <3>2. shadow[c].write.threadId \in Threads
        BY <2>3, ViewsTyped DEF ScalarClockType
      <3> QED
        BY <2>9, <2>11, <2>14, <3>1, <3>2
    <2>22. \A u \in Threads : /\ InKernel(u)' => InKernel(u)
                              /\ u # t /\ AtWrite(u)' => AtWrite(u)
      <3>1. \A v \in Workers : SmOf[v] = t => v = w
        BY DEF OnePerSm
      <3>2. worker[w].pc \in PastEntry
        BY <1>1 DEF PastEntry, InAccess, InAtomic
      <3> QED
        BY <2>15, <3>1, <3>2 DEF InKernel, AtWrite
    <2>23. NewEpochs'
      <3> SUFFICES ASSUME NEW u \in Threads, InKernel(u)
                   PROVE  /\ \A v \in Threads \ {u} : vectorClock'[v][u] < vectorClock'[u][u]
                          /\ \A c \in ReleasedCells : Slot(shadow[c].write)[u] < vectorClock'[u][u]
        BY <2>16, <2>22 DEF NewEpochs
      <3>1. /\ \A v \in Threads \ {u} : vectorClock[v][u] < vectorClock[u][u]
            /\ \A c \in ReleasedCells : Slot(shadow[c].write)[u] < vectorClock[u][u]
        BY DEF CInv, NewEpochs
      <3>2. CASE u = t
        <4>1. vectorClock[t][t] =< vectorClock'[t][t] /\ vectorClock'[t][t] \in Nat
          BY <2>7, <2>13, <2>18, <3>2
        <4>2. \A c \in ReleasedCells : Slot(shadow[c].write)[t] \in Nat
          BY <2>3, <3>2, ViewsTyped DEF ReleasedCells, ViewType, Counts
        <4> QED
          BY <2>6, <2>12, <3>1, <3>2, <4>1, <4>2
      <3>3. CASE u # t
        <4>1. joined[u] < vectorClock[u][u]
          BY <2>2, <2>3, <2>4, <3>1, <3>3
        <4> QED
          BY <2>12, <2>13, <3>1, <3>3, <4>1
      <3> QED
        BY <3>2, <3>3
    <2>24. NewCounts'
      <3> SUFFICES ASSUME NEW u \in Threads, AtWrite(u)'
                   PROVE  /\ \A v \in Threads \ {u} : known'[v][u] < known'[u][u]
                          /\ \A c \in Cells : carried[c][u] < known'[u][u]
        BY <2>1 DEF NewCounts
      <3>1. CASE u = t
        <4>1. /\ \A v \in Threads : known[v][t] =< known[t][t]
              /\ \A c \in Cells : carried[c][t] =< known[t][t] /\ carried[c][t] \in Nat
          BY <2>3 DEF IInv, CountsBounded, Typed, Counts
        <4> QED
          BY <2>3, <2>6, <2>8, <2>12, <2>13, <3>1, <4>1
      <3>2. CASE u # t
        <4>1. /\ \A v \in Threads \ {u} : known[v][u] < known[u][u]
              /\ \A c \in Cells : carried[c][u] < known[u][u]
          BY <2>22, <3>2 DEF CInv, NewCounts
        <4>2. learnt[u] < known[u][u]
          BY <2>2, <2>3, <3>2, <4>1
        <4> QED
          BY <2>12, <2>13, <3>2, <4>1, <4>2
      <3> QED
        BY <3>1, <3>2
    <2>25. Sound(ThreadView'[t])
      <3> DEFINE A == {ThreadView[t]} \cup {CellView[c] : c \in S}
                 y == [epochs |-> joined, counts |-> learnt]
                 x == ThreadView'[t]
      <3>1. y \in ViewType /\ y.epochs = joined /\ y.counts = learnt
        BY <2>2, <2>7 DEF ViewType, Counts, ClockType
      <3>2. A \in SUBSET Views
        BY <2>3, <2>4 DEF Views
      <3>3. /\ ThreadView[t] \in A /\ ThreadView[t].epochs = vectorClock[t] /\ ThreadView[t].counts = known[t]
            /\ \A c \in S : CellView[c] \in A /\ CellView[c].epochs = Slot(shadow[c].write)
                            /\ CellView[c].counts = carried[c]
            /\ \A z \in A : z = ThreadView[t] \/ \E c \in S : z = CellView[c]
        BY <2>2, <2>3, ViewsTyped
      <3> HIDE DEF y, A
      <3>4. IsJoin(y, A)
        <4> SUFFICES ASSUME NEW v \in Threads
                     PROVE  /\ \E z \in A : y.epochs[v] = z.epochs[v]
                            /\ \E z \in A : y.counts[v] = z.counts[v]
                            /\ \A z \in A : z.epochs[v] =< y.epochs[v] /\ z.counts[v] =< y.counts[v]
          BY DEF IsJoin
        <4>1. \E z \in A : y.epochs[v] = z.epochs[v]
          BY <2>2, <3>1, <3>3
        <4>2. \E z \in A : y.counts[v] = z.counts[v]
          BY <2>2, <3>1, <3>3
        <4>3. \A z \in A : z.epochs[v] =< y.epochs[v] /\ z.counts[v] =< y.counts[v]
          BY <2>2, <3>1, <3>3
        <4> QED
          BY <4>1, <4>2, <4>3
      <3>5. Sound(y)
        BY <2>3, <3>1, <3>2, <3>4, JoinIsSound
      <3>6. x \in ViewType /\ x.epochs = joined /\ x.counts = k
        <4>1. joined \in Counts /\ k \in Counts
          <5>1. known' \in [Threads -> Counts]
            BY <2>3 DEF IInv, Typed
          <5> QED
            BY <2>2, <2>3, <2>7, <2>13, <5>1 DEF Counts, ClockType
        <4> QED
          BY <2>3, <2>13, <4>1 DEF ThreadView, ViewType
      <3> HIDE DEF x
      <3>7. known[t][t] =< learnt[t] /\ vectorClock[t][t] =< joined[t] /\ learnt[t] =< known[t][t]
        <4>1. \A c \in S : carried[c][t] =< known[t][t]
          BY <2>2, <2>3 DEF IInv, CountsBounded
        <4> QED
          BY <2>2, <2>3, <2>6, <4>1
      <3>8. Advances(x, y, t)
        BY <2>3, <2>6, <2>7, <2>8, <2>13, <3>1, <3>6, <3>7 DEF Advances
      <3>9. Sound(x)
        BY <2>3, <2>6, <2>7, <3>1, <3>5, <3>6, <3>7, <3>8, AdvanceIsSound
      <3> QED
        BY <3>9 DEF x
    <2>26. Exact'
      <3>1. \A x \in Views' : Sound(x)
        <4> TAKE x \in Views'
        <4>1. \/ x = ThreadView'[t]
              \/ \E u \in Threads \ {t} : x = ThreadView[u]
              \/ \E c \in ReleasedCells' : x = CellView'[c]
          BY <2>3, <2>12, NewViews
        <4>2. (\E u \in Threads \ {t} : x = ThreadView[u]) \/ (\E c \in ReleasedCells' : x = CellView'[c]) => x \in Views
          BY <2>16 DEF Views
        <4> QED
          BY <2>3, <2>25, <4>1, <4>2, OldIsSound
      <3> PICK s : s = r
        OBVIOUS
      <3>2. ScalarExact(s)'
        <4>1. /\ s.threadId = t /\ s.epoch = vectorClock[t][t] /\ s.n \in Nat /\ known[t][t] < s.n
              /\ s.n =< known'[t][t] /\ vectorClock[t][t] =< vectorClock'[t][t]
          BY <2>3, <2>6, <2>8, <2>9, <2>13, <2>18
        <4>2. \A c \in ReleasedCells' : \E d \in ReleasedCells : CellView'[c] = CellView[d]
          BY <2>16
        <4> QED
          BY <2>3, <2>5, <2>12, <4>1, <4>2, FreshScalar
      <3>3. \A c \in Cells : \A q \in Scalars(shadow'[c]) : q \in Scalars(shadow[c]) \/ ScalarExact(q)'
        <4> SUFFICES ASSUME NEW c \in Cells, NEW q \in Scalars(shadow'[c]), q # s
                     PROVE  q \in Scalars(shadow[c])
          BY <3>2
        <4> QED
          BY <2>14 DEF Scalars
      <3>4. \A c \in ReleasedCells' : /\ c \in ReleasedCells /\ CellView'[c] = CellView[c]
                                      /\ shadow'[c].write = shadow[c].write /\ carried'[c] = carried[c]
        BY <2>1, <2>14, <2>16 DEF ReleasedCells
      <3> QED
        BY <2>3, <2>18, <3>1, <3>3, <3>4, ExactStep DEF CInv
    <2> QED
      BY <2>17, <2>20, <2>21, <2>23, <2>24, <2>26 DEF CInv
  <1> QED
    BY <1>2, <1>3

\* What an atomic write leaves in its cells: the token of the ring's newest slot,
\* which holds what is published, or a scalar clock.
LEMMA CommittedClock ==
    ASSUME CInv, NEW w \in Workers, worker[w].pc = "commit",
           NEW t, t = SmOf[w], NEW op, op = worker[w].op, NEW clock, clock = NewWriteClock(w)
    PROVE  /\ clock.threadId = t /\ clock.n = known[t][t]
           /\ clock.propagated <=> Continues(op)
           /\ clock.isRelease <=> Publishes(op)
           /\ Publishes(op) <=> HasRelease(op.sem) \/ Continues(op)
           /\ ~Publishes(op) => clock.epoch = vectorClock[t][t] /\ Released(w) = NoClock
           /\ Publishes(op) => clock.epoch = buffer[t].head /\ clock.epoch # 0
           /\ HasRelease(op.sem) => ~Continues(op) /\ Slot(clock) = vectorClock[t] /\ Released(w) = known[t]
           /\ Continues(op) => /\ Slot(clock) = Slot(shadow[op.cells[1]].write)
                               /\ Released(w) = carried[op.cells[1]]
                               /\ shadow[op.cells[1]].write.isRelease /\ ~HasRelease(op.sem)
  <1> USE DEF Op
  <1>1. Publishes(op) <=> HasRelease(op.sem) \/ Continues(op)
    BY DEF Publishes, Continues
  <1>2. Publishes(op) => /\ worker[w].token = buffer[t].head /\ worker[w].token # 0
                         /\ buffer[t].slots[worker[w].token % ClockBufferSize] = worker[w].snapshot
                         /\ worker[w].snapshot = IF HasRelease(op.sem) THEN vectorClock[t]
                                                 ELSE Slot(shadow[op.cells[1]].write)
    BY DEF CInv, WorkerFits
  <1>3. CASE Publishes(op)
    <2>1. clock = PublishedClock(t, op.scope, worker[w].token, known[t][t], Continues(op))
      BY <1>1, <1>3 DEF NewWriteClock
    <2>2. /\ clock.threadId = t /\ clock.n = known[t][t] /\ clock.propagated = Continues(op)
          /\ clock.isRelease /\ clock.epoch = worker[w].token
      BY <2>1 DEF PublishedClock
    <2>3. Slot(clock) = worker[w].snapshot
      BY <1>2, <1>3, <2>2 DEF Slot
    <2> QED
      BY <1>1, <1>2, <1>3, <2>2, <2>3 DEF Released, Continues
  <1>4. CASE ~Publishes(op)
    <2>1. clock = ScalarClock(t, op.scope, known[t][t])
      BY <1>1, <1>4 DEF NewWriteClock
    <2> QED
      BY <1>1, <1>4, <2>1 DEF ScalarClock, Released
  <1> QED
    BY <1>3, <1>4

\* The state after endAtomicAccess has stored the new write clock.
LEMMA CommittedCells ==
    ASSUME CInv, HInv', OnePerSm, NEW w \in Workers, CommitWrite(w),
           NEW t, t = SmOf[w], NEW op, op = worker[w].op, NEW clock, clock = NewWriteClock(w),
           ~ (HasRelease(op.sem) /\ vectorClock[t][t] = MaxEpoch)
    PROVE  /\ UNCHANGED <<ready, lock, cellLock, known>>
           /\ worker'[w].pc = "release" /\ worker'[w].op = op
           /\ \A v \in Workers \ {w} : worker'[v] = worker[v]
           /\ \A u \in Threads : buffer'[u].slots = buffer[u].slots /\ buffer'[u].head = buffer[u].head
           /\ \A u \in Threads \ {t} : buffer'[u] = buffer[u] /\ vectorClock'[u] = vectorClock[u]
           /\ buffer'[t].dirty
           /\ \A u \in Threads \ {t} : vectorClock'[t][u] = vectorClock[t][u]
           /\ vectorClock'[t][t] = IF HasRelease(op.sem) THEN vectorClock[t][t] + 1 ELSE vectorClock[t][t]
           /\ ~HasRelease(op.sem) => vectorClock' = vectorClock
           /\ \A c \in Cells : shadow'[c].reads = shadow[c].reads
           /\ \A c \in CellsOf(op) : shadow'[c].write = clock /\ carried'[c] = Released(w)
           /\ \A c \in Cells \ CellsOf(op) : shadow'[c] = shadow[c] /\ carried'[c] = carried[c]
  <1>1. worker[w].pc = "commit" /\ op = Op(w)
    BY DEF CommitWrite, Running, Op
  <1>2. /\ t \in Threads /\ IInv /\ Typed /\ buffer[t] \in BufferType /\ CellsOf(op) \subseteq Cells
        /\ buffer \in [Threads -> BufferType] /\ worker[w] \in RegisterType
    BY <1>1, AtomicFacts DEF InAtomic
  <1> DEFINE dirty == buffer[t].dirty \/ HasRelease(op.sem)
             b == [buffer[t] EXCEPT !.dirty = dirty]
  <1>3. /\ shadow' = [c \in Cells |-> IF c \in CellsOf(op) THEN [shadow[c] EXCEPT !.write = clock] ELSE shadow[c]]
        /\ carried' = [c \in Cells |-> IF c \in CellsOf(op) THEN Released(w) ELSE carried[c]]
        /\ vectorClock' = IF HasRelease(op.sem) THEN [vectorClock EXCEPT ![t][t] = @ + 1] ELSE vectorClock
        /\ buffer' = [buffer EXCEPT ![t].dirty = @ \/ HasRelease(op.sem)]
        /\ Goto(w, "release")
        /\ UNCHANGED <<ready, lock, cellLock, runVars, known>>
    BY <1>1 DEF CommitWrite
  <1>4. /\ worker'[w].pc = "release" /\ worker'[w].op = op /\ \A v \in Workers \ {w} : worker'[v] = worker[v]
    BY <1>2, <1>3, OwnGoto
  <1>5. dirty
    BY <1>1 DEF CInv, WorkerFits
  <1>6. b.dirty = dirty /\ b.slots = buffer[t].slots /\ b.head = buffer[t].head
    BY <1>2 DEF BufferType
  <1>7. buffer' = [buffer EXCEPT ![t] = b]
    BY <1>3
  <1> HIDE DEF b, dirty
  <1>8. /\ \A u \in Threads : buffer'[u].slots = buffer[u].slots /\ buffer'[u].head = buffer[u].head
        /\ \A u \in Threads \ {t} : buffer'[u] = buffer[u]
        /\ buffer'[t].dirty
    BY <1>2, <1>5, <1>6, <1>7
  <1>9. /\ \A u \in Threads \ {t} : vectorClock'[u] = vectorClock[u] /\ vectorClock'[t][u] = vectorClock[t][u]
        /\ vectorClock'[t][t] = IF HasRelease(op.sem) THEN vectorClock[t][t] + 1 ELSE vectorClock[t][t]
        /\ ~HasRelease(op.sem) => vectorClock' = vectorClock
    BY <1>2, <1>3 DEF Typed, ClockType
  <1>10. /\ \A c \in Cells : shadow'[c].reads = shadow[c].reads
         /\ \A c \in CellsOf(op) : shadow'[c].write = clock /\ carried'[c] = Released(w)
         /\ \A c \in Cells \ CellsOf(op) : shadow'[c] = shadow[c] /\ carried'[c] = carried[c]
    BY <1>2, <1>3 DEF Typed, CellType
  <1> QED
    BY <1>3, <1>4, <1>8, <1>9, <1>10

\* endAtomicAccess stores the new write clock: what a release publishes is its
\* thread's view, which no one else has, and a continued release sequence hands
\* on a view that is there already.
LEMMA CommittedKeeps ==
    ASSUME CInv, HInv', OnePerSm, NEW w \in Workers, CommitWrite(w),
           NEW t, t = SmOf[w], NEW op, op = worker[w].op, NEW clock, clock = NewWriteClock(w),
           ~ (HasRelease(op.sem) /\ vectorClock[t][t] = MaxEpoch)
    PROVE  CInv'
  <1>1. worker[w].pc = "commit"
    BY DEF CommitWrite, Running
  <1>2. /\ t \in Threads /\ IInv /\ IInv' /\ Typed /\ CellsOf(op) \subseteq Cells /\ op.cells[1] \in CellsOf(op)
        /\ \A c \in CellsOf(op) : cellLock[c] = w
        /\ \A c \in Cells : \A x : x.pc \in InAtomic /\ x.op = op /\ Holds(x, c) => cellLock[c] = w
    BY <1>1, AtomicFacts DEF InAtomic, HInv
  <1>3. /\ UNCHANGED <<ready, lock, cellLock, known>>
        /\ worker'[w].pc = "release" /\ worker'[w].op = op
        /\ \A v \in Workers \ {w} : worker'[v] = worker[v]
        /\ \A u \in Threads : buffer'[u].slots = buffer[u].slots /\ buffer'[u].head = buffer[u].head
        /\ \A u \in Threads \ {t} : buffer'[u] = buffer[u] /\ vectorClock'[u] = vectorClock[u]
        /\ buffer'[t].dirty
        /\ \A u \in Threads \ {t} : vectorClock'[t][u] = vectorClock[t][u]
        /\ vectorClock'[t][t] = IF HasRelease(op.sem) THEN vectorClock[t][t] + 1 ELSE vectorClock[t][t]
        /\ ~HasRelease(op.sem) => vectorClock' = vectorClock
        /\ \A c \in Cells : shadow'[c].reads = shadow[c].reads
        /\ \A c \in CellsOf(op) : shadow'[c].write = clock /\ carried'[c] = Released(w)
        /\ \A c \in Cells \ CellsOf(op) : shadow'[c] = shadow[c] /\ carried'[c] = carried[c]
    BY CommittedCells
  <1>4. /\ clock.threadId = t /\ clock.n = known[t][t]
        /\ clock.propagated <=> Continues(op)
        /\ clock.isRelease <=> Publishes(op)
        /\ Publishes(op) <=> HasRelease(op.sem) \/ Continues(op)
        /\ ~Publishes(op) => clock.epoch = vectorClock[t][t] /\ Released(w) = NoClock
        /\ Publishes(op) => clock.epoch = buffer[t].head /\ clock.epoch # 0
        /\ HasRelease(op.sem) => ~Continues(op) /\ Slot(clock) = vectorClock[t] /\ Released(w) = known[t]
        /\ Continues(op) => /\ Slot(clock) = Slot(shadow[op.cells[1]].write)
                            /\ Released(w) = carried[op.cells[1]]
                            /\ shadow[op.cells[1]].write.isRelease /\ ~HasRelease(op.sem)
    BY <1>1, CommittedClock
  <1>5. PICK rl : rl = Released(w)
    OBVIOUS
  <1>6. PICK q : q = IF HasRelease(op.sem) THEN ThreadView[t] ELSE CellView[op.cells[1]]
    OBVIOUS
  <1>7. InKernel(t) /\ AtWrite(t)
    BY <1>1 DEF InKernel, AtWrite, PastEntry, InAccess, InAtomic
  <1>8. \A u, v \in Threads : /\ vectorClock[u][v] \in Nat /\ known[u][v] \in Nat
                              /\ vectorClock'[u][v] \in Nat
    <2>1. vectorClock' \in [Threads -> ClockType]
      BY <1>2 DEF IInv, Typed
    <2> QED
      BY <1>2, <2>1, ViewsTyped, ConstantsAssumption DEF ClockType
  <1>9. \A u \in Threads : vectorClock[u][u] =< vectorClock'[u][u]
    BY <1>2, <1>3, <1>8
  <1>10. /\ Slot(clock)' = Slot(clock)
         /\ \A c \in Cells \ CellsOf(op) : Slot(shadow[c].write)' = Slot(shadow[c].write) /\ CellView'[c] = CellView[c]
                                           /\ (c \in ReleasedCells' <=> c \in ReleasedCells)
    <2>1. Slot(clock)' = Slot(clock)
      BY <1>2, <1>3, <1>4 DEF Slot
    <2> QED
      BY <1>2, <1>3, <2>1, SameSlots
  \* What is published is a view that some thread or cell had.
  <1>11. Publishes(op) => /\ q \in Views /\ q \in ViewType /\ q.epochs = Slot(clock) /\ q.counts = rl
                          /\ \A c \in CellsOf(op) : CellView'[c] = q /\ Slot(shadow[c].write)' = q.epochs
    <2> SUFFICES ASSUME Publishes(op)
                 PROVE  /\ q \in Views /\ q \in ViewType /\ q.epochs = Slot(clock) /\ q.counts = rl
                        /\ \A c \in CellsOf(op) : CellView'[c] = q /\ Slot(shadow[c].write)' = q.epochs
      OBVIOUS
    <2>1. q \in Views /\ q \in ViewType /\ q.epochs = Slot(clock) /\ q.counts = rl
      <3>1. CASE HasRelease(op.sem)
        BY <1>2, <1>4, <1>5, <1>6, <3>1, ViewsTyped
      <3>2. CASE ~HasRelease(op.sem)
        <4>1. op.cells[1] \in ReleasedCells
          BY <1>2, <1>4, <3>2 DEF ReleasedCells
        <4> QED
          BY <1>2, <1>4, <1>5, <1>6, <3>2, <4>1, ViewsTyped
      <3> QED
        BY <3>1, <3>2
    <2>2. \A c \in CellsOf(op) : /\ Slot(shadow[c].write)' = q.epochs
                                 /\ CellView'[c] = [epochs |-> q.epochs, counts |-> q.counts]
      <3> TAKE c \in CellsOf(op)
      <3>1. shadow'[c].write = clock
        BY <1>3
      <3>2. Slot(shadow[c].write)' = Slot(clock)'
        BY <3>1 DEF Slot
      <3>3. Slot(shadow[c].write)' = q.epochs
        BY <1>10, <2>1, <3>2
      <3>4. carried'[c] = q.counts
        BY <1>3, <1>5, <2>1
      <3>5. CellView'[c] = [epochs |-> Slot(shadow[c].write)', counts |-> carried'[c]]
        BY <1>2 DEF CellView
      <3> QED
        BY <3>3, <3>4, <3>5
    <2>3. q = [epochs |-> q.epochs, counts |-> q.counts]
      BY <2>1 DEF ViewType
    <2> QED
      BY <2>1, <2>2, <2>3
  <1>12. \A c \in ReleasedCells' : \/ c \in ReleasedCells \ CellsOf(op)
                                   \/ c \in CellsOf(op) /\ Publishes(op)
    BY <1>3, <1>4, <1>10 DEF ReleasedCells
  <1>13. \A c \in ReleasedCells' : CellView'[c] \in Views
    <2>1. \A c \in ReleasedCells \ CellsOf(op) : c \in Cells /\ CellView'[c] = CellView[c] /\ CellView[c] \in Views
      BY <1>2, <1>10, ViewsTyped DEF ReleasedCells
    <2> QED
      BY <1>11, <1>12, <2>1
  <1>14. \A v \in Workers : WorkerFits(v)'
    <2>1. \A c \in Cells : Holds(worker'[w], c) => cellLock'[c] = w
      BY <1>2, <1>3 DEF InAtomic
    <2>2. WorkerFits(w)'
      BY <1>3, <2>1 DEF WorkerFits
    <2>3. /\ \A c \in Cells : cellLock'[c] = cellLock[c] \/ cellLock[c] \in {NoWorker, w}
          /\ \A c \in Cells : cellLock[c] # w => shadow'[c].write = shadow[c].write
          /\ \A c \in ReleasedCells : cellLock[c] # w => Slot(shadow[c].write)' = Slot(shadow[c].write)
      BY <1>2, <1>3, <1>10 DEF ReleasedCells
    <2>4. \A u \in Threads \ {SmOf[w]} : buffer'[u] = buffer[u] /\ vectorClock'[u] = vectorClock[u]
      BY <1>3
    <2>5. \A v \in Workers \ {w} : WorkerFits(v)'
      BY <1>3, <2>3, <2>4, OthersFit
    <2> QED
      BY <2>2, <2>5
  <1>15. ClocksBounded'
    <2>1. \A u, v \in Threads : vectorClock'[u][v] =< vectorClock'[v][v]
      <3> TAKE u, v \in Threads
      <3>1. vectorClock[u][v] =< vectorClock[v][v]
        BY DEF CInv, ClocksBounded
      <3>2. CASE u = v
        BY <1>8, <3>2
      <3>3. CASE u # v
        <4>1. vectorClock'[u][v] = vectorClock[u][v]
          BY <1>2, <1>3, <3>3
        <4> QED
          BY <1>8, <1>9, <3>1, <4>1
      <3> QED
        BY <3>2, <3>3
    <2>2. \A u, v \in Threads : \A i \in DOMAIN buffer'[u].slots : buffer'[u].slots[i][v] =< vectorClock'[v][v]
      <3> SUFFICES ASSUME NEW u \in Threads, NEW v \in Threads, NEW i \in DOMAIN buffer[u].slots
                   PROVE  buffer[u].slots[i][v] =< vectorClock'[v][v]
        BY <1>3
      <3>1. buffer[u].slots[i] \in ClockType
        <4>1. buffer[u] \in BufferType
          BY <1>2 DEF Typed
        <4> QED
          BY <4>1 DEF BufferType
      <3>2. buffer[u].slots[i][v] \in Nat
        BY <3>1, ConstantsAssumption DEF ClockType
      <3>3. buffer[u].slots[i][v] =< vectorClock[v][v]
        BY DEF CInv, ClocksBounded
      <3> QED
        BY <1>8, <1>9, <3>2, <3>3
    <2> QED
      BY <2>1, <2>2 DEF ClocksBounded
  <1>16. Tokens'
    <2> SUFFICES ASSUME NEW c \in Cells
                 PROVE  /\ \A i \in ReadSlots : ~shadow'[c].reads[i].isRelease /\ ~shadow'[c].reads[i].propagated
                        /\ shadow'[c].write.propagated => shadow'[c].write.isRelease
                        /\ shadow'[c].write.isRelease
                             => shadow'[c].write.epoch # 0
                                /\ shadow'[c].write.epoch =< buffer'[shadow'[c].write.threadId].head
      BY DEF Tokens
    <2>1. /\ \A i \in ReadSlots : ~shadow[c].reads[i].isRelease /\ ~shadow[c].reads[i].propagated
          /\ shadow[c].write.propagated => shadow[c].write.isRelease
          /\ shadow[c].write.isRelease
               => shadow[c].write.epoch # 0 /\ shadow[c].write.epoch =< buffer[shadow[c].write.threadId].head
      BY DEF CInv, Tokens
    <2>2. shadow[c].write.threadId \in Threads
      BY <1>2, ViewsTyped DEF ScalarClockType
    <2>3. buffer[t].head \in Nat
      <3>1. buffer[t] \in BufferType
        BY <1>2 DEF Typed
      <3> QED
        BY <3>1, ConstantsAssumption DEF BufferType
    <2>4. CASE c \in CellsOf(op)
      BY <1>2, <1>3, <1>4, <2>1, <2>3, <2>4
    <2>5. CASE c \notin CellsOf(op)
      BY <1>3, <2>1, <2>2, <2>5
    <2> QED
      BY <2>4, <2>5
  <1>17. \A u \in Threads : /\ InKernel(u)' => InKernel(u)
                            /\ AtWrite(u)' => AtWrite(u) /\ u # t
    <2>1. \A v \in Workers : SmOf[v] = t => v = w
      BY DEF OnePerSm
    <2>2. worker[w].pc \in PastEntry /\ worker'[w].pc \notin WritePCs
      BY <1>1, <1>3 DEF WritePCs, PastEntry, InAccess, InAtomic
    <2> QED
      BY <1>3, <2>1, <2>2 DEF InKernel, AtWrite, WritePCs
  <1>18. NewEpochs'
    <2> SUFFICES ASSUME NEW u \in Threads, InKernel(u)
                 PROVE  /\ \A v \in Threads \ {u} : vectorClock'[v][u] < vectorClock'[u][u]
                        /\ \A c \in ReleasedCells' : Slot(shadow[c].write)'[u] < vectorClock'[u][u]
      BY <1>17 DEF NewEpochs
    <2>1. /\ \A v \in Threads \ {u} : vectorClock[v][u] < vectorClock[u][u]
          /\ \A c \in ReleasedCells : Slot(shadow[c].write)[u] < vectorClock[u][u]
      BY DEF CInv, NewEpochs
    <2>2. \A v \in Threads \ {u} : vectorClock'[v][u] < vectorClock'[u][u]
      <3> TAKE v \in Threads \ {u}
      <3>1. vectorClock'[v][u] = vectorClock[v][u]
        BY <1>3
      <3> QED
        BY <1>8, <1>9, <2>1, <3>1
    <2>3. Publishes(op) => q.epochs[u] < vectorClock'[u][u]
      <3>1. CASE HasRelease(op.sem)
        BY <1>2, <1>3, <1>4, <1>8, <1>9, <1>11, <2>1, <3>1
      <3>2. CASE Continues(op)
        <4>1. op.cells[1] \in ReleasedCells
          BY <1>2, <1>4, <3>2 DEF ReleasedCells
        <4>2. q.epochs[u] < vectorClock[u][u] /\ q.epochs[u] \in Nat
          BY <1>4, <1>11, <2>1, <3>2, <4>1 DEF ViewType, Counts
        <4> QED
          BY <1>8, <1>9, <4>2
      <3> QED
        BY <1>4, <3>1, <3>2
    <2>4. \A c \in ReleasedCells' : Slot(shadow[c].write)'[u] < vectorClock'[u][u]
      <3> TAKE c \in ReleasedCells'
      <3>1. CASE c \in ReleasedCells \ CellsOf(op)
        <4>1. c \in Cells /\ CellView[c] \in ViewType /\ CellView[c].epochs = Slot(shadow[c].write)
          BY <1>2, <3>1, ViewsTyped DEF ReleasedCells
        <4>2. Slot(shadow[c].write)[u] \in Nat
          BY <4>1 DEF ViewType, Counts
        <4>3. Slot(shadow[c].write)'[u] = Slot(shadow[c].write)[u]
          BY <1>10, <3>1, <4>1
        <4> QED
          BY <1>8, <1>9, <2>1, <3>1, <4>2, <4>3
      <3>2. CASE c \in CellsOf(op) /\ Publishes(op)
        BY <1>11, <2>3, <3>2
      <3> QED
        BY <1>12, <3>1, <3>2
    <2> QED
      BY <2>2, <2>4
  <1>19. NewCounts'
    <2> SUFFICES ASSUME NEW u \in Threads \ {t}, AtWrite(u)
                 PROVE  /\ \A v \in Threads \ {u} : known[v][u] < known[u][u]
                        /\ \A c \in Cells : carried'[c][u] < known[u][u]
      BY <1>3, <1>17 DEF NewCounts
    <2>1. /\ \A v \in Threads \ {u} : known[v][u] < known[u][u]
          /\ \A c \in Cells : carried[c][u] < known[u][u]
      BY DEF CInv, NewCounts
    <2>2. rl[u] < known[u][u]
      <3>1. CASE HasRelease(op.sem)
        BY <1>2, <1>4, <1>5, <2>1, <3>1
      <3>2. CASE Continues(op)
        BY <1>2, <1>4, <1>5, <2>1, <3>2
      <3>3. CASE ~Publishes(op)
        <4>1. rl[u] = 0
          BY <1>4, <1>5, <3>3 DEF NoClock
        <4>2. known[t][u] < known[u][u]
          BY <1>2, <2>1
        <4> QED
          BY <1>2, <1>8, <4>1, <4>2
      <3> QED
        BY <1>4, <3>1, <3>2, <3>3
    <2>3. \A c \in Cells : carried'[c][u] = rl[u] \/ carried'[c][u] = carried[c][u]
      BY <1>3, <1>5
    <2> QED
      BY <2>1, <2>2, <2>3
  <1>20. /\ ThreadView'[t] \in ViewType
         /\ ThreadView'[t].epochs = vectorClock'[t] /\ ThreadView'[t].counts = known[t]
    <2>1. vectorClock'[t] \in Counts /\ known'[t] \in Counts
      BY <1>2, ConstantsAssumption DEF IInv, Typed, ClockType, Counts
    <2> QED
      BY <1>2, <1>3, <2>1 DEF ThreadView, ViewType
  <1>21. Exact'
    <2>1. ThreadView[t].epochs = vectorClock[t] /\ ThreadView[t].counts = known[t] /\ Sound(ThreadView[t])
      BY <1>2, ViewsTyped, OldIsSound
    <2>2. Sound(ThreadView'[t])
      <3>1. Advances(ThreadView'[t], ThreadView[t], t)
        BY <1>2, <1>3, <1>8, <1>9, <1>20, <2>1 DEF Advances
      <3> QED
        BY <1>2, <1>8, <1>20, <2>1, <3>1, AdvanceIsSound
    <2>3. \A u \in Threads \ {t} : vectorClock'[u] = vectorClock[u] /\ known'[u] = known[u]
      BY <1>3
    <2>4. \A x \in Views' : Sound(x)
      <3> TAKE x \in Views'
      <3>1. x = ThreadView'[t] \/ x \in Views
        BY <1>2, <1>13, <2>3, NewViews DEF Views
      <3> QED
        BY <1>2, <2>2, <3>1, OldIsSound
    <2>5. \A u \in Threads : vectorClock[u][u] =< vectorClock'[u][u] /\ known[u][u] =< known'[u][u]
      BY <1>3, <1>8, <1>9
    <2>6. ~Publishes(op) => ScalarExact(clock)'
      <3> SUFFICES ASSUME ~Publishes(op) PROVE ScalarExact(clock)'
        OBVIOUS
      <3>1. \A c \in ReleasedCells' : \E d \in ReleasedCells : CellView'[c] = CellView[d]
        BY <1>10, <1>12 DEF ReleasedCells
      <3>2. /\ clock.threadId = t /\ clock.epoch = vectorClock[t][t] /\ clock.n \in Nat
            /\ clock.n = known[t][t] /\ clock.n =< known'[t][t] /\ vectorClock[t][t] =< vectorClock'[t][t]
        BY <1>2, <1>3, <1>4, <1>8, <1>9
      <3> QED
        BY <1>2, <1>7, <2>3, <3>1, <3>2, FreshScalar
    <2>7. \A c \in Cells : \A r \in Scalars(shadow'[c]) : r \in Scalars(shadow[c]) \/ ScalarExact(r)'
      <3> TAKE c \in Cells
      <3>1. CASE c \in CellsOf(op)
        <4>1. shadow'[c].write = clock /\ shadow'[c].reads = shadow[c].reads
          BY <1>3, <3>1
        <4> QED
          BY <1>4, <2>6, <4>1 DEF Scalars
      <3>2. CASE c \notin CellsOf(op)
        BY <1>3, <3>2
      <3> QED
        BY <3>1, <3>2
    <2>8. ASSUME NEW c \in CellsOf(op), Publishes(op)
          PROVE  ReleaseExact(c)'
      <3>1. CellView'[c] = q /\ shadow'[c].write = clock /\ carried'[c] = rl
        BY <1>3, <1>5, <1>11, <2>8
      <3>2. CASE HasRelease(op.sem)
        <4>1. /\ q \in ViewType /\ q.epochs = vectorClock[t] /\ q.counts = known[t]
          BY <1>4, <1>5, <1>11, <3>2
        <4>2. \A x \in Views' : Follows(x, q, t)
          <5> TAKE x \in Views'
          <5>1. CASE x = ThreadView'[t]
            <6>1. \A v \in Threads : vectorClock'[t][v] >= vectorClock[t][v] /\ known[t][v] >= known[t][v]
              BY <1>2, <1>3, <1>8, <1>9
            <6> QED
              BY <1>20, <4>1, <5>1, <6>1 DEF Follows, Above
          <5>2. CASE \E u \in Threads \ {t} : x = ThreadView[u]
            <6>1. PICK u \in Threads \ {t} : x = ThreadView[u]
              BY <5>2
            <6>2. x.epochs = vectorClock[u] /\ x.counts = known[u]
              BY <1>2, <6>1, ViewsTyped
            <6>3. vectorClock[u][t] < vectorClock[t][t] /\ known[u][t] < known[t][t]
              BY <1>2, <1>7 DEF CInv, NewEpochs, NewCounts
            <6>4. ~ (vectorClock[u][t] >= vectorClock[t][t]) /\ ~ (known[u][t] >= known[t][t])
              BY <1>2, <1>8, <6>3
            <6> QED
              BY <4>1, <6>2, <6>4 DEF Follows
          <5>3. CASE \E d \in ReleasedCells \ CellsOf(op) : x = CellView[d]
            <6>1. PICK d \in ReleasedCells \ CellsOf(op) : x = CellView[d]
              BY <5>3
            <6>2. d \in Cells /\ x \in ViewType /\ x.epochs = Slot(shadow[d].write) /\ x.counts = carried[d]
              BY <1>2, <6>1, ViewsTyped DEF ReleasedCells
            <6>3. x.epochs[t] < vectorClock[t][t] /\ x.counts[t] < known[t][t]
              BY <1>2, <1>7, <6>1, <6>2 DEF CInv, NewEpochs, NewCounts
            <6>4. x.epochs[t] \in Nat /\ x.counts[t] \in Nat
              BY <1>2, <6>2 DEF ViewType, Counts
            <6>5. ~ (x.epochs[t] >= vectorClock[t][t]) /\ ~ (x.counts[t] >= known[t][t])
              BY <1>2, <1>8, <6>3, <6>4
            <6> QED
              BY <4>1, <6>5 DEF Follows
          <5>4. CASE x = q
            <6>1. \A v \in Threads : q.epochs[v] >= q.epochs[v] /\ q.counts[v] >= q.counts[v]
              BY <1>2, <1>8, <4>1
            <6> QED
              BY <5>4, <6>1 DEF Follows, Above
          <5>5. \A d \in ReleasedCells' : CellView'[d] = q \/ (d \in ReleasedCells \ CellsOf(op) /\ CellView'[d] = CellView[d])
            BY <1>10, <1>11, <1>12 DEF ReleasedCells
          <5> QED
            BY <1>2, <2>3, <5>1, <5>2, <5>3, <5>4, <5>5, NewViews
        <4>3. ~clock.propagated => t = clock.threadId /\ rl[t] = clock.n
          BY <1>4, <1>5, <3>2
        <4>4. \A x \in Views' : Follows(x, CellView'[c], t)
          BY <3>1, <4>2
        <4> QED
          BY <1>2, <3>1, <4>3, <4>4 DEF ReleaseExact, Follows, Above
      <3>3. CASE Continues(op)
        <4>1. op.cells[1] \in ReleasedCells /\ op.cells[1] \in Cells /\ q = CellView[op.cells[1]]
          BY <1>2, <1>4, <1>6, <3>3 DEF ReleasedCells
        <4>2. PICK u \in Threads : \A x \in Views : Follows(x, q, u)
          BY <4>1 DEF CInv, Exact, ReleaseExact
        <4>3. vectorClock' = vectorClock /\ known' = known /\ ThreadView' = ThreadView
          BY <1>3, <1>4, <3>3 DEF ThreadView
        <4>4. \A x \in Views' : x \in Views
          BY <1>13, <4>3 DEF Views
        <4>5. \A x \in Views' : Follows(x, CellView'[c], u)
          BY <3>1, <4>2, <4>4
        <4> QED
          BY <1>4, <3>1, <3>3, <4>5 DEF ReleaseExact, Follows, Above
      <3> QED
        BY <1>4, <2>8, <3>2, <3>3
    <2>9. \A c \in ReleasedCells' :
            \/ ReleaseExact(c)'
            \/ /\ c \in ReleasedCells /\ CellView'[c] = CellView[c]
               /\ shadow'[c].write = shadow[c].write /\ carried'[c] = carried[c]
      <3> TAKE c \in ReleasedCells'
      <3>1. CASE c \in ReleasedCells \ CellsOf(op)
        BY <1>3, <1>10, <3>1 DEF ReleasedCells
      <3>2. CASE c \in CellsOf(op) /\ Publishes(op)
        BY <2>8, <3>2
      <3> QED
        BY <1>12, <3>1, <3>2
    <2> QED
      BY <1>2, <2>4, <2>5, <2>7, <2>9, ExactStep DEF CInv
  <1> QED
    BY <1>14, <1>15, <1>16, <1>18, <1>19, <1>21 DEF CInv

LEMMA CommitWriteKeeps ==
    ASSUME CInv, HInv', OnePerSm, NEW w \in Workers, CommitWrite(w)
    PROVE  CInv'
  <1>1. CASE HasRelease(Op(w).sem) /\ vectorClock[SmOf[w]][SmOf[w]] = MaxEpoch
    <2>1. UNCHANGED <<vectorClock, buffer, shadow, cellLock, worker, known, carried>>
      BY <1>1 DEF CommitWrite, Stop, threadVars, shadowVars, ghostVars
    <2> QED
      BY <2>1, StopKeeps
  <1>2. CASE ~ (HasRelease(Op(w).sem) /\ vectorClock[SmOf[w]][SmOf[w]] = MaxEpoch)
    BY <1>2, CommittedKeeps DEF Op
  <1> QED
    BY <1>1, <1>2

-----------------------------------------------------------------------------
(* The clock join after a launch                                           *)

\* The SMs of a device whose kernels have exited take the join of their views.
LEMMA SynchronizeLaunchStreamKeeps ==
    ASSUME CInv, HInv', OnePerSm, NEW d \in Devices, SynchronizeLaunchStream(d)
    PROVE  CInv'
  <1>1. /\ UNCHANGED <<buffer, shadow, cellLock, carried>>
        /\ worker' = [w \in Workers |-> IF w \in OnDevice(d) THEN AtEntry ELSE worker[w]]
        /\ IInv /\ IInv' /\ Typed
    BY DEF SynchronizeLaunchStream, shadowVars, CInv, HInv, IInv
  <1>2. /\ vectorClock' \in [Threads -> ClockType] /\ known' \in [Threads -> Counts]
        /\ \A t \in Threads \ Sms(d) : vectorClock'[t] = vectorClock[t] /\ known'[t] = known[t]
        /\ \A t \in Sms(d), u \in Threads :
             /\ \E v \in Sms(d) : vectorClock'[t][u] = vectorClock[v][u]
             /\ \E v \in Sms(d) : known'[t][u] = known[v][u]
             /\ \A v \in Sms(d) : vectorClock[v][u] =< vectorClock'[t][u] /\ known[v][u] =< known'[t][u]
        /\ \A t, u \in Threads : known'[t][u] =< known[u][u] /\ known'[u][u] = known[u][u]
    BY <1>1, SynchronizedClocks
  <1>3. /\ Sms(d) \subseteq Threads
        /\ \A w \in Workers : w \in OnDevice(d) <=> SmOf[w] \in Sms(d)
    BY ConstantsAssumption DEF Sms, OnDevice
  <1>4. \A u, v \in Threads : vectorClock[u][v] \in Nat /\ known[u][v] \in Nat /\ vectorClock'[u][v] \in Nat
    BY <1>1, <1>2, ViewsTyped, ConstantsAssumption DEF ClockType
  <1>5. \A w \in Workers : worker'[w] = IF SmOf[w] \in Sms(d) THEN AtEntry ELSE worker[w]
    BY <1>1, <1>3
  <1>6. \A t \in Threads : vectorClock'[t][t] = vectorClock[t][t]
    <2> TAKE t \in Threads
    <2>1. CASE t \in Sms(d)
      <3>1. PICK v \in Sms(d) : vectorClock'[t][t] = vectorClock[v][t]
        BY <1>2, <2>1
      <3>2. vectorClock[v][t] =< vectorClock[t][t]
        BY <1>3 DEF CInv, ClocksBounded
      <3>3. vectorClock[t][t] =< vectorClock'[t][t]
        BY <1>2, <2>1
      <3> QED
        BY <1>4, <3>1, <3>2, <3>3
    <2>2. CASE t \notin Sms(d)
      BY <1>2, <2>2
    <2> QED
      BY <2>1, <2>2
  <1>7. /\ ReleasedCells' = ReleasedCells
        /\ \A c \in Cells : Slot(shadow[c].write)' = Slot(shadow[c].write) /\ CellView'[c] = CellView[c]
    BY <1>1 DEF ReleasedCells, Slot, CellView
  <1>8. \A w \in Workers : WorkerFits(w)'
    <2> TAKE w \in Workers
    <2>1. CASE SmOf[w] \in Sms(d)
      <3>1. worker'[w].pc = "entry"
        BY <1>5, <2>1, EntryRegisters
      <3> QED
        BY <3>1, OutsideFits DEF InAtomic
    <2>2. CASE SmOf[w] \notin Sms(d)
      <3>1. worker'[w] = worker[w] /\ vectorClock'[SmOf[w]] = vectorClock[SmOf[w]] /\ WorkerFits(w)
        BY <1>2, <1>5, <2>2, ConstantsAssumption DEF CInv
      <3> QED
        BY <1>1, <3>1 DEF WorkerFits, Publishes, Slot
    <2> QED
      BY <2>1, <2>2
  <1>9. ClocksBounded'
    <2>1. \A t, u \in Threads : vectorClock'[t][u] =< vectorClock'[u][u]
      <3> TAKE t, u \in Threads
      <3>1. \E v \in Threads : vectorClock'[t][u] = vectorClock[v][u]
        BY <1>2, <1>3
      <3> QED
        BY <1>6, <3>1 DEF CInv, ClocksBounded
    <2> QED
      BY <1>1, <1>6, <2>1 DEF CInv, ClocksBounded
  <1>10. Tokens'
    BY <1>1 DEF CInv, Tokens
  <1>11. \A u \in Threads : /\ InKernel(u)' => InKernel(u) /\ u \notin Sms(d)
                            /\ AtWrite(u)' => AtWrite(u) /\ u \notin Sms(d)
    <2>1. \A w \in Workers : worker'[w].pc # "entry" => SmOf[w] \notin Sms(d) /\ worker'[w] = worker[w]
      BY <1>5, EntryRegisters
    <2> QED
      BY <2>1 DEF InKernel, AtWrite, PastEntry, InAccess, InAtomic
  <1>12. NewEpochs'
    <2> SUFFICES ASSUME NEW u \in Threads \ Sms(d), InKernel(u)
                 PROVE  /\ \A t \in Threads \ {u} : vectorClock'[t][u] < vectorClock'[u][u]
                        /\ \A c \in ReleasedCells : Slot(shadow[c].write)'[u] < vectorClock'[u][u]
      BY <1>7, <1>11 DEF NewEpochs
    <2>1. /\ \A t \in Threads \ {u} : vectorClock[t][u] < vectorClock[u][u]
          /\ \A c \in ReleasedCells : Slot(shadow[c].write)[u] < vectorClock[u][u]
      BY DEF CInv, NewEpochs
    <2>2. \A t \in Threads \ {u} : \E v \in Threads \ {u} : vectorClock'[t][u] = vectorClock[v][u]
      BY <1>2, <1>3
    <2> QED
      BY <1>6, <1>7, <2>1, <2>2 DEF ReleasedCells
  <1>13. NewCounts'
    <2> SUFFICES ASSUME NEW u \in Threads \ Sms(d), AtWrite(u)
                 PROVE  /\ \A t \in Threads \ {u} : known'[t][u] < known'[u][u]
                        /\ \A c \in Cells : carried[c][u] < known'[u][u]
      BY <1>1, <1>11 DEF NewCounts
    <2>1. /\ \A t \in Threads \ {u} : known[t][u] < known[u][u]
          /\ \A c \in Cells : carried[c][u] < known[u][u]
      BY DEF CInv, NewCounts
    <2>2. \A t \in Threads \ {u} : \E v \in Threads \ {u} : known'[t][u] = known[v][u]
      BY <1>2, <1>3
    <2> QED
      BY <1>2, <2>1, <2>2
  <1>14. Exact'
    <2>1. ASSUME NEW t \in Sms(d)
          PROVE  Sound(ThreadView'[t])
      <3> DEFINE A == {ThreadView[v] : v \in Sms(d)}
                 x == ThreadView'[t]
      <3>1. x \in ViewType /\ x.epochs = vectorClock'[t] /\ x.counts = known'[t]
        <4>1. vectorClock'[t] \in Counts /\ known'[t] \in Counts
          <5>1. vectorClock'[t] \in ClockType /\ known'[t] \in Counts
            BY <1>2, <1>3
          <5>2. \A f \in ClockType : f \in Counts
            BY ConstantsAssumption DEF ClockType, Counts
          <5> QED
            BY <5>1, <5>2
        <4> QED
          BY <1>3, <4>1 DEF ThreadView, ViewType
      <3>2. A \in SUBSET Views
        BY <1>3 DEF Views
      <3>3. \A v \in Sms(d) : ThreadView[v] \in A /\ ThreadView[v].epochs = vectorClock[v]
                              /\ ThreadView[v].counts = known[v]
        BY <1>1, <1>3, ViewsTyped
      <3>4. \A y \in A : \E v \in Sms(d) : y = ThreadView[v]
        OBVIOUS
      <3> HIDE DEF A, x
      <3>5. IsJoin(x, A)
        <4> SUFFICES ASSUME NEW u \in Threads
                     PROVE  /\ \E y \in A : x.epochs[u] = y.epochs[u]
                            /\ \E y \in A : x.counts[u] = y.counts[u]
                            /\ \A y \in A : y.epochs[u] =< x.epochs[u] /\ y.counts[u] =< x.counts[u]
          BY DEF IsJoin
        <4>1. PICK v \in Sms(d) : x.epochs[u] = vectorClock[v][u]
          BY <1>2, <3>1
        <4>2. PICK v2 \in Sms(d) : x.counts[u] = known[v2][u]
          BY <1>2, <3>1
        <4>3. ThreadView[v] \in A /\ x.epochs[u] = ThreadView[v].epochs[u]
          BY <3>3, <4>1
        <4>4. ThreadView[v2] \in A /\ x.counts[u] = ThreadView[v2].counts[u]
          BY <3>3, <4>2
        <4>5. \A y \in A : y.epochs[u] =< x.epochs[u] /\ y.counts[u] =< x.counts[u]
          <5> TAKE y \in A
          <5>1. PICK v3 \in Sms(d) : y = ThreadView[v3]
            BY <3>4
          <5>2. vectorClock[v3][u] =< x.epochs[u] /\ known[v3][u] =< x.counts[u]
            BY <1>2, <3>1
          <5> QED
            BY <3>3, <5>1, <5>2
        <4> QED
          BY <4>3, <4>4, <4>5
      <3>6. Sound(x)
        BY <1>1, <3>1, <3>2, <3>5, JoinIsSound
      <3> QED
        BY <3>6 DEF x
    <2>2. \A x \in Views' : Sound(x)
      <3> TAKE x \in Views'
      <3>1. (\E t \in Threads : x = ThreadView'[t]) \/ (\E c \in ReleasedCells : x = CellView[c])
        BY <1>7 DEF Views, ReleasedCells
      <3>2. \A t \in Threads \ Sms(d) : ThreadView'[t] = ThreadView[t]
        BY <1>2 DEF ThreadView
      <3>3. (\E t \in Sms(d) : x = ThreadView'[t]) \/ x \in Views
        BY <1>3, <3>1, <3>2 DEF Views
      <3> QED
        BY <1>1, <2>1, <3>3, OldIsSound
    <2>3. \A u \in Threads : vectorClock[u][u] =< vectorClock'[u][u] /\ known[u][u] =< known'[u][u]
      BY <1>2, <1>4, <1>6
    <2>4. \A c \in Cells : \A r \in Scalars(shadow'[c]) : r \in Scalars(shadow[c])
      BY <1>1
    <2>5. \A c \in ReleasedCells' : /\ c \in ReleasedCells /\ CellView'[c] = CellView[c]
                                    /\ shadow'[c].write = shadow[c].write /\ carried'[c] = carried[c]
      BY <1>1, <1>7 DEF ReleasedCells
    <2> QED
      BY <1>1, <2>2, <2>3, <2>4, <2>5, ExactStep DEF CInv
  <1> QED
    BY <1>8, <1>9, <1>10, <1>12, <1>13, <1>14 DEF CInv

-----------------------------------------------------------------------------
(* The theorems                                                            *)

LEMMA StepKeeps ==
    ASSUME CInv, HInv', OnePerSm, RingsFresh, NEW w \in Workers, Step(w)
    PROVE  CInv'
  BY EnterKeeps, LazyInitKeeps, LoadEpochKeeps, StoreEpochKeeps, LoadWordKeeps, StoreWordKeeps,
     AcquireReadKeeps, AcquireWriteKeeps, AcquireShadowKeeps, ReleaseReadKeeps, DoReadKeeps, DoWriteKeeps,
     BeginAtomicKeeps, EndAtomicKeeps, EndFailedCasKeeps, FillSlotKeeps, MoveHeadKeeps, CommitWriteKeeps,
     ReleaseAtomicShadowRangeKeeps DEF Step

LEMMA NextKeeps ==
    ASSUME CInv, HInv', OnePerSm, RingsFresh, [Next]_vars
    PROVE  CInv'
  <1>1. CASE UNCHANGED vars
    BY <1>1, StopKeeps DEF vars, threadVars, shadowVars, ghostVars
  <1>2. CASE Next
    <2>1. ASSUME NEW w \in Workers, Step(w) PROVE CInv'
      BY <2>1, StepKeeps
    <2>2. ASSUME NEW w \in Workers, Spin(w) PROVE CInv'
      BY <1>1, <2>2 DEF Spin
    <2>3. ASSUME NEW w \in Workers, Exit(w) PROVE CInv'
      BY <2>3, ExitKeeps
    <2>4. ASSUME NEW w \in Workers, NEW op \in program.operations, Issue(w, op) PROVE CInv'
      BY <2>4, IssueKeeps
    <2>5. ASSUME NEW d \in Devices, SynchronizeLaunchStream(d) PROVE CInv'
      BY <2>5, SynchronizeLaunchStreamKeeps
    <2>6. CASE Stutter
      BY <1>1, <2>6 DEF Stutter
    <2> QED
      BY <1>2, <2>1, <2>2, <2>3, <2>4, <2>5, <2>6 DEF Next
  <1> QED
    BY <1>1, <1>2

LEMMA InitHolds ==
    ASSUME Init PROVE CInv
  <1>1. IInv
    BY InitIInv
  <1>2. \A w \in Workers : worker[w].pc \in {"entry", "exited"}
    BY EntryRegisters DEF Init, AtEntry
  <1>3. /\ \A t \in Threads : vectorClock[t] = NoClock /\ known[t] = NoClock
        /\ \A t \in Threads : /\ buffer[t].head = 0
                              /\ buffer[t].slots = [i \in 0 .. ClockBufferSize - 1 |-> NoClock]
        /\ \A c \in Cells : /\ shadow[c].write = EmptyScalarClock
                            /\ \A i \in ReadSlots : shadow[c].reads[i] = EmptyScalarClock
                            /\ carried[c] = NoClock
    BY DEF Init
  <1>4. /\ EmptyScalarClock.epoch = 0 /\ ~EmptyScalarClock.isRelease /\ ~EmptyScalarClock.propagated
        /\ \A u \in Threads : NoClock[u] = 0
    BY DEF EmptyScalarClock, NoClock
  <1>5. HInv
    BY <1>1, <1>2, <1>3 DEF HInv, HeadFits
  <1>6. \A w \in Workers : WorkerFits(w)
    BY <1>2 DEF WorkerFits, Holds, InAccess, InAtomic
  <1>7. ClocksBounded
    <2>1. \A t, u \in Threads : vectorClock[t][u] = 0
      BY <1>3, <1>4
    <2>2. \A t, u \in Threads : \A i \in DOMAIN buffer[t].slots : buffer[t].slots[i][u] = 0
      <3> TAKE t, u \in Threads
      <3>1. buffer[t].slots = [i \in 0 .. ClockBufferSize - 1 |-> NoClock]
        BY <1>3
      <3> QED
        BY <1>4, <3>1
    <2> QED
      BY <2>1, <2>2 DEF ClocksBounded
  <1>8. Tokens
    BY <1>3, <1>4 DEF Tokens
  <1>9. NewEpochs /\ NewCounts
    BY <1>2 DEF NewEpochs, NewCounts, InKernel, AtWrite, PastEntry, InAccess, InAtomic
  <1>10. Exact
    <2>1. ReleasedCells = {}
      BY <1>3, <1>4 DEF ReleasedCells
    <2>2. \A c \in Cells : Scalars(shadow[c]) = {}
      BY <1>3, <1>4 DEF Scalars
    <2> QED
      BY <2>1, <2>2 DEF Exact
  <1> QED
    BY <1>5, <1>6, <1>7, <1>8, <1>9, <1>10 DEF CInv

\* The tests that shadow cells are put to are the right ones until a ring is
\* full: a head never moves back, so it was not full before either.
ExactWhileFresh == HInv /\ (RingsFresh => CInv)

LEMMA FreshBefore ==
    ASSUME HInv, OnePerSm, [Next]_vars, RingsFresh'
    PROVE  RingsFresh
  <1>1. \A t \in Threads : buffer[t].head =< buffer'[t].head
    BY NextHeads
  <1>2. \A t \in Threads : buffer[t].head \in Nat /\ buffer'[t].head \in Nat
    <2>1. HInv'
      BY NextHeads
    <2>2. \A t \in Threads : buffer[t] \in BufferType /\ buffer'[t] \in BufferType
      BY <2>1 DEF HInv, IInv, Typed
    <2> QED
      BY <2>2, ConstantsAssumption DEF BufferType
  <1>3. \A t \in Threads : buffer'[t].head < ClockBufferSize
    BY DEF RingsFresh
  <1> QED
    BY <1>1, <1>2, <1>3, ConstantsAssumption DEF RingsFresh

LEMMA NextExact ==
    ASSUME ExactWhileFresh, OnePerSm, [Next]_vars
    PROVE  ExactWhileFresh'
  <1>1. HInv /\ HInv'
    BY NextHeads DEF ExactWhileFresh
  <1>2. ASSUME RingsFresh' PROVE CInv'
    BY <1>1, <1>2, FreshBefore, NextKeeps DEF ExactWhileFresh
  <1> QED
    BY <1>1, <1>2 DEF ExactWhileFresh

\* For every SM and every clock in a shadow cell, the test on epochs, tokens and
\* ring slots says what happens-before says of the accesses.
THEOREM TestsAreHappensBefore ==
    ASSUME OnePerSm
    PROVE  Spec => [](RingsFresh => ClocksExact)
  <1>1. Init => ExactWhileFresh
    BY InitHolds DEF ExactWhileFresh, CInv
  <1>2. ExactWhileFresh /\ [Next]_vars => ExactWhileFresh'
    BY NextExact
  <1>3. ExactWhileFresh => (RingsFresh => ClocksExact)
    BY TestsAreExact DEF ExactWhileFresh, CInv, HInv
  <1> QED
    BY <1>1, <1>2, <1>3, PTL DEF Spec

-----------------------------------------------------------------------------
(* What stops a kernel                                                     *)

\* A check that fails for a reason: a counter is exhausted, or the two accesses
\* race.
Justified(t, scope, check) ==
    \/ check.verdict \in {"ok", "clock overflow", "token overflow"}
    \/ /\ check.verdict \in RaceMessages
       /\ ~AreAtomicScopesCompatible(scope, t, check.prior.scope, check.prior.threadId)
       /\ ~HappensBefore(t, check.prior)

\* A token in a cell is one its SM handed out, and its slot is still there.
LEMMA TokensAreValid ==
    ASSUME CInv, RingsFresh, NEW c \in Cells, NEW prior \in {shadow[c].write} \cup {shadow[c].reads[i] : i \in ReadSlots},
           prior.isRelease
    PROVE  TokenVerdict(prior) = "ok"
  <1>1. prior = shadow[c].write
    BY DEF CInv, Tokens
  <1>2. prior \in ScalarClockType
    BY <1>1, ViewsTyped DEF CInv, HInv
  <1> DEFINE head == buffer[prior.threadId].head
  <1>3. prior.epoch \in Nat /\ prior.threadId \in Threads
    BY <1>2, ConstantsAssumption DEF ScalarClockType
  <1>4. head \in Nat /\ head < ClockBufferSize
    <2>1. buffer[prior.threadId] \in BufferType
      BY <1>3 DEF CInv, HInv, IInv, Typed
    <2> QED
      BY <1>3, <2>1, ConstantsAssumption DEF BufferType, RingsFresh
  <1>5. prior.epoch # 0 /\ prior.epoch =< head
    BY <1>1 DEF CInv, Tokens
  <1>6. ~ (prior.epoch = 0) /\ ~ (prior.epoch > head) /\ ~ (head - prior.epoch >= ClockBufferSize)
    <2> HIDE DEF head
    <2> QED
      BY <1>3, <1>4, <1>5, ConstantsAssumption
  <1> QED
    BY <1>6 DEF TokenVerdict

LEMMA CheckIsJustified ==
    ASSUME CInv, RingsFresh, NEW c \in Cells, NEW prior \in {shadow[c].write} \cup {shadow[c].reads[i] : i \in ReadSlots},
           NEW t, NEW scope, NEW message \in RaceMessages
    PROVE  Justified(t, scope, Check(t, scope, prior, message))
  <1>1. prior.isRelease => TokenVerdict(prior) = "ok"
    BY TokensAreValid
  <1>2. CASE prior.epoch = 0 \/ AreAtomicScopesCompatible(scope, t, prior.scope, prior.threadId)
    <2>1. Check(t, scope, prior, message).verdict = "ok"
      BY <1>2 DEF Check, Verdict
    <2> QED
      BY <2>1 DEF Justified
  <1>3. CASE ~ (prior.epoch = 0) /\ ~AreAtomicScopesCompatible(scope, t, prior.scope, prior.threadId)
    <2>1. /\ Check(t, scope, prior, message).verdict = IF HappensBefore(t, prior) THEN "ok" ELSE message
          /\ Check(t, scope, prior, message).prior = prior
      BY <1>1, <1>3 DEF Check, Verdict
    <2> QED
      BY <1>3, <2>1 DEF Justified
  <1> QED
    BY <1>2, <1>3

\* The first check that fails is one of them.
LEMMA FirstFailure ==
    ASSUME NEW checks, DOMAIN checks \subseteq Nat, Failures(checks) # {},
           NEW t, NEW scope, \A i \in DOMAIN checks : Justified(t, scope, checks[i])
    PROVE  Justified(t, scope, checks[Min(Failures(checks))])
  <1>1. Failures(checks) \in SUBSET Nat /\ Failures(checks) \subseteq DOMAIN checks
    BY DEF Failures
  <1> QED
    BY <1>1, MinProperties

LEMMA WriteChecksJustified ==
    ASSUME CInv, RingsFresh, NEW c \in Cells, NEW t, NEW scope
    PROVE  /\ DOMAIN WriteChecks(t, scope, c) = 1 .. ReadClockSize + 1
           /\ \A i \in 1 .. ReadClockSize + 1 : Justified(t, scope, WriteChecks(t, scope, c)[i])
  <1>1. DOMAIN WriteChecks(t, scope, c) = 1 .. ReadClockSize + 1
    BY DEF WriteChecks
  <1>2. ASSUME NEW i \in 1 .. ReadClockSize + 1
        PROVE  Justified(t, scope, WriteChecks(t, scope, c)[i])
    <2>1. CASE i \in ReadSlots
      <3>1. WriteChecks(t, scope, c)[i] = Check(t, scope, shadow[c].reads[i], "write after read")
        BY <2>1 DEF WriteChecks
      <3> QED
        BY <2>1, <3>1, CheckIsJustified DEF RaceMessages
    <2>2. CASE i \notin ReadSlots
      <3>1. WriteChecks(t, scope, c)[i] = Check(t, scope, shadow[c].write, "write after write")
        BY <2>2 DEF WriteChecks
      <3> QED
        BY <3>1, CheckIsJustified DEF RaceMessages
    <2> QED
      BY <2>1, <2>2
  <1> QED
    BY <1>1, <1>2

LEMMA ReadCheckJustified ==
    ASSUME CInv, RingsFresh, NEW c \in Cells, NEW t, NEW scope
    PROVE  /\ DOMAIN ReadChecks(t, scope, c) = {1}
           /\ Justified(t, scope, ReadChecks(t, scope, c)[1])
           /\ Justified(t, scope, AcquireCheck(t, scope, shadow[c].write))
  <1>1. /\ DOMAIN ReadChecks(t, scope, c) = {1}
        /\ ReadChecks(t, scope, c)[1] = Check(t, scope, shadow[c].write, "read after write")
    BY DEF ReadChecks
  <1>2. Justified(t, scope, ReadChecks(t, scope, c)[1])
    BY <1>1, CheckIsJustified DEF RaceMessages
  <1>3. AcquireCheck(t, scope, shadow[c].write).verdict = "ok"
    <2>1. shadow[c].write.isRelease => TokenVerdict(shadow[c].write) = "ok"
      BY TokensAreValid
    <2> QED
      BY <2>1 DEF AcquireCheck, SynchronizesWith
  <1> QED
    BY <1>1, <1>2, <1>3 DEF Justified

LEMMA BeginChecksJustified ==
    ASSUME CInv, RingsFresh, NEW t, NEW op \in program.operations
    PROVE  /\ DOMAIN BeginChecks(t, op) \subseteq Nat
           /\ \A i \in DOMAIN BeginChecks(t, op) : Justified(t, op.scope, BeginChecks(t, op)[i])
  <1> DEFINE Good == {k \in {ReadChecks(t, op.scope, c)[1] : c \in Cells}
                              \cup {AcquireCheck(t, op.scope, shadow[c].write) : c \in Cells} :
                        Justified(t, op.scope, k)}
             first == [i \in DOMAIN op.cells |-> ReadChecks(t, op.scope, op.cells[i])[1]]
             second == IF HasAcquire(op.sem)
                       THEN [i \in DOMAIN op.cells |-> AcquireCheck(t, op.scope, shadow[op.cells[i]].write)]
                       ELSE <<>>
  <1>1. /\ DOMAIN op.cells = 1 .. Len(op.cells) /\ Len(op.cells) \in Nat
        /\ \A i \in 1 .. Len(op.cells) : op.cells[i] \in Cells
    BY Operations DEF CInv, HInv, IInv
  <1>2. \A i \in 1 .. Len(op.cells) : /\ ReadChecks(t, op.scope, op.cells[i])[1] \in Good
                                      /\ AcquireCheck(t, op.scope, shadow[op.cells[i]].write) \in Good
    BY <1>1, ReadCheckJustified
  <1>3. first \in Seq(Good) /\ second \in Seq(Good)
    <2> HIDE DEF Good
    <2>1. first \in [1 .. Len(op.cells) -> Good]
      BY <1>1, <1>2
    <2>2. CASE HasAcquire(op.sem)
      <3>1. second \in [1 .. Len(op.cells) -> Good]
        BY <1>1, <1>2, <2>2
      <3> HIDE DEF first, second
      <3> QED
        BY <1>1, <2>1, <3>1
    <2>3. CASE ~HasAcquire(op.sem)
      <3>1. second = <<>>
        BY <2>3
      <3> HIDE DEF first, second
      <3> QED
        BY <1>1, <2>1, <3>1
    <2> QED
      BY <2>2, <2>3
  <1>4. BeginChecks(t, op) = first \o second
    BY DEF BeginChecks, OverCells
  <1> HIDE DEF first, second
  <1>5. first \o second \in Seq(Good)
    BY <1>3
  <1>6. DOMAIN (first \o second) \subseteq Nat /\ \A i \in DOMAIN (first \o second) : (first \o second)[i] \in Good
    <2> HIDE DEF Good
    <2> QED
      BY <1>5
  <1> QED
    BY <1>4, <1>6

LEMMA CurrentCellTyped ==
    ASSUME IInv, NEW w \in Workers, worker[w].pc = "access"
    PROVE  CurrentCell(w) \in Cells
  <1>1. /\ worker[w].op \in program.operations /\ worker[w].idx =< Len(worker[w].op.cells)
        /\ worker[w] \in RegisterType
    BY DEF IInv, Typed, RegistersFit, InAccess
  <1>2. worker[w].idx \in Nat \ {0}
    BY <1>1 DEF RegisterType
  <1> QED
    BY <1>1, <1>2, Operations DEF IInv, CurrentCell, Op

LEMMA QuotientBelow ==
    ASSUME NEW p \in Nat \ {0}, NEW n \in Nat, NEW j \in Nat, j < p * n
    PROVE  j \div p \in 0 .. n - 1 /\ j % p \in 0 .. p - 1
  <1>1. j = p * (j \div p) + (j % p) /\ j % p \in 0 .. p - 1 /\ j \div p \in Nat
    OBVIOUS
  <1>2. ASSUME j \div p >= n PROVE FALSE
    <2>1. PICK k \in Nat : k = j \div p
      BY <1>1
    <2>2. PICK e \in Nat : k = n + e
      <3>1. k - n \in Nat /\ k = n + (k - n)
        BY <1>2, <2>1
      <3> QED
        BY <3>1
    <2>3. p * k = p * n + p * e /\ p * e \in Nat /\ p * n \in Nat /\ p * k \in Nat
      BY <2>2
    <2>4. p * k =< j
      BY <1>1, <2>1, <2>3
    <2> QED
      BY <2>3, <2>4
  <1> QED
    BY <1>1, <1>2

LEMMA EndChecksJustified ==
    ASSUME CInv, RingsFresh, NEW t, NEW op \in program.operations, NEW previous, previous = shadow[op.cells[1]].write
    PROVE  LET checks == EndChecks(t, op) \o
                           IF ~HasRelease(op.sem) /\ previous.isRelease
                           THEN <<[prior |-> previous, verdict |-> TokenVerdict(previous)]>>
                           ELSE <<>>
           IN  /\ DOMAIN checks \subseteq Nat
               /\ \A i \in DOMAIN checks : Justified(t, op.scope, checks[i])
  <1> DEFINE p == ReadClockSize + 1
             token == [prior |-> previous, verdict |-> TokenVerdict(previous)]
             All == {WriteChecks(t, op.scope, c)[i] : c \in Cells, i \in 1 .. p} \cup {token}
             Good == {k \in All : Justified(t, op.scope, k)}
             first == EndChecks(t, op)
             second == IF ~HasRelease(op.sem) /\ previous.isRelease THEN <<token>> ELSE <<>>
             n == Len(op.cells)
             m == p * n
  <1>1. /\ n \in Nat \ {0} /\ \A i \in 1 .. n : op.cells[i] \in Cells
        /\ p \in Nat \ {0} /\ ReadClockSize \in Nat
    BY Operations, ConstantsAssumption DEF CInv, HInv, IInv
  <1>2. m \in Nat
    <2> HIDE DEF p, n
    <2> QED
      BY <1>1
  <1>3. first \in [1 .. m -> Good]
    <2>1. ASSUME NEW i \in 1 .. m
          PROVE  WriteChecks(t, op.scope, op.cells[((i - 1) \div p) + 1])[((i - 1) % p) + 1] \in Good
      <3>1. i - 1 \in Nat /\ i - 1 < p * n
        BY <1>2
      <3>2. (i - 1) \div p \in 0 .. n - 1 /\ (i - 1) % p \in 0 .. p - 1
        <4>1. PICK j : j = i - 1
          OBVIOUS
        <4> HIDE DEF p, n
        <4>2. j \div p \in 0 .. n - 1 /\ j % p \in 0 .. p - 1
          BY <1>1, <3>1, <4>1, QuotientBelow
        <4> QED
          BY <4>1, <4>2
      <3>3. PICK a \in 1 .. n : a = ((i - 1) \div p) + 1
        <4>1. PICK d \in 0 .. n - 1 : d = (i - 1) \div p
          BY <3>2
        <4>2. d + 1 \in 1 .. n
          BY <1>1
        <4> HIDE DEF n, p
        <4> QED
          BY <4>1, <4>2
      <3>4. PICK b \in 1 .. p : b = ((i - 1) % p) + 1
        <4>1. PICK e \in 0 .. p - 1 : e = (i - 1) % p
          BY <3>2
        <4>2. e + 1 \in 1 .. p
          BY <1>1
        <4> HIDE DEF p
        <4> QED
          BY <4>1, <4>2
      <3>5. op.cells[a] \in Cells
        BY <1>1
      <3>6. Justified(t, op.scope, WriteChecks(t, op.scope, op.cells[a])[b])
        BY <3>5, WriteChecksJustified
      <3>7. WriteChecks(t, op.scope, op.cells[a])[b] \in All
        BY <3>5
      <3> HIDE DEF All
      <3> QED
        BY <3>3, <3>4, <3>6, <3>7
    <2> HIDE DEF Good
    <2>2. first = [i \in 1 .. m |-> WriteChecks(t, op.scope, op.cells[((i - 1) \div p) + 1])[((i - 1) % p) + 1]]
      BY DEF EndChecks
    <2> HIDE DEF first, m, p
    <2> QED
      BY <2>1, <2>2
  <1>4. second \in Seq(Good)
    <2>1. CASE ~HasRelease(op.sem) /\ previous.isRelease
      <3>1. TokenVerdict(previous) = "ok"
        <4>1. previous \in {shadow[op.cells[1]].write} \cup {shadow[op.cells[1]].reads[i] : i \in ReadSlots}
          OBVIOUS
        <4>2. op.cells[1] \in Cells
          BY <1>1
        <4> QED
          BY <2>1, <4>1, <4>2, TokensAreValid
      <3>2. Justified(t, op.scope, token)
        BY <3>1 DEF Justified
      <3>3. token \in All
        OBVIOUS
      <3> HIDE DEF token, All
      <3>4. token \in Good
        BY <3>2, <3>3
      <3> HIDE DEF Good
      <3> QED
        BY <2>1, <3>4
    <2>2. CASE ~ (~HasRelease(op.sem) /\ previous.isRelease)
      BY <2>2
    <2> QED
      BY <2>1, <2>2
  <1> HIDE DEF first, second, m, p
  <1>5. DOMAIN (first \o second) \subseteq Nat /\ \A i \in DOMAIN (first \o second) : (first \o second)[i] \in Good
    <2> HIDE DEF Good
    <2>1. first \in Seq(Good)
      BY <1>2, <1>3
    <2>2. first \o second \in Seq(Good)
      BY <1>4, <2>1
    <2> QED
      BY <2>2
  <1>6. \A k \in Good : Justified(t, op.scope, k)
    OBVIOUS
  <1> HIDE DEF Good
  <1>7. DOMAIN (first \o second) \subseteq Nat /\ \A i \in DOMAIN (first \o second) : Justified(t, op.scope, (first \o second)[i])
    BY <1>5, <1>6
  <1> QED
    BY <1>7 DEF first, second

\* A step leaves a kernel running or stops it over a check that fails for a
\* reason, and nothing runs in a stopped kernel.
JustifiedStop == \E w \in Workers, scope \in Scopes : \E check : Stop(w, scope, check) /\ Justified(SmOf[w], scope, check)

LEMMA OverflowIsJustified ==
    ASSUME NEW t, NEW scope, NEW message \in {"clock overflow", "token overflow"}
    PROVE  Justified(t, scope, Overflow(message))
  BY DEF Justified, Overflow

LEMMA StopsAreJustified ==
    ASSUME CInv, RingsFresh, NEW w \in Workers, Step(w)
    PROVE  trap' = trap \/ JustifiedStop
  <1> USE DEF JustifiedStop
  <1> DEFINE t == SmOf[w]
  <1>1. /\ trap = NoTrap /\ IInv /\ t \in Threads
        /\ worker[w].pc \in InAccess => Op(w) \in program.operations /\ Op(w).scope \in Scopes
    <2>1. IInv /\ t \in Threads
      BY ConstantsAssumption DEF CInv, HInv
    <2>2. worker[w].pc \in InAccess => Op(w) \in program.operations
      BY <2>1 DEF IInv, RegistersFit, Op
    <2>3. worker[w].pc \in InAccess => Op(w).scope \in Scopes
      BY <2>1, <2>2, Operations DEF IInv
    <2>4. trap = NoTrap
      BY DEF Step, Enter, LazyInit, LoadEpoch, StoreEpoch, LoadWord, StoreWord, AcquireRead, AcquireWrite,
             AcquireShadow, ReleaseRead, DoRead, DoWrite, BeginAtomic, EndAtomic, EndFailedCas, FillSlot,
             MoveHead, CommitWrite, ReleaseAtomicShadowRange, Running
    <2> QED
      BY <2>1, <2>2, <2>3, <2>4
  <1>2. CASE Enter(w) \/ LazyInit(w) \/ StoreEpoch(w) \/ LoadWord(w) \/ StoreWord(w)
    BY <1>2 DEF Enter, LazyInit, StoreEpoch, LoadWord, StoreWord, runVars
  <1>3. CASE AcquireRead(w) \/ AcquireWrite(w) \/ AcquireShadow(w) \/ ReleaseRead(w)
    BY <1>3 DEF AcquireRead, AcquireWrite, AcquireShadow, ReleaseRead, runVars
  <1>4. CASE EndFailedCas(w) \/ MoveHead(w) \/ ReleaseAtomicShadowRange(w)
    BY <1>4 DEF EndFailedCas, MoveHead, ReleaseAtomicShadowRange, runVars
  <1>5. CASE LoadEpoch(w)
    <2>1. Stop(w, "nonatomic", Overflow("clock overflow")) \/ trap' = trap
      BY <1>5 DEF LoadEpoch, runVars
    <2> QED
      BY <2>1, OverflowIsJustified DEF Scopes
  <1>6. CASE FillSlot(w)
    <2>1. Stop(w, Op(w).scope, Overflow("token overflow")) \/ trap' = trap
      BY <1>6 DEF FillSlot, runVars
    <2>2. Op(w).scope \in Scopes
      BY <1>1, <1>6 DEF FillSlot, Running, InAccess, InAtomic
    <2> QED
      BY <2>1, <2>2, OverflowIsJustified
  <1>7. CASE CommitWrite(w)
    <2>1. Stop(w, Op(w).scope, Overflow("clock overflow")) \/ trap' = trap
      BY <1>7 DEF CommitWrite, runVars
    <2>2. Op(w).scope \in Scopes
      BY <1>1, <1>7 DEF CommitWrite, Running, InAccess, InAtomic
    <2> QED
      BY <2>1, <2>2, OverflowIsJustified
  <1>8. CASE DoRead(w)
    <2> DEFINE checks == ReadChecks(t, "nonatomic", CurrentCell(w))
    <2>1. (Failures(checks) # {} /\ Stop(w, "nonatomic", checks[Min(Failures(checks))])) \/ trap' = trap
      BY <1>8 DEF DoRead, StopAtFirst, runVars
    <2>2. CurrentCell(w) \in Cells
      BY <1>1, <1>8, CurrentCellTyped DEF DoRead, Running
    <2>3. DOMAIN checks \subseteq Nat /\ \A i \in DOMAIN checks : Justified(t, "nonatomic", checks[i])
      BY <2>2, ReadCheckJustified
    <2> HIDE DEF checks
    <2> QED
      BY <2>1, <2>3, FirstFailure DEF Scopes
  <1>9. CASE DoWrite(w)
    <2> DEFINE checks == WriteChecks(t, "nonatomic", CurrentCell(w))
    <2>1. (Failures(checks) # {} /\ Stop(w, "nonatomic", checks[Min(Failures(checks))])) \/ trap' = trap
      BY <1>9 DEF DoWrite, StopAtFirst, runVars
    <2>2. CurrentCell(w) \in Cells
      BY <1>1, <1>9, CurrentCellTyped DEF DoWrite, Running
    <2>3. DOMAIN checks \subseteq Nat /\ \A i \in DOMAIN checks : Justified(t, "nonatomic", checks[i])
      <3>1. \A i \in 1 .. ReadClockSize + 1 : i \in Nat
        BY ConstantsAssumption
      <3>2. DOMAIN checks = 1 .. ReadClockSize + 1 /\ \A i \in 1 .. ReadClockSize + 1 : Justified(t, "nonatomic", checks[i])
        BY <2>2, WriteChecksJustified
      <3> HIDE DEF checks
      <3> QED
        BY <3>1, <3>2
    <2> HIDE DEF checks
    <2> QED
      BY <2>1, <2>3, FirstFailure DEF Scopes
  <1>10. CASE BeginAtomic(w)
    <2> DEFINE op == Op(w)
               checks == BeginChecks(t, op)
    <2>1. (Failures(checks) # {} /\ Stop(w, op.scope, checks[Min(Failures(checks))])) \/ trap' = trap
      BY <1>10 DEF BeginAtomic, StopAtFirst, runVars
    <2>2. op \in program.operations /\ op.scope \in Scopes
      BY <1>1, <1>10 DEF BeginAtomic, Running, InAccess, InAtomic
    <2>3. DOMAIN checks \subseteq Nat /\ \A i \in DOMAIN checks : Justified(t, op.scope, checks[i])
      BY <2>2, BeginChecksJustified
    <2> HIDE DEF checks, op
    <2> QED
      BY <2>1, <2>2, <2>3, FirstFailure
  <1>11. CASE EndAtomic(w)
    <2> DEFINE op == Op(w)
               previous == shadow[op.cells[1]].write
               checks == EndChecks(t, op) \o
                           IF ~HasRelease(op.sem) /\ previous.isRelease
                           THEN <<[prior |-> previous, verdict |-> TokenVerdict(previous)]>>
                           ELSE <<>>
    <2>1. (Failures(checks) # {} /\ Stop(w, op.scope, checks[Min(Failures(checks))])) \/ trap' = trap
      BY <1>11 DEF EndAtomic, StopAtFirst, runVars
    <2>2. op \in program.operations /\ op.scope \in Scopes
      BY <1>1, <1>11 DEF EndAtomic, Running, InAccess, InAtomic
    <2>3. DOMAIN checks \subseteq Nat /\ \A i \in DOMAIN checks : Justified(t, op.scope, checks[i])
      BY <2>2, EndChecksJustified
    <2> HIDE DEF checks, op
    <2> QED
      BY <2>1, <2>2, <2>3, FirstFailure
  <1> QED
    BY <1>2, <1>3, <1>4, <1>5, <1>6, <1>7, <1>8, <1>9, <1>10, <1>11 DEF Step

LEMMA StoppedStays ==
    ASSUME trap # NoTrap, [Next]_vars
    PROVE  UNCHANGED vars
  <1>1. ASSUME NEW w \in Workers, Step(w) PROVE trap = NoTrap
    BY <1>1 DEF Step, Enter, LazyInit, LoadEpoch, StoreEpoch, LoadWord, StoreWord, AcquireRead, AcquireWrite,
         AcquireShadow, ReleaseRead, DoRead, DoWrite, BeginAtomic, EndAtomic, EndFailedCas, FillSlot,
         MoveHead, CommitWrite, ReleaseAtomicShadowRange, Running
  <1>2. ASSUME NEW w \in Workers, Exit(w) \/ \E op \in program.operations : Issue(w, op)
        PROVE  trap = NoTrap
    BY <1>2 DEF Exit, Issue, Running
  <1>3. ASSUME NEW d \in Devices, SynchronizeLaunchStream(d) PROVE trap = NoTrap
    BY <1>3 DEF SynchronizeLaunchStream
  <1>4. ASSUME NEW w \in Workers, Spin(w) PROVE UNCHANGED vars
    BY <1>4 DEF Spin
  <1>5. Stutter => UNCHANGED vars
    BY DEF Stutter
  <1> HIDE DEF vars
  <1> QED
    BY <1>1, <1>2, <1>3, <1>4, <1>5 DEF Next

LEMMA RunningStops ==
    ASSUME CInv, RingsFresh, [Next]_vars
    PROVE  trap' = trap \/ JustifiedStop
  <1>1. ASSUME NEW w \in Workers, Step(w) PROVE trap' = trap \/ JustifiedStop
    BY <1>1, StopsAreJustified
  <1>2. ASSUME NEW w \in Workers, Spin(w) \/ Exit(w) \/ \E op \in program.operations : Issue(w, op)
        PROVE  trap' = trap
    BY <1>2 DEF Spin, Exit, Issue, vars, runVars
  <1>3. ASSUME NEW d \in Devices, SynchronizeLaunchStream(d) PROVE trap' = trap
    BY <1>3 DEF SynchronizeLaunchStream
  <1>4. CASE Stutter \/ UNCHANGED vars
    BY <1>4 DEF Stutter, vars, runVars
  <1> QED
    BY <1>1, <1>2, <1>3, <1>4 DEF Next

AlarmsHold == AlarmIsRace /\ NoTokenTrap

\* The trap of a justified stop is a race, or the exhaustion of a counter.
LEMMA StopIsSound ==
    ASSUME CInv, CInv', NEW w \in Workers, NEW scope, NEW check, Stop(w, scope, check), Justified(SmOf[w], scope, check),
           check.verdict # "ok"
    PROVE  AlarmsHold'
  <1>1. /\ trap'.message = check.verdict /\ trap'.prior = check.prior
        /\ trap'.thread = SmOf[w] /\ trap'.scope = scope
        /\ UNCHANGED <<vectorClock, buffer, shadow, known, carried>>
    BY DEF Stop, threadVars, shadowVars, ghostVars
  <1>2. NoTokenTrap'
    BY <1>1 DEF Justified, NoTokenTrap, RaceMessages
  <1>3. ASSUME check.verdict \in RaceMessages
        PROVE  /\ ~AreAtomicScopesCompatible(scope, SmOf[w], check.prior.scope, check.prior.threadId)
               /\ \A c \in Cells : check.prior \in RecordedClocks(c) => ~Ordered(SmOf[w], c, check.prior)
    <2>1. /\ ~AreAtomicScopesCompatible(scope, SmOf[w], check.prior.scope, check.prior.threadId)
          /\ ~HappensBefore(SmOf[w], check.prior)
      BY <1>3 DEF Justified, RaceMessages
    <2>2. ClocksExact /\ SmOf[w] \in Threads
      BY TestsAreExact, ConstantsAssumption DEF CInv, HInv
    <2> QED
      BY <2>1, <2>2 DEF ClocksExact
  <1>4. AlarmIsRace'
    BY <1>1, <1>3 DEF AlarmIsRace, RecordedClocks, Ordered
  <1> QED
    BY <1>2, <1>4 DEF AlarmsHold

AlarmsWhileFresh == ExactWhileFresh /\ (RingsFresh => AlarmsHold)

LEMMA NextAlarms ==
    ASSUME AlarmsWhileFresh, OnePerSm, [Next]_vars
    PROVE  AlarmsWhileFresh'
  <1>1. ExactWhileFresh'
    BY NextExact DEF AlarmsWhileFresh
  <1>2. ASSUME RingsFresh' PROVE AlarmsHold'
    <2>1. RingsFresh /\ CInv /\ CInv' /\ AlarmsHold
      BY <1>1, <1>2, FreshBefore DEF AlarmsWhileFresh, ExactWhileFresh
    <2>2. CASE trap # NoTrap \/ UNCHANGED vars
      <3>1. UNCHANGED vars
        BY <2>2, StoppedStays
      <3> QED
        BY <2>1, <3>1 DEF vars, threadVars, shadowVars, runVars, ghostVars, AlarmsHold, AlarmIsRace, NoTokenTrap,
                          RecordedClocks, Ordered
    <2>3. CASE trap = NoTrap /\ trap' = trap
      BY <2>3 DEF NoTrap, AlarmsHold, AlarmIsRace, NoTokenTrap, RaceMessages
    <2>4. CASE trap = NoTrap /\ JustifiedStop
      <3>0. PICK w \in Workers, scope \in Scopes : \E check : Stop(w, scope, check) /\ Justified(SmOf[w], scope, check)
        BY <2>4 DEF JustifiedStop
      <3>1. PICK check : Stop(w, scope, check) /\ Justified(SmOf[w], scope, check)
        BY <3>0
      <3>2. CASE check.verdict # "ok"
        BY <2>1, <3>1, <3>2, StopIsSound
      <3>3. CASE check.verdict = "ok"
        BY <3>1, <3>3 DEF Stop, AlarmsHold, AlarmIsRace, NoTokenTrap, RaceMessages
      <3> QED
        BY <3>2, <3>3
    <2> QED
      BY <2>1, <2>2, <2>3, <2>4, RunningStops
  <1> QED
    BY <1>1, <1>2 DEF AlarmsWhileFresh

LEMMA AlarmsInvariant ==
    ASSUME OnePerSm PROVE Spec => []AlarmsWhileFresh
  <1>1. Init => AlarmsWhileFresh
    BY InitHolds DEF Init, NoTrap, AlarmsWhileFresh, ExactWhileFresh, CInv, AlarmsHold, AlarmIsRace, NoTokenTrap,
                     RaceMessages
  <1>2. AlarmsWhileFresh /\ [Next]_vars => AlarmsWhileFresh'
    BY NextAlarms
  <1> QED
    BY <1>1, <1>2, PTL DEF Spec

\* A reported race is one: happens-before does not order the two accesses, and
\* they are not both atomic in scopes that include each other.
THEOREM AlarmsAreRaces ==
    ASSUME OnePerSm
    PROVE  Spec => [](RingsFresh => AlarmIsRace)
  <1>1. AlarmsWhileFresh => (RingsFresh => AlarmIsRace)
    BY DEF AlarmsWhileFresh, AlarmsHold
  <1> QED
    BY <1>1, AlarmsInvariant, PTL

\* No clock runs ahead of its owner, and the detector refuses no token that it
\* handed out itself.
THEOREM TablesStaySound ==
    ASSUME OnePerSm
    PROVE  Spec => [](RingsFresh => TablesSound)
  <1>1. AlarmsWhileFresh => (RingsFresh => TablesSound)
    BY TypesFit DEF AlarmsWhileFresh, ExactWhileFresh, CInv, HInv, AlarmsHold, TablesSound
  <1> QED
    BY <1>1, AlarmsInvariant, PTL

-----------------------------------------------------------------------------
(* The lock                                                                *)
(*                                                                         *)
(* The GSan lock word excludes writers, for any finite set of CUDA         *)
(* threads, and implements RWLock, which is what GSanRuntime is built on.  *)
(* Exclusion alone is not inductive: nothing in it says that a zero word   *)
(* means an empty lock.  WordCounts does, and the two with the types are   *)
(* an inductive invariant.                                                 *)

LockInv == LockTypeOK /\ WordCounts /\ Exclusion

\* Counting: a worker that adds itself to the readers raises their number by
\* one, one that leaves lowers it by one, and none are counted at zero.
LEMMA CountedAdd ==
    ASSUME NEW S, IsFiniteSet(S), NEW x, x \notin S
    PROVE  Cardinality(S \cup {x}) = Cardinality(S) + 1
  BY FS_AddElement

LEMMA CountedRemove ==
    ASSUME NEW S, IsFiniteSet(S), NEW x \in S
    PROVE  Cardinality(S \ {x}) = Cardinality(S) - 1
  BY FS_RemoveElement

LEMMA CountedFinite == IsFiniteSet(Counted)
  BY CudaThreadsAssumption, FS_Subset DEF Counted

\* The lock word starts free.
LEMMA InitLockInv == LockInit => LockInv
  <1> SUFFICES ASSUME LockInit PROVE LockInv
    OBVIOUS
  <1>1. LockTypeOK
    BY DEF LockInit, LockTypeOK, LockPCs
  <1>2. Counted = {} /\ In("writing") = {}
    BY DEF LockInit, Counted, In
  <1>3. WordCounts
    BY <1>2, FS_EmptySet DEF LockInit, WordCounts
  <1>4. Exclusion
    BY DEF LockInit, Exclusion
  <1> QED
    BY <1>1, <1>3, <1>4 DEF LockInv

\* Every instruction on the word keeps the invariant.
LEMMA NextLockInv == LockInv /\ [LockNext]_lockVars => LockInv'
  <1> SUFFICES ASSUME LockInv, [LockNext]_lockVars PROVE LockInv'
    OBVIOUS
  <1> USE DEF LockInv
  <1>fin. IsFiniteSet(Counted)
    BY CountedFinite
  <1>1. ASSUME NEW w \in CudaThreads, RWLockAcquireRead(w) PROVE LockInv'
    <2>1. LockTypeOK'
      BY <1>1 DEF RWLockAcquireRead, LockGoto, LockTypeOK, LockPCs
    <2>2. w \notin Counted /\ Counted' = Counted \cup {w}
      BY <1>1 DEF RWLockAcquireRead, LockGoto, LockTypeOK, Counted
    <2>3. In("writing")' = In("writing")
      BY <1>1 DEF RWLockAcquireRead, LockGoto, LockTypeOK, In
    <2>4. WordCounts'
      <3>1. lockWord'.count = lockWord.count + 1 /\ lockWord'.flag = lockWord.flag
        BY <1>1 DEF RWLockAcquireRead, LockTypeOK
      <3>2. Cardinality(Counted') = Cardinality(Counted) + 1
        BY <2>2, <1>fin, CountedAdd
      <3> QED
        BY <3>1, <3>2, <2>3 DEF WordCounts
    <2>5. Exclusion'
      <3>1. ~lockWord.flag => \A v \in CudaThreads : lockPc[v] # "writing"
        BY DEF WordCounts, In
      <3> QED
        BY <1>1, <3>1 DEF RWLockAcquireRead, LockGoto, LockTypeOK, Exclusion
    <2> QED
      BY <2>1, <2>4, <2>5
  <1>2. ASSUME NEW w \in CudaThreads, SpinRead(w) PROVE LockInv'
    <2>1. LockTypeOK'
      BY <1>2 DEF SpinRead, LockGoto, LockTypeOK, LockPCs
    <2>2. Counted' = Counted /\ In("writing")' = In("writing")
      BY <1>2 DEF SpinRead, LockGoto, LockTypeOK, Counted, In
    <2>3. WordCounts'
      BY <1>2, <2>2 DEF SpinRead, WordCounts
    <2>4. \A v \in CudaThreads : lockPc[v] # "writing"
      BY <1>2 DEF SpinRead, WordCounts, In
    <2>5. Exclusion'
      BY <1>2, <2>4 DEF SpinRead, LockGoto, LockTypeOK, Exclusion
    <2> QED
      BY <2>1, <2>3, <2>5
  <1>3. ASSUME NEW w \in CudaThreads, BeginWrite(w) PROVE LockInv'
    <2>1. LockTypeOK'
      BY <1>3 DEF BeginWrite, LockGoto, LockTypeOK, LockPCs
    <2>2. Counted' = Counted /\ In("writing")' = In("writing")
      BY <1>3 DEF BeginWrite, LockGoto, LockTypeOK, Counted, In
    <2>3. WordCounts'
      BY <1>3, <2>2 DEF BeginWrite, WordCounts
    <2>4. Exclusion'
      BY <1>3 DEF BeginWrite, LockGoto, LockTypeOK, Exclusion
    <2> QED
      BY <2>1, <2>3, <2>4
  <1>4. ASSUME NEW w \in CudaThreads, RWLockAcquireWrite(w) PROVE LockInv'
    <2>1. LockTypeOK'
      BY <1>4 DEF RWLockAcquireWrite, LockGoto, LockTypeOK, LockPCs
    <2>2. Counted' = Counted
      BY <1>4 DEF RWLockAcquireWrite, LockGoto, LockTypeOK, Counted
    <2>3. In("writing")' # {}
      BY <1>4 DEF RWLockAcquireWrite, LockGoto, LockTypeOK, In
    <2>4. WordCounts'
      BY <1>4, <2>2, <2>3 DEF RWLockAcquireWrite, WordCounts, LockTypeOK
    <2>5. Counted = {} /\ In("writing") = {}
      BY <1>4, <1>fin, FS_EmptySet DEF RWLockAcquireWrite, WordCounts
    <2>6. \A v \in CudaThreads : lockPc[v] \notin {"reading", "writing"}
      BY <2>5 DEF Counted, In
    <2>7. Exclusion'
      BY <1>4, <2>6 DEF RWLockAcquireWrite, LockGoto, LockTypeOK, Exclusion
    <2> QED
      BY <2>1, <2>4, <2>7
  <1>5. ASSUME NEW w \in CudaThreads, RWLockReleaseRead(w) PROVE LockInv'
    <2>1. w \in Counted /\ Counted' = Counted \ {w}
      BY <1>5 DEF RWLockReleaseRead, LockGoto, LockTypeOK, Counted
    <2>2. Cardinality(Counted') = Cardinality(Counted) - 1
      BY <2>1, <1>fin, CountedRemove
    <2>3. Cardinality(Counted') \in Nat
      BY <2>1, <1>fin, FS_RemoveElement, FS_CardinalityType
    <2>4. lockWord'.count = lockWord.count - 1 /\ lockWord'.flag = lockWord.flag
      BY <1>5 DEF RWLockReleaseRead, LockTypeOK
    <2>5. LockTypeOK'
      BY <1>5, <2>2, <2>3, <2>4 DEF RWLockReleaseRead, LockGoto, LockTypeOK, LockPCs, WordCounts
    <2>6. In("writing")' = In("writing")
      BY <1>5 DEF RWLockReleaseRead, LockGoto, LockTypeOK, In
    <2>7. WordCounts'
      BY <2>2, <2>4, <2>6 DEF WordCounts
    <2>8. Exclusion'
      BY <1>5 DEF RWLockReleaseRead, LockGoto, LockTypeOK, Exclusion
    <2> QED
      BY <2>5, <2>7, <2>8
  <1>6. ASSUME NEW w \in CudaThreads, RWLockReleaseWrite(w) PROVE LockInv'
    <2>1. LockTypeOK'
      BY <1>6 DEF RWLockReleaseWrite, LockGoto, LockTypeOK, LockPCs
    <2>2. Counted' = Counted
      BY <1>6 DEF RWLockReleaseWrite, LockGoto, LockTypeOK, Counted
    <2>3. In("writing")' = {}
      BY <1>6 DEF RWLockReleaseWrite, LockGoto, LockTypeOK, In, Exclusion
    <2>4. WordCounts'
      BY <1>6, <2>2, <2>3 DEF RWLockReleaseWrite, WordCounts, LockTypeOK
    <2>5. Exclusion'
      BY <1>6 DEF RWLockReleaseWrite, LockGoto, LockTypeOK, Exclusion
    <2> QED
      BY <2>1, <2>4, <2>5
  <1>7. CASE UNCHANGED lockVars
    <2>1. Counted' = Counted /\ In("writing")' = In("writing")
      BY <1>7 DEF lockVars, Counted, In
    <2> QED
      BY <1>7, <2>1 DEF lockVars, LockTypeOK, WordCounts, Exclusion
  <1> QED
    BY <1>1, <1>2, <1>3, <1>4, <1>5, <1>6, <1>7 DEF LockNext

\* The lock word keeps its invariant in every behaviour, whatever the number
\* of CUDA threads.
THEOREM LockInvariance == LockSpec => []LockInv
  BY InitLockInv, NextLockInv, PTL DEF LockSpec

\* No CUDA thread works on a ThreadState while another one writes it
\* (rwLockAcquireRead, rwLockAcquireWrite and their releases).
THEOREM MutualExclusion == LockSpec => []Exclusion
  <1>1. LockInv => Exclusion
    BY DEF LockInv
  <1> QED
    BY <1>1, LockInvariance, PTL

\* The word counts the readers and flags the writer, always, and the count never
\* goes below zero (rwLockReleaseRead).
THEOREM WordIsExact == LockSpec => []WordAccounts
  <1>1. LockInv => WordAccounts
    BY DEF LockInv, WordAccounts
  <1> QED
    BY <1>1, LockInvariance, PTL

\* One instruction on the word is one step of RWLock or none: an announcement
\* behind a writer and the start of a write acquire leave the sections alone.
LEMMA LockStepSimulation ==
    ASSUME LockInv, [LockNext]_lockVars
    PROVE  [Abstract!Next]_(Abstract!lockVars)
  <1> USE DEF LockInv, LockTypeOK
  <1>1. ASSUME NEW w \in CudaThreads, RWLockAcquireRead(w)
        PROVE  Abstract!EnterRead(w) \/ UNCHANGED Abstract!lockVars
    <2>1. CASE lockWord.flag
      BY <1>1, <2>1 DEF RWLockAcquireRead, LockGoto, Abstract!lockVars, In
    <2>2. CASE ~lockWord.flag
      <3>1. In("writing") = {}
        BY <2>2 DEF WordCounts
      <3>2. Abstract!Outside(w)
        BY <1>1 DEF RWLockAcquireRead, Abstract!Outside, In
      <3>3. In("reading")' = In("reading") \cup {w} /\ In("writing")' = In("writing")
        BY <1>1, <2>2 DEF RWLockAcquireRead, LockGoto, In
      <3> QED
        BY <3>1, <3>2, <3>3 DEF Abstract!EnterRead
    <2> QED
      BY <2>1, <2>2
  <1>2. ASSUME NEW w \in CudaThreads, SpinRead(w) PROVE Abstract!EnterRead(w)
    <2>1. In("writing") = {}
      BY <1>2 DEF SpinRead, WordCounts
    <2>2. Abstract!Outside(w)
      BY <1>2 DEF SpinRead, Abstract!Outside, In
    <2>3. In("reading")' = In("reading") \cup {w} /\ In("writing")' = In("writing")
      BY <1>2 DEF SpinRead, LockGoto, In
    <2> QED
      BY <2>1, <2>2, <2>3 DEF Abstract!EnterRead
  <1>3. ASSUME NEW w \in CudaThreads, BeginWrite(w) PROVE UNCHANGED Abstract!lockVars
    BY <1>3 DEF BeginWrite, LockGoto, Abstract!lockVars, In
  <1>4. ASSUME NEW w \in CudaThreads, RWLockAcquireWrite(w) PROVE Abstract!EnterWrite(w)
    <2>1. Counted = {} /\ In("writing") = {}
      BY <1>4, CountedFinite, FS_EmptySet DEF RWLockAcquireWrite, WordCounts
    <2>2. In("reading") = {}
      BY <2>1 DEF Counted, In
    <2>3. Abstract!Outside(w)
      BY <2>1, <2>2 DEF Abstract!Outside
    <2>4. In("writing")' = {w} /\ In("reading")' = In("reading")
      BY <1>4, <2>1 DEF RWLockAcquireWrite, LockGoto, In
    <2> QED
      BY <2>1, <2>2, <2>3, <2>4 DEF Abstract!EnterWrite
  <1>5. ASSUME NEW w \in CudaThreads, RWLockReleaseRead(w) PROVE Abstract!ExitRead(w)
    BY <1>5 DEF RWLockReleaseRead, LockGoto, Abstract!ExitRead, In
  <1>6. ASSUME NEW w \in CudaThreads, RWLockReleaseWrite(w) PROVE Abstract!ExitWrite(w)
    BY <1>6 DEF RWLockReleaseWrite, LockGoto, Abstract!ExitWrite, In
  <1>7. CASE UNCHANGED lockVars
    BY <1>7 DEF lockVars, Abstract!lockVars, In
  <1>8. ASSUME NEW w \in CudaThreads,
               \/ Abstract!EnterRead(w) \/ Abstract!EnterWrite(w)
               \/ Abstract!ExitRead(w) \/ Abstract!ExitWrite(w)
               \/ UNCHANGED Abstract!lockVars
        PROVE  [Abstract!Next]_(Abstract!lockVars)
    BY <1>8 DEF Abstract!Next
  <1> QED
    BY <1>1, <1>2, <1>3, <1>4, <1>5, <1>6, <1>7, <1>8 DEF LockNext

\* The lock word implements the reader-writer lock the rest of the runtime
\* relies on, for every finite set of CUDA threads.
THEOREM Refinement == LockSpec => ImplementsRWLock
  <1>1. LockInit => Abstract!Init
    BY DEF LockInit, Abstract!Init, In
  <1>2. LockInv /\ [LockNext]_lockVars => [Abstract!Next]_(Abstract!lockVars)
    BY LockStepSimulation
  <1> QED
    BY <1>1, <1>2, LockInvariance, PTL DEF LockSpec, ImplementsRWLock, Abstract!Spec
=============================================================================
