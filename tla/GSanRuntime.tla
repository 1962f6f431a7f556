---------------------------- MODULE GSanRuntime ----------------------------
(***************************************************************************)
(* The GSan race detector (GSanLibrary.cu, GSan.h): what the calls that    *)
(* instrument a kernel do to the vector clock and the clock buffer of each *)
(* SM and to the shadow cells of global memory, and the clock join after   *)
(* each launch (_stream_sync.py).                                          *)
(*                                                                         *)
(* A Worker is a CUDA thread that performs instrumented accesses; GSan     *)
(* calls the SM it runs on a thread and gives it the thread id SmOf[w], so *)
(* co-resident workers share one ThreadState.  The ThreadState lock is the *)
(* lock of RWLock, which GSanRWLock shows the lock word to implement.      *)
(* Everything a call does to a cell between acquiring and releasing its    *)
(* lock is one action, except the steps others can see: the clock buffer   *)
(* is filled before its head moves, other SMs read it without a lock, and  *)
(* initThread writes the clock and the head word without one.              *)
(*                                                                         *)
(* The variables known and carried are ghosts.  They keep happens-before   *)
(* exactly, counting every access, and nothing in the detector reads them. *)
(* A definition whose comment begins with "Slip" is a plausible bug, which *)
(* the specification does not use: a property is tried against it.         *)
(***************************************************************************)
EXTENDS Integers, FiniteSets, FiniteSetsExt, Sequences

CONSTANTS
    Workers,
    SmOf,             \* SmOf[w]: thread id of the SM a worker runs on
    NumSms,           \* SMs per device
    NumDevices,
    Cells,            \* shadow cells, numbered in address order
    ReadClockSize,    \* kReadClockSize
    ClockBufferSize,  \* globals->clockBufferSize
    MaxEpoch,         \* kMaxEpoch
    Programs          \* what is launched, see ProgramType; it bounds a run

Threads == 0 .. NumSms * NumDevices - 1
Devices == 0 .. NumDevices - 1
Device(t) == t \div NumSms
Sms(d) == {t \in Threads : Device(t) = d}

Sems == {"relaxed", "acquire", "release", "acq_rel"}
Scopes == {"nonatomic", "cta", "gpu", "sys"}

\* cells is ascending: the cells a range covers, as roundRange cuts it.
OperationType ==
    [kind : {"load", "store"}, cells : Seq(Cells), sem : {"relaxed"}, scope : {"nonatomic"}]
      \cup [kind : {"rmw", "cas"}, cells : Seq(Cells), sem : Sems, scope : Scopes \ {"nonatomic"}]

\* A program: what an instrumented instruction of its kernel may be, how many
\* of them a worker issues at most, and how often each device launches it.
ProgramType == [operations : SUBSET OperationType, accesses : Nat, launches : [Devices -> Nat]]

\* The shadow cells of a range in the order the code takes them, each once.
Ascending(cells) == \A i, j \in 1 .. Len(cells) : i < j => cells[i] < cells[j]

NoWorker == "none"

ASSUME ConstantsAssumption ==
    /\ NumSms \in Nat \ {0} /\ NumDevices \in Nat \ {0}
    /\ IsFiniteSet(Workers) /\ NoWorker \notin Workers /\ SmOf \in [Workers -> Threads]
    /\ IsFiniteSet(Cells) /\ Cells \subseteq Nat
    /\ ReadClockSize \in Nat \ {0} /\ ClockBufferSize \in Nat \ {0}
    /\ MaxEpoch \in Nat
    /\ \A p \in Programs : p.accesses \in Nat /\ p.launches \in [Devices -> Nat]
                           /\ \A o \in p.operations : /\ o \in OperationType
                                                     /\ o.cells # <<>> /\ Ascending(o.cells)

VARIABLES
    vectorClock,  \* vectorClock[t][u]: epoch of u that t has synchronised with
    buffer,       \* ThreadState's clockBufferDirty, clockBufferHead and ring of snapshots
    ready,        \* the ThreadStates whose globals pointer is set
    lock,         \* ThreadState's reader-writer lock
    shadow,       \* ShadowCell: read clocks, write clock, number of reads
    cellLock,     \* owner of a ShadowCell's lock, NoWorker when free
    worker,       \* pc and registers of each worker
    program,      \* the program that runs
    launches,     \* launches made on each device
    trap,         \* the assertion that stopped the kernel
    known,        \* ghost: known[t][u] accesses of u happen before t's next one
    carried       \* ghost: what an acquire of the cell synchronises with

threadVars == <<vectorClock, buffer, ready>>
shadowVars == <<shadow, cellLock>>
runVars == <<program, launches, trap>>
ghostVars == <<known, carried>>
vars == <<threadVars, lock, shadowVars, worker, runVars, ghostVars>>

NoTrap == [message |-> "none"]
NoClock == [t \in Threads |-> 0]

\* The ghost n numbers the access the clock stands for, and propagated marks
\* the clock of a relaxed write that continues a release sequence.
EmptyScalarClock ==
    [epoch |-> 0, threadId |-> 0, scope |-> "nonatomic", isRelease |-> FALSE,
     n |-> 0, propagated |-> FALSE]

ReadSlots == 1 .. ReadClockSize

NoOperation == [kind |-> "none", cells |-> <<>>, sem |-> "relaxed", scope |-> "nonatomic"]

\* A worker at the entry of its kernel: next cell of its range (idx), and the
\* registers of initThread (epoch, word) and endAtomicAccess (token, snapshot).
AtEntry == [pc |-> "entry", done |-> 0, op |-> NoOperation, idx |-> 1, epoch |-> 0,
            word |-> [dirty |-> FALSE, head |-> 0], token |-> 0, snapshot |-> NoClock]

Init ==
    /\ vectorClock = [t \in Threads |-> NoClock]
    /\ buffer = [t \in Threads |->
                   [dirty |-> FALSE, head |-> 0, slots |-> [i \in 0 .. ClockBufferSize - 1 |-> NoClock]]]
    /\ ready = {}
    /\ lock = [t \in Threads |-> [readers |-> {}, writers |-> {}]]
    /\ shadow = [c \in Cells |-> [reads |-> [i \in ReadSlots |-> EmptyScalarClock],
                                  write |-> EmptyScalarClock, numReads |-> 0]]
    /\ cellLock = [c \in Cells |-> NoWorker]
    /\ program \in Programs
    /\ launches = [d \in Devices |-> Min({1, program.launches[d]})]
    /\ worker = [w \in Workers |-> IF launches[Device(SmOf[w])] = 0
                                    THEN [AtEntry EXCEPT !.pc = "exited"] ELSE AtEntry]
    /\ trap = NoTrap
    /\ known = [t \in Threads |-> NoClock]
    /\ carried = [c \in Cells |-> NoClock]

-----------------------------------------------------------------------------
(* Clocks                                                                  *)

Join(f, g) == [t \in Threads |-> IF f[t] < g[t] THEN g[t] ELSE f[t]]
Dominates(f, g) == \A t \in Threads : f[t] >= g[t]

HasAcquire(sem) == sem \in {"acquire", "acq_rel"}
HasRelease(sem) == sem \in {"release", "acq_rel"}

ScopeCoversPair(scope, t, u) ==
    \/ scope = "cta" /\ t = u
    \/ scope = "gpu" /\ Device(t) = Device(u)
    \/ scope = "sys"

AreAtomicScopesCompatible(scope1, t, scope2, u) ==
    ScopeCoversPair(scope1, t, u) /\ ScopeCoversPair(scope2, t, u)

\* getClockBufferSlot: the ring slot of a release write, and the assertions on
\* its token.
Slot(clock) == buffer[clock.threadId].slots[clock.epoch % ClockBufferSize]

TokenVerdict(clock) ==
    LET head == buffer[clock.threadId].head IN
    CASE clock.epoch = 0                        -> "invalid token"
      [] clock.epoch > head                     -> "future token"
      [] head - clock.epoch >= ClockBufferSize  -> "token overwritten"
      [] OTHER                                  -> "ok"

\* clockHappensBefore, with the token assertions passed.
HappensBefore(t, clock) ==
    \/ clock.epoch = 0
    \/ IF clock.isRelease THEN Dominates(vectorClock[t], Slot(clock))
                          ELSE vectorClock[t][clock.threadId] >= clock.epoch

\* Slip: no exemption for two atomics in scopes that include each other.
UnscopedVerdict(t, scope, prior, message) ==
    IF prior.isRelease /\ prior.epoch # 0 /\ TokenVerdict(prior) # "ok" THEN TokenVerdict(prior)
    ELSE IF HappensBefore(t, prior) THEN "ok" ELSE message

\* assertOrderedOrCompatible: "ok" or the assertion that fails.
Verdict(t, scope, prior, message) ==
    IF \/ prior.epoch = 0
       \/ AreAtomicScopesCompatible(scope, t, prior.scope, prior.threadId)
    THEN "ok"
    ELSE IF prior.isRelease /\ TokenVerdict(prior) # "ok" THEN TokenVerdict(prior)
    ELSE IF HappensBefore(t, prior) THEN "ok" ELSE message

RaceMessages == {"read after write", "write after read", "write after write"}

Check(t, scope, prior, message) ==
    [prior |-> prior, verdict |-> Verdict(t, scope, prior, message)]

\* The checks of a read and of a write of cell c, in the order of the code.
ReadChecks(t, scope, c) == <<Check(t, scope, shadow[c].write, "read after write")>>

WriteChecks(t, scope, c) ==
    [i \in 1 .. ReadClockSize + 1 |->
        IF i \in ReadSlots
        THEN Check(t, scope, shadow[c].reads[i], "write after read")
        ELSE Check(t, scope, shadow[c].write, "write after write")]

\* maybeMergeAcquire: whether a write is one to synchronise with, and the
\* assertions on its token.
SynchronizesWith(t, scope, prior) ==
    prior.isRelease /\ AreAtomicScopesCompatible(scope, t, prior.scope, prior.threadId)

AcquireCheck(t, scope, prior) ==
    [prior |-> prior,
     verdict |-> IF SynchronizesWith(t, scope, prior) THEN TokenVerdict(prior) ELSE "ok"]

Failures(checks) == {i \in DOMAIN checks : checks[i].verdict # "ok"}

-----------------------------------------------------------------------------
(* Workers                                                                 *)

Running(w, label) == trap = NoTrap /\ worker[w].pc = label

Goto(w, label) == worker' = [worker EXCEPT ![w].pc = label]

\* __assertfail: the first failed assertion stops the kernel.
Stop(w, scope, check) ==
    /\ trap' = [message |-> check.verdict, prior |-> check.prior,
                thread |-> SmOf[w], scope |-> scope]
    /\ UNCHANGED <<threadVars, lock, shadowVars, worker, program, launches, ghostVars>>

StopAtFirst(w, scope, checks) == Stop(w, scope, checks[Min(Failures(checks))])

Overflow(message) == [prior |-> EmptyScalarClock, verdict |-> message]

-----------------------------------------------------------------------------
(* __triton_gsan_init: getThreadState, then initThread.                    *)

\* getThreadState tests the globals pointer; an unset one sends the worker to
\* the stores of the initialisation.
Enter(w) ==
    /\ Running(w, "entry")
    /\ Goto(w, IF SmOf[w] \in ready THEN "init" ELSE "lazyInit")
    /\ UNCHANGED <<threadVars, lock, shadowVars, runVars, ghostVars>>

LazyInit(w) ==
    /\ Running(w, "lazyInit")
    /\ buffer' = [buffer EXCEPT ![SmOf[w]].dirty = FALSE, ![SmOf[w]].head = 0]
    /\ ready' = ready \cup {SmOf[w]}
    /\ Goto(w, "init")
    /\ UNCHANGED <<vectorClock, lock, shadowVars, runVars, ghostVars>>

\* initThread: clock[tid] += 1 is a load and a store, no lock held ...
LoadEpoch(w) ==
    LET t == SmOf[w] IN
    /\ Running(w, "init")
    /\ IF vectorClock[t][t] = MaxEpoch
       THEN Stop(w, "nonatomic", Overflow("clock overflow"))
       ELSE /\ worker' = [worker EXCEPT ![w].pc = "storeEpoch", ![w].epoch = vectorClock[t][t]]
            /\ UNCHANGED <<threadVars, lock, shadowVars, runVars, ghostVars>>

\* Slip: the clock of the launch before is not preserved.
RestartingStoreEpoch(w) ==
    LET t == SmOf[w] IN
    /\ Running(w, "storeEpoch")
    /\ vectorClock' = [vectorClock EXCEPT ![t][t] = 1]
    /\ Goto(w, "loadWord")
    /\ UNCHANGED <<buffer, ready, lock, shadowVars, runVars, ghostVars>>

StoreEpoch(w) ==
    LET t == SmOf[w] IN
    /\ Running(w, "storeEpoch")
    /\ vectorClock' = [vectorClock EXCEPT ![t][t] = worker[w].epoch + 1]
    /\ Goto(w, "loadWord")
    /\ UNCHANGED <<buffer, ready, lock, shadowVars, runVars, ghostVars>>

\* ... and clockBufferDirty = 1 loads and stores the word it shares with
\* clockBufferHead.
LoadWord(w) ==
    LET b == buffer[SmOf[w]] IN
    /\ Running(w, "loadWord")
    /\ worker' = [worker EXCEPT ![w].pc = "storeWord",
                                ![w].word = [dirty |-> b.dirty, head |-> b.head]]
    /\ UNCHANGED <<threadVars, lock, shadowVars, runVars, ghostVars>>

StoreWord(w) ==
    /\ Running(w, "storeWord")
    /\ buffer' = [buffer EXCEPT ![SmOf[w]].dirty = TRUE, ![SmOf[w]].head = worker[w].word.head]
    /\ Goto(w, "idle")
    /\ UNCHANGED <<vectorClock, ready, lock, shadowVars, runVars, ghostVars>>

\* The kernel's next instrumented instruction, or its end.
Issue(w, op) ==
    /\ Running(w, "idle")
    /\ worker[w].done < program.accesses
    /\ worker' = [worker EXCEPT ![w].pc = IF op.kind \in {"load", "store"} THEN "lockRead" ELSE "lockWrite",
                                ![w].op = op, ![w].idx = 1, ![w].done = @ + 1]
    /\ UNCHANGED <<threadVars, lock, shadowVars, runVars, ghostVars>>

Exit(w) ==
    /\ Running(w, "idle")
    /\ Goto(w, "exited")
    /\ UNCHANGED <<threadVars, lock, shadowVars, runVars, ghostVars>>

-----------------------------------------------------------------------------
(* Locks: the ThreadState's, then the cells of the range in address order. *)

Op(w) == worker[w].op
CurrentCell(w) == Op(w).cells[worker[w].idx]
RangeDone(w) == worker[w].idx > Len(Op(w).cells)
CellsOf(op) == {op.cells[i] : i \in DOMAIN op.cells}

AcquireRead(w) ==
    LET t == SmOf[w] IN
    /\ Running(w, "lockRead")
    /\ lock[t].writers = {}
    /\ lock' = [lock EXCEPT ![t].readers = @ \cup {w}]
    /\ Goto(w, "range")
    /\ UNCHANGED <<threadVars, shadowVars, runVars, ghostVars>>

AcquireWrite(w) ==
    LET t == SmOf[w] IN
    /\ Running(w, "lockWrite")
    /\ lock[t].writers = {} /\ lock[t].readers = {}
    /\ lock' = [lock EXCEPT ![t].writers = {w}]
    /\ Goto(w, "range")
    /\ UNCHANGED <<threadVars, shadowVars, runVars, ghostVars>>

\* acquireShadow of the next cell.  writeRange and readRange work on the cell
\* and release it before the next one, acquireAtomicShadowRange keeps it.
AcquireShadow(w) ==
    LET atomic == Op(w).kind \in {"rmw", "cas"}
        last == worker[w].idx = Len(Op(w).cells) IN
    /\ Running(w, "range")
    /\ ~RangeDone(w)
    /\ cellLock[CurrentCell(w)] = NoWorker
    /\ cellLock' = [cellLock EXCEPT ![CurrentCell(w)] = w]
    /\ worker' = [worker EXCEPT
                    ![w].pc = IF ~atomic THEN "access" ELSE IF last THEN "begin" ELSE "range",
                    ![w].idx = IF atomic THEN @ + 1 ELSE @]
    /\ UNCHANGED <<threadVars, lock, shadow, runVars, ghostVars>>

ReleaseRead(w) ==
    LET t == SmOf[w] IN
    /\ Running(w, "range")
    /\ Op(w).kind \in {"load", "store"} /\ RangeDone(w)
    /\ lock' = [lock EXCEPT ![t].readers = @ \ {w}]
    /\ Goto(w, "idle")
    /\ UNCHANGED <<threadVars, shadowVars, runVars, ghostVars>>

\* Slip: the first cell only is released.
FirstCellReleaseAtomicShadowRange(w) ==
    LET t == SmOf[w] IN
    /\ Running(w, "release")
    /\ cellLock' = [cellLock EXCEPT ![Op(w).cells[1]] = NoWorker]
    /\ lock' = [lock EXCEPT ![t].writers = @ \ {w}]
    /\ Goto(w, "idle")
    /\ UNCHANGED <<threadVars, shadow, runVars, ghostVars>>

ReleaseAtomicShadowRange(w) ==
    LET t == SmOf[w] IN
    /\ Running(w, "release")
    /\ cellLock' = [c \in Cells |-> IF c \in CellsOf(Op(w)) THEN NoWorker ELSE cellLock[c]]
    /\ lock' = [lock EXCEPT ![t].writers = @ \ {w}]
    /\ Goto(w, "idle")
    /\ UNCHANGED <<threadVars, shadow, runVars, ghostVars>>

-----------------------------------------------------------------------------
(* Plain accesses: tensorLoad and tensorStore.                             *)

\* makeScalarClock for access n of thread t.
ScalarClock(t, scope, n) ==
    [epoch |-> vectorClock[t][t], threadId |-> t, scope |-> scope, isRelease |-> FALSE,
     n |-> n, propagated |-> FALSE]

\* makePublishedClock.
PublishedClock(t, scope, token, n, propagated) ==
    [epoch |-> token, threadId |-> t, scope |-> scope, isRelease |-> TRUE,
     n |-> n, propagated |-> propagated]

\* Slip: the hash picks a slot while some are free.
HashedReadSlotChoices(t, c) == 1 .. Max({1, shadow[c].numReads})

\* recordRead: the first slot that is the thread's own or empty, else one the
\* hash picks among as many as there were reads; past the slots, none.
ReadSlotChoices(t, c) ==
    LET cell == shadow[c]
        usable == {i \in ReadSlots : cell.reads[i].threadId = t \/ cell.reads[i].epoch = 0} IN
    IF usable # {} THEN {Min(usable)} ELSE 1 .. cell.numReads

RecordRead(cell, slot, clock) ==
    [cell EXCEPT !.numReads = @ + 1,
                 !.reads = IF slot \in ReadSlots THEN [@ EXCEPT ![slot] = clock] ELSE @]

\* The thread's next access, in the ghost's count.
NextAccess(t) == known[t][t] + 1
CountAccess(t) == known' = [known EXCEPT ![t][t] = @ + 1]

\* The cell is done with: its lock is free and the range moves on.
ReleaseShadow(w) ==
    /\ cellLock' = [cellLock EXCEPT ![CurrentCell(w)] = NoWorker]
    /\ worker' = [worker EXCEPT ![w].pc = "range", ![w].idx = @ + 1]

DoRead(w) ==
    LET t == SmOf[w]
        c == CurrentCell(w)
        checks == ReadChecks(t, "nonatomic", c) IN
    /\ Running(w, "access") /\ Op(w).kind = "load"
    /\ IF Failures(checks) # {}
       THEN StopAtFirst(w, "nonatomic", checks)
       ELSE /\ \E slot \in ReadSlotChoices(t, c) :
                  shadow' = [shadow EXCEPT ![c] =
                               RecordRead(@, slot, ScalarClock(t, "nonatomic", NextAccess(t)))]
            /\ CountAccess(t)
            /\ ReleaseShadow(w)
            /\ UNCHANGED <<threadVars, lock, runVars, carried>>

DoWrite(w) ==
    LET t == SmOf[w]
        c == CurrentCell(w)
        checks == WriteChecks(t, "nonatomic", c) IN
    /\ Running(w, "access") /\ Op(w).kind = "store"
    /\ IF Failures(checks) # {}
       THEN StopAtFirst(w, "nonatomic", checks)
       ELSE /\ shadow' = [shadow EXCEPT ![c].write = ScalarClock(t, "nonatomic", NextAccess(t))]
            /\ carried' = [carried EXCEPT ![c] = NoClock]
            /\ CountAccess(t)
            /\ ReleaseShadow(w)
            /\ UNCHANGED <<threadVars, lock, runVars>>

-----------------------------------------------------------------------------
(* Atomic accesses: beginAtomicAccess, the atomic, endAtomicAccess.        *)

\* f applied to each cell of an operation, in address order.
OverCells(op, f(_)) == [i \in DOMAIN op.cells |-> f(op.cells[i])]

BeginChecks(t, op) ==
    OverCells(op, LAMBDA c : ReadChecks(t, op.scope, c)[1])
      \o IF HasAcquire(op.sem)
         THEN OverCells(op, LAMBDA c : AcquireCheck(t, op.scope, shadow[c].write))
         ELSE <<>>

\* The cells whose write an acquire synchronises with.
Synchronizing(t, op) ==
    {c \in CellsOf(op) : HasAcquire(op.sem) /\ SynchronizesWith(t, op.scope, shadow[c].write)}

\* The elementwise maximum of some clocks.
Maximum(clocks) == [t \in Threads |-> Max({f[t] : f \in clocks})]

BeginAtomic(w) ==
    LET t == SmOf[w]
        op == Op(w)
        checks == BeginChecks(t, op)
        joined == Maximum({vectorClock[t]} \cup {Slot(shadow[c].write) : c \in Synchronizing(t, op)})
        learnt == Maximum({known[t]} \cup {carried[c] : c \in Synchronizing(t, op)})
        clock == ScalarClock(t, op.scope, NextAccess(t)) IN
    /\ Running(w, "begin")
    /\ IF Failures(checks) # {}
       THEN StopAtFirst(w, op.scope, checks)
       ELSE /\ \E slot \in [CellsOf(op) -> UNION {ReadSlotChoices(t, c) : c \in CellsOf(op)}] :
                  /\ \A c \in CellsOf(op) : slot[c] \in ReadSlotChoices(t, c)
                  /\ shadow' = [c \in Cells |-> IF c \in CellsOf(op)
                                                THEN RecordRead(shadow[c], slot[c], clock)
                                                ELSE shadow[c]]
            /\ vectorClock' = [vectorClock EXCEPT ![t] = joined]
            /\ buffer' = [buffer EXCEPT ![t].dirty = @ \/ joined # vectorClock[t]]
            /\ known' = [known EXCEPT ![t] = [learnt EXCEPT ![t] = NextAccess(t)]]
            /\ Goto(w, "end")
            /\ UNCHANGED <<ready, lock, cellLock, runVars, carried>>

EndChecks(t, op) ==
    LET perCell == ReadClockSize + 1 IN
    [i \in 1 .. perCell * Len(op.cells) |->
        WriteChecks(t, op.scope, op.cells[((i - 1) \div perCell) + 1])[((i - 1) % perCell) + 1]]

\* endAtomicAccess up to the choice of the new write clock: a release publishes
\* the vector clock, any other write of a cell with a release write passes that
\* write's snapshot on, the rest leave a scalar clock.
EndAtomic(w) ==
    LET t == SmOf[w]
        op == Op(w)
        previous == shadow[op.cells[1]].write
        checks == EndChecks(t, op) \o
                    IF ~HasRelease(op.sem) /\ previous.isRelease
                    THEN <<[prior |-> previous, verdict |-> TokenVerdict(previous)]>>
                    ELSE <<>> IN
    /\ Running(w, "end")
    /\ IF Failures(checks) # {}
       THEN StopAtFirst(w, op.scope, checks)
       ELSE /\ worker' = [worker EXCEPT
                  ![w].pc = IF \/ HasRelease(op.sem) /\ buffer[t].dirty
                               \/ ~HasRelease(op.sem) /\ previous.isRelease
                            THEN "fill" ELSE "commit",
                  ![w].token = IF HasRelease(op.sem) THEN buffer[t].head ELSE 0,
                  ![w].snapshot = IF HasRelease(op.sem) THEN vectorClock[t]
                                  ELSE IF previous.isRelease THEN Slot(previous) ELSE @]
            /\ UNCHANGED <<threadVars, lock, shadowVars, runVars, ghostVars>>

\* A compare-and-swap that stored nothing.
EndFailedCas(w) ==
    /\ Running(w, "end") /\ Op(w).kind = "cas"
    /\ Goto(w, "release")
    /\ UNCHANGED <<threadVars, lock, shadowVars, runVars, ghostVars>>

\* appendClockBufferSnapshot: the slot after the head is filled ...
FillSlot(w) ==
    LET t == SmOf[w]
        next == buffer[t].head + 1 IN
    /\ Running(w, "fill")
    /\ IF next > MaxEpoch
       THEN Stop(w, Op(w).scope, Overflow("token overflow"))
       ELSE /\ buffer' = [buffer EXCEPT ![t].slots[next % ClockBufferSize] = worker[w].snapshot]
            /\ worker' = [worker EXCEPT ![w].pc = "moveHead", ![w].token = next]
            /\ UNCHANGED <<vectorClock, ready, lock, shadowVars, runVars, ghostVars>>

\* ... and then the head moves; the buffer stays dirty when the snapshot was
\* another thread's.
MoveHead(w) ==
    LET t == SmOf[w] IN
    /\ Running(w, "moveHead")
    /\ buffer' = [buffer EXCEPT ![t].head = worker[w].token, ![t].dirty = ~HasRelease(Op(w).sem)]
    /\ Goto(w, "commit")
    /\ UNCHANGED <<vectorClock, ready, lock, shadowVars, runVars, ghostVars>>

\* The clock an atomic write leaves: a release's token, the token of a release
\* sequence it continues, else its epoch; and what an acquire of it learns.
Continues(op) == ~HasRelease(op.sem) /\ shadow[op.cells[1]].write.isRelease

NewWriteClock(w) ==
    LET t == SmOf[w]
        op == Op(w) IN
    IF HasRelease(op.sem) \/ Continues(op)
    THEN PublishedClock(t, op.scope, worker[w].token, known[t][t], Continues(op))
    ELSE ScalarClock(t, op.scope, known[t][t])

Released(w) ==
    LET op == Op(w) IN
    CASE HasRelease(op.sem) -> known[SmOf[w]]
      [] Continues(op)      -> carried[op.cells[1]]
      [] OTHER              -> NoClock

\* Slip: a release leaves the epoch as it is.
SameEpochCommitWrite(w) ==
    LET op == Op(w) IN
    /\ Running(w, "commit")
    /\ shadow' = [c \in Cells |-> IF c \in CellsOf(op) THEN [shadow[c] EXCEPT !.write = NewWriteClock(w)]
                                  ELSE shadow[c]]
    /\ carried' = [c \in Cells |-> IF c \in CellsOf(op) THEN Released(w) ELSE carried[c]]
    /\ Goto(w, "release")
    /\ UNCHANGED <<threadVars, lock, cellLock, runVars, known>>

\* The new write clock goes to every cell; a release starts a new epoch.
CommitWrite(w) ==
    LET t == SmOf[w]
        op == Op(w) IN
    /\ Running(w, "commit")
    /\ IF HasRelease(op.sem) /\ vectorClock[t][t] = MaxEpoch
       THEN Stop(w, op.scope, Overflow("clock overflow"))
       ELSE /\ shadow' = [c \in Cells |-> IF c \in CellsOf(op)
                                          THEN [shadow[c] EXCEPT !.write = NewWriteClock(w)]
                                          ELSE shadow[c]]
            /\ carried' = [c \in Cells |-> IF c \in CellsOf(op) THEN Released(w) ELSE carried[c]]
            /\ vectorClock' = IF HasRelease(op.sem) THEN [vectorClock EXCEPT ![t][t] = @ + 1]
                              ELSE vectorClock
            /\ buffer' = [buffer EXCEPT ![t].dirty = @ \/ HasRelease(op.sem)]
            /\ Goto(w, "release")
            /\ UNCHANGED <<ready, lock, cellLock, runVars, known>>

-----------------------------------------------------------------------------
(* synchronize_launch_stream: the kernel queued behind a launch gives every *)
(* SM of the device the join of their clocks; then the next launch enters.  *)

OnDevice(d) == {w \in Workers : Device(SmOf[w]) = d}

SynchronizeLaunchStream(d) ==
    LET atEnd(clocks) == Maximum({clocks[t] : t \in Sms(d)}) IN
    /\ trap = NoTrap
    /\ launches[d] < program.launches[d]
    /\ \A w \in OnDevice(d) : worker[w].pc = "exited"
    /\ vectorClock' = [t \in Threads |-> IF t \in Sms(d) THEN atEnd(vectorClock) ELSE vectorClock[t]]
    /\ known' = [t \in Threads |-> IF t \in Sms(d) THEN atEnd(known) ELSE known[t]]
    /\ worker' = [w \in Workers |-> IF w \in OnDevice(d) THEN AtEntry ELSE worker[w]]
    /\ launches' = [launches EXCEPT ![d] = @ + 1]
    /\ UNCHANGED <<buffer, ready, lock, shadowVars, program, trap, carried>>

-----------------------------------------------------------------------------
Step(w) ==
    \/ Enter(w) \/ LazyInit(w) \/ LoadEpoch(w) \/ StoreEpoch(w) \/ LoadWord(w) \/ StoreWord(w)
    \/ AcquireRead(w) \/ AcquireWrite(w) \/ AcquireShadow(w) \/ ReleaseRead(w)
    \/ DoRead(w) \/ DoWrite(w)
    \/ BeginAtomic(w) \/ EndAtomic(w) \/ EndFailedCas(w) \/ FillSlot(w) \/ MoveHead(w)
    \/ CommitWrite(w) \/ ReleaseAtomicShadowRange(w)

\* A worker that finds a lock taken tries again.
Spin(w) ==
    LET t == SmOf[w] IN
    /\ \/ Running(w, "lockRead") /\ lock[t].writers # {}
       \/ Running(w, "lockWrite") /\ (lock[t].writers # {} \/ lock[t].readers # {})
       \/ Running(w, "range") /\ ~RangeDone(w) /\ cellLock[CurrentCell(w)] # NoWorker
    /\ UNCHANGED vars

\* Nothing is left to run: the kernel trapped, or the last launch is over.
Finished == \/ trap # NoTrap
            \/ /\ \A w \in Workers : worker[w].pc = "exited"
               /\ launches = program.launches

Stutter == Finished /\ UNCHANGED vars

Next == \/ \E w \in Workers : Step(w) \/ Spin(w) \/ Exit(w) \/ \E op \in program.operations : Issue(w, op)
        \/ \E d \in Devices : SynchronizeLaunchStream(d)
        \/ Stutter

Spec == Init /\ [][Next]_vars

\* The GPU schedules every resident thread that can run.
FairSpec == Spec /\ \A w \in Workers : WF_vars(Step(w))

-----------------------------------------------------------------------------
ScalarClockType == [epoch : 0 .. MaxEpoch, threadId : Threads, scope : Scopes,
                    isRelease : BOOLEAN, n : Nat, propagated : BOOLEAN]

ClockType == [Threads -> 0 .. MaxEpoch]

PCs == {"entry", "lazyInit", "init", "storeEpoch", "loadWord", "storeWord", "idle", "lockRead",
        "lockWrite", "range", "access", "begin", "end", "fill", "moveHead", "commit", "release", "exited"}

TypeOK ==
    /\ vectorClock \in [Threads -> ClockType]
    /\ \A t \in Threads : /\ buffer[t].dirty \in BOOLEAN
                          /\ buffer[t].head \in 0 .. MaxEpoch
                          /\ buffer[t].slots \in [0 .. ClockBufferSize - 1 -> ClockType]
    /\ ready \subseteq Threads
    /\ lock \in [Threads -> [readers : SUBSET Workers, writers : SUBSET Workers]]
    /\ \A c \in Cells : /\ shadow[c].reads \in [ReadSlots -> ScalarClockType]
                        /\ shadow[c].write \in ScalarClockType
                        /\ shadow[c].numReads \in Nat
    /\ cellLock \in [Cells -> Workers \cup {NoWorker}]
    /\ \A w \in Workers : worker[w].pc \in PCs
    /\ program \in Programs
    /\ \A d \in Devices : launches[d] \in 0 .. program.launches[d]

\* The lock is there to control access to the vector clock and the clock buffer
\* (GSan.h): no epoch an SM has entered is taken back.
EpochsGrow == [][\A t \in Threads : vectorClock'[t][t] >= vectorClock[t][t]]_vars

\* No SM and no published snapshot knows an epoch its owner has not reached.
ClocksBounded ==
    \A t, u \in Threads : /\ vectorClock[t][u] <= vectorClock[u][u]
                          /\ \A i \in DOMAIN buffer[t].slots : buffer[t].slots[i][u] <= vectorClock[u][u]

RecordedClocks(c) ==
    {clock \in {shadow[c].write} \cup {shadow[c].reads[i] : i \in ReadSlots} : clock.epoch # 0}

\* What happens-before says of a recorded access: t's next access follows it.
\* The write that continues a release sequence stands for the sequence's head.
Ordered(t, c, clock) == IF clock.propagated THEN Dominates(known[t], carried[c])
                        ELSE known[t][clock.threadId] >= clock.n

\* The heart of the detector: for every SM and every clock in a shadow cell, the
\* test clockHappensBefore makes on epochs, tokens and ring slots says what
\* happens-before says of the accesses.  A test that is too weak misses a
\* race, one that is too strong reports one that is not there.
ClocksExact ==
    \A t \in Threads, c \in Cells : \A clock \in RecordedClocks(c) :
        HappensBefore(t, clock) <=> Ordered(t, c, clock)

\* A reported race is one: the two accesses are not ordered by happens-before
\* and are not both atomic in scopes that include each other.
AlarmIsRace ==
    trap.message \in RaceMessages =>
        /\ \A c \in Cells : trap.prior \in RecordedClocks(c) => ~Ordered(trap.thread, c, trap.prior)
        /\ ~AreAtomicScopesCompatible(trap.scope, trap.thread, trap.prior.scope, trap.prior.threadId)

\* The detector stops a kernel for a race or because a counter of its own is
\* exhausted, never over a token it handed out itself.
NoTokenTrap == trap.message \notin {"invalid token", "future token", "token overwritten"}

Readers(c) == {shadow[c].reads[i].threadId : i \in {j \in ReadSlots : shadow[c].reads[j].epoch # 0}}

\* recordRead forgets no reader while a slot is free, and gives an SM one slot.
ReadersKept ==
    [][\A c \in Cells :
         /\ (\E i \in ReadSlots : shadow[c].reads[i].epoch = 0) => Readers(c) \subseteq Readers(c)'
         /\ Cardinality(Readers(c)') =
              Cardinality({i \in ReadSlots : shadow'[c].reads[i].epoch # 0})]_vars

\* getClockBufferSlot asserts that a token whose slot was overwritten is not
\* read: an SM about to check a cell is not let through to a slot that its
\* owner has begun to fill for a later token.
OverwrittenRejected ==
    \A c \in Cells, v, w \in Workers :
        LET write == shadow[c].write IN
        ( /\ cellLock[c] = v /\ worker[v].pc \in {"access", "begin", "end"}
          /\ write.isRelease /\ write.threadId = SmOf[w] /\ SmOf[v] # SmOf[w]
          /\ worker[w].pc = "moveHead"
          /\ worker[w].token % ClockBufferSize = write.epoch % ClockBufferSize )
        => TokenVerdict(write) # "ok"

\* getThreadState's comment: workers that race to initialise a ThreadState
\* write identical values, so a late one changes nothing.
LazyInitIdempotent == [][\A w \in Workers : LazyInit(w) /\ SmOf[w] \in ready => buffer' = buffer]_vars

\* The workers that hold the lock w spins on.
WaitsFor(w) ==
    LET l == lock[SmOf[w]] IN
    CASE worker[w].pc = "lockRead"  -> l.writers
      [] worker[w].pc = "lockWrite" -> l.writers \cup l.readers
      [] worker[w].pc = "range" /\ ~RangeDone(w) -> {cellLock[CurrentCell(w)]} \ {NoWorker}
      [] OTHER -> {}

\* acquireAtomicShadowRange holds several cells at once, and its FIXME fears a
\* deadlock.  No workers wait for each other in a circle, and none waits for
\* a worker that is through with its access and left a lock behind.
NoDeadlock ==
    /\ \A S \in (SUBSET Workers) \ {{}} : \E w \in S : WaitsFor(w) \cap S = {}
    /\ \A w \in Workers, v \in Workers : v \in WaitsFor(w) => worker[v].pc \notin {"idle", "exited"}

\* No spin lock keeps a worker forever: the ThreadState's lock comes before the
\* cells and the cells are taken in address order.
AccessCompletes ==
    \A w \in Workers : worker[w].pc \in {"lockRead", "lockWrite"} ~>
                          worker[w].pc = "idle" \/ trap # NoTrap

\* The detector's own tables stay sound: no clock runs ahead of its owner and no
\* token it handed out is refused.
TablesSound == TypeOK /\ ClocksBounded /\ NoTokenTrap
=============================================================================
