------------------------------- MODULE ConSan -------------------------------
(* The concurrency sanitizer (lib/Dialect/TritonInstrument).  The pass puts  *)
(* before and after every memory or barrier operation of a kernel a critical *)
(* section that updates tables in scratch memory and asserts on them.  This  *)
(* module is the run time of those critical sections for one CTA: the tables *)
(* (`aux'), where each partition of the kernel is (`pc'), and, to state what *)
(* the tables are for, the accesses made and what each logical thread has    *)
(* been told of them (`log').  One action is one critical section.           *)
(*                                                                           *)
(* A logical thread is a partition and an issuer class: the warps of a       *)
(* partition issue TMA and tensor core operations that run on their own.     *)
EXTENDS Integers, FiniteSets, SequencesExt

CONSTANTS
  Parts,         \* partitions of the warp-specialized region
  Default,       \* the partition that runs before and after the region
  Buffers,       \* tracked regions of shared and tensor memory
  Overlaps,      \* the alias matrix: [Buffers -> SUBSET Buffers]
  Barriers,      \* mbarrier allocations
  Menus,         \* each of them the operations of one kernel's partitions
  Prologue,      \* each of them what Default executes before the region
  Budget,        \* operations of a partition in the region: [Parts -> Nat] (bound)
  AfterJoin,     \* operations of Default after the region (bound)
  CountBits      \* width of a commit counter, 8 in the code (bound)

ASSUME PartsAssumption == IsFiniteSet(Parts) /\ Default \in Parts
ASSUME OverlapsAssumption ==
  /\ Overlaps \in [Buffers -> SUBSET Buffers]
  /\ \A b \in Buffers : b \in Overlaps[b] /\ \A c \in Overlaps[b] : b \in Overlaps[c]
ASSUME BoundsAssumption ==
  Budget \in [Parts -> Nat] /\ AfterJoin \in Nat /\ CountBits \in Nat \ {0, 1}

VARIABLES
  aux,    \* the tables in scratch memory, and the assertion that trapped
  pc,     \* where each partition is
  left,   \* what each partition may still execute
  menu,   \* the operations of this kernel
  log     \* ghost: the accesses made, and who has been told of them
vars == <<aux, pc, left, menu, log>>

Kinds == {"AsyncCp", "Wgmma", "TmaStore"}
Threads == Parts \X {"base", "tma", "tc"}
Base(p) == <<p, "base">>

(* What a synchronous access of a partition is visible to: itself and what   *)
(* it issues next.  An asynchronous issuer sees only its own.                *)
Peers(th) == IF th[2] = "base" THEN {u \in Threads : u[1] = th[1]} ELSE {th}

NoBarrier == [init |-> 0, current |-> 0, tx |-> 0, phase |-> 0]
NotWaiting == 2

(***************************************************************************)
(* The operations, as the target hooks describe them.                      *)
(***************************************************************************)
R(b) == [rw |-> "R", buf |-> b]
W(b) == [rw |-> "W", buf |-> b]
Frontier(bar, count, tx) == [bar |-> bar, mode |-> "Frontier", count |-> count, tx |-> tx]
EffectWrites(bar, tx) == [bar |-> bar, mode |-> "EffectWrites", count |-> 0, tx |-> tx]

Tracked(class, effects, bars) ==
  [class |-> class, effects |-> effects, bars |-> bars, kind |-> "None", implicit |-> FALSE]
Counted(class, effects, kind, implicit) ==
  [class |-> class, effects |-> effects, bars |-> <<>>, kind |-> kind, implicit |-> implicit]

MemEffects(op) ==
  CASE op.name = "local_load"  -> Tracked("base", <<R(op.buf)>>, <<>>)
    [] op.name = "local_store" -> Tracked("base", <<W(op.buf)>>, <<>>)
    [] op.name = "arrive"      -> Tracked("base", <<>>, <<Frontier(op.bar, 1, 0)>>)
    [] op.name = "expect"      -> Tracked("base", <<>>, <<Frontier(op.bar, 1, 1)>>)
    [] op.name = "tma_load"    -> Tracked("tma", <<W(op.buf)>>, <<EffectWrites(op.bar, -1)>>)
    [] op.name = "mma"         -> Tracked("tc", <<R(op.buf), W(op.acc)>>, <<Frontier(op.bar, 1, 0)>>)
    [] op.name = "tc_commit"   -> Tracked("tc", <<>>, <<Frontier(op.bar, 1, 0)>>)
    [] op.name = "async_copy"  -> Counted("base", <<W(op.buf)>>, "AsyncCp", FALSE)
    [] op.name = "wgmma"       -> Counted("base", <<R(op.buf)>>, "Wgmma", TRUE)
    [] op.name = "tma_store"   -> Counted("tma", <<R(op.buf)>>, "TmaStore", TRUE)

(* Which kind of outstanding operation a wait operation retires.             *)
RetiresOf == [async_wait |-> "AsyncCp", wgmma_wait |-> "Wgmma", tma_store_wait |-> "TmaStore"]

(***************************************************************************)
(* The tables.  One operator per function the pass emits calls to; an      *)
(* assertion that fails traps the kernel, so the first one is the verdict. *)
(***************************************************************************)
Check(a, ok, message) == IF a.alarm = "none" /\ ~ok THEN [a EXCEPT !.alarm = message] ELSE a

(* Slip: the threads that saw the earlier write are kept.                    *)
AddingSetWriteVisibility(a, b, ths) == [a EXCEPT !.writeVis[b] = @ \union ths]
SetWriteVisibility(a, b, ths) == [a EXCEPT !.writeVis[b] = ths]
SetReadVisibility(a, b, ths) ==
  [a EXCEPT !.readVis[b] = [u \in Threads |-> IF u \in ths THEN @[u] \union ths ELSE @[u]]]
ClearWriteTracking(a, b) == [a EXCEPT !.writeTrack = [m \in Barriers |-> @[m] \ {b}]]
ClearReadVisibility(a, b) == [a EXCEPT !.readVis[b] = [u \in Threads |-> {}]]
ClearReadTracking(a, b) == [a EXCEPT !.readTrack = [m \in Barriers |-> [@[m] EXCEPT ![b] = {}]]]

TrackVisibleWrites(a, m, th) ==
  [a EXCEPT !.writeTrack[m] = @ \union {b \in Buffers : th \in a.writeVis[b]}]
TrackVisibleReads(a, m, th) ==
  [a EXCEPT !.readTrack[m] = [b \in Buffers |-> @[b] \union a.readVis[b][th]]]
TrackBarrierWriteForBuffer(a, m, b) == [a EXCEPT !.writeTrack[m] = @ \union {b}]
ClearBarrierTracking(a, m) ==
  [a EXCEPT !.writeTrack[m] = {}, !.readTrack[m] = [b \in Buffers |-> {}]]
TransferVisibleWrites(a, m, ths) ==
  [a EXCEPT !.writeVis = [b \in Buffers |-> IF b \in a.writeTrack[m] THEN @[b] \union ths ELSE @[b]]]
TransferVisibleReads(a, m, ths) ==
  [a EXCEPT !.readVis = [b \in Buffers |-> [u \in Threads |->
      IF u \in ths THEN @[b][u] \union a.readTrack[m][b] ELSE @[b][u]]]]

VerifyWriteVisibility(a, b, th) ==
  Check(a, \A c \in Overlaps[b] : a.writeVis[c] = {} \/ th \in a.writeVis[c], "outstanding writes")
VerifyReadVisibility(a, b, th) ==
  Check(a, \A c \in Overlaps[b] : \A u \in Threads : a.readVis[c][u] \subseteq a.readVis[c][th],
        "outstanding reads")
(* Slip: only the writes are copied to the partitions.                       *)
WritesOnlyCopyVisibility(a, source, dests) ==
  [a EXCEPT !.writeVis = [b \in Buffers |-> (@[b] \ dests) \union (IF source \in @[b] THEN dests ELSE {})]]
CopyVisibility(a, source, dests) ==
  [a EXCEPT
    !.writeVis = [b \in Buffers |-> (@[b] \ dests) \union (IF source \in @[b] THEN dests ELSE {})],
    !.readVis = [b \in Buffers |-> [u \in Threads |-> IF u \in dests THEN @[b][source] ELSE @[b][u]]]]

(* Commit counters are signed words of CountBits bits.                       *)
Wrap(n) == IF n = 2^(CountBits - 1) THEN -(2^(CountBits - 1)) ELSE n
(* Slip: an access that is outstanding is not staged again.                  *)
FirstStageAccess(a, k, b, p) == [a EXCEPT !.commits[k][b][p] = IF @ = 0 THEN -1 ELSE @]
StageAccess(a, k, b, p) == [a EXCEPT !.commits[k][b][p] = -1]
CommitAccesses(a, k, p) ==
  [a EXCEPT !.commits[k] = [b \in Buffers |-> [@[b] EXCEPT ![p] =
      IF @ > 0 THEN Wrap(@ + 1) ELSE IF @ = -1 THEN 1 ELSE @]]]
CheckOutstandingCommits(a, k, b) ==
  Check(a, \A c \in Overlaps[b], p \in Parts : a.commits[k][c][p] = 0, "pending access")

(* A wait for at most n outstanding groups retires the older ones.  A        *)
(* retired read becomes visible to every thread of the CTA, a retired write  *)
(* only to the waiting partition, beside those that saw the write before it. *)
RetireCommits(a, k, p, n) ==
  LET rows == {b \in Buffers : a.commits[k][b][p] > n}
      ths == Peers(Base(p))
      cleared == [a EXCEPT !.commits[k] =
                    [b \in Buffers |-> IF b \in rows THEN [@[b] EXCEPT ![p] = 0] ELSE @[b]]]
  IN IF k = "AsyncCp"
     THEN [cleared EXCEPT !.writeVis = [b \in Buffers |-> IF b \in rows THEN @[b] \union ths ELSE @[b]]]
     ELSE [cleared EXCEPT !.readVis = [b \in Buffers |-> [u \in Threads |->
             IF b \in rows THEN @[b][u] \union ths ELSE @[b][u]]]]

VerifyBarrierCanInit(a, m) == Check(a, a.bar[m] = NoBarrier, "reinitialized")
VerifyBarrierInitialized(a, m) == Check(a, a.bar[m] # NoBarrier, "not initialized")
InitBarrierState(a, m, count) ==
  [a EXCEPT !.bar[m] = [init |-> count, current |-> count, tx |-> 0, phase |-> 0]]
InvalidateBarrierState(a, m) ==
  [a EXCEPT !.bar[m] = NoBarrier, !.waiting[m] = [p \in Parts |-> NotWaiting]]
VerifyBarrierArrive(a, m, count) == Check(a, a.bar[m].current - count >= 0, "arrive underflow")
UpdateBarrierState(a, m, count, tx) ==
  LET s == a.bar[m]
      next == [s EXCEPT !.current = @ - count, !.tx = @ + tx]
  IN [a EXCEPT !.bar[m] = IF next.current = 0 /\ next.tx = 0
                          THEN [s EXCEPT !.current = s.init, !.tx = 0, !.phase = 1 - @]
                          ELSE next]

SetWaiting(a, m, p, phase) == [a EXCEPT !.waiting[m][p] = phase]
ClearWaiting(a, m, p) == [a EXCEPT !.waiting[m][p] = NotWaiting]
SetActiveMask(a, ps) == [a EXCEPT !.active = ps]
RetireActiveThread(a, p) ==
  [a EXCEPT !.active = IF @ \ {p} = {} THEN {Default} ELSE @ \ {p}]
(* Slip: a waiter counts as stuck whatever the phase of its barrier.         *)
PhaselessStuck(a, p) == \E m \in Barriers : a.waiting[m][p] # NotWaiting
Stuck(a, p) == \E m \in Barriers : a.waiting[m][p] = a.bar[m].phase
CheckAllActiveWaiting(a) ==
  Check(a, a.active = {} \/ \E p \in a.active : ~Stuck(a, p), "deadlock")

(***************************************************************************)
(* What is true of the accesses.  A row is a buffer; a plain write starts  *)
(* it anew.  An access that repeats a read of its thread, or a copy that   *)
(* was waited for, is the same event again.                                *)
(***************************************************************************)
Event(b, rw, th, again) == [buf |-> b, rw |-> rw, th |-> th, again |-> again]
Forget(g, es) ==
  [g EXCEPT !.current = @ \ es, !.known = [u \in Threads |-> @[u] \ es],
            !.told = [m \in Barriers |-> @[m] \ es]]
Happens(g, e, ths) ==
  [Forget(g, {e}) EXCEPT
     !.current = @ \union {e}, !.known = [u \in Threads |-> IF u \in ths THEN @[u] \union {e} ELSE @[u]]]
Repeats(g, b, th) == \E f \in g.current : f.buf = b /\ f.rw = "R" /\ Peers(th) \subseteq Peers(f.th)

(* Conflicting events that the thread has not been told of, and conflicting  *)
(* operations in flight.                                                     *)
Conflicts(g, b, th, rw) ==
  {e \in g.current : e.buf \in Overlaps[b] /\ e \notin g.known[th] /\ (e.rw = "W" \/ rw = "W")}
InFlight(g, k, p) == UNION ToSet(g.flight[k][p])
Pending(g, b, rw) ==
  \E k \in Kinds, p \in Parts :
    (k = "AsyncCp" \/ rw = "W") /\ InFlight(g, k, p) \cap Overlaps[b] # {}

LogAccess(g, th, o, e) ==
  LET judged == [g EXCEPT
        !.may = @ \/ Conflicts(g, e.buf, th, e.rw) # {} \/ Pending(g, e.buf, e.rw),
        !.must = @ \/ (\E x \in Conflicts(g, e.buf, th, e.rw) : ~x.again) \/ Pending(g, e.buf, e.rw)]
      row == {x \in g.current : x.buf = e.buf}
  IN IF o.kind # "None"
     THEN [judged EXCEPT !.flight[o.kind][th[1]] = <<Head(@) \union {e.buf}>> \o Tail(@)]
     ELSE IF e.rw = "W"
     THEN Happens(Forget(judged, row), Event(e.buf, "W", th, FALSE), Peers(th))
     ELSE Happens(judged, Event(e.buf, "R", th, Repeats(g, e.buf, th)), Peers(th))

LogSignal(g, th, o, s) ==
  [g EXCEPT !.told[s.bar] = @ \union
     (IF s.mode = "Frontier" THEN g.known[th]
      ELSE {e \in g.current : e.th = th /\ R(e.buf) \notin ToSet(o.effects) /\ W(e.buf) \in ToSet(o.effects)})]
LogTell(g, ths, es) == [g EXCEPT !.known = [u \in Threads |-> IF u \in ths THEN @[u] \union es ELSE @[u]]]
LogCommit(g, k, p) == [g EXCEPT !.flight[k][p] = <<{}>> \o @]
LogRetire(g, k, p, n) ==
  LET groups == g.flight[k][p]
      kept == SubSeq(groups, 1, IF Len(groups) < n + 1 THEN Len(groups) ELSE n + 1)
      done == UNION ToSet(groups) \ UNION ToSet(kept)
      told == IF k = "AsyncCp" THEN Peers(Base(p)) ELSE Threads
      event(b) == Event(b, IF k = "AsyncCp" THEN "W" ELSE "R", Base(p), TRUE)
  IN FoldSet(LAMBDA b, h : Happens(h, event(b), told), [g EXCEPT !.flight[k][p] = kept], done)

(***************************************************************************)
(* The critical section around an operation with memory effects.           *)
(***************************************************************************)
AddWriteChecks(a, b, th) == CheckOutstandingCommits(VerifyWriteVisibility(a, b, th), "AsyncCp", b)
AddReadChecks(a, b, th) ==
  CheckOutstandingCommits(CheckOutstandingCommits(VerifyReadVisibility(a, b, th), "Wgmma", b), "TmaStore", b)

Access(a, th, o, e) ==
  LET checked == IF e.rw = "R" THEN AddWriteChecks(a, e.buf, th)
                 ELSE AddReadChecks(AddWriteChecks(a, e.buf, th), e.buf, th)
  IN IF o.kind # "None" THEN StageAccess(checked, o.kind, e.buf, th[1])
     ELSE IF e.rw = "R" THEN SetReadVisibility(checked, e.buf, Peers(th))
     ELSE ClearReadTracking(ClearReadVisibility(ClearWriteTracking(
            SetWriteVisibility(checked, e.buf, Peers(th)), e.buf), e.buf), e.buf)

Signal(a, th, o, s) ==
  LET verified == VerifyBarrierInitialized(a, s.bar)
      tracked == IF s.mode = "Frontier"
                 THEN TrackVisibleReads(TrackVisibleWrites(verified, s.bar, th), s.bar, th)
                 ELSE FoldLeft(LAMBDA x, e : IF e.rw = "W" THEN TrackBarrierWriteForBuffer(x, s.bar, e.buf) ELSE x,
                               verified, o.effects)
  IN IF s.count > 0 \/ s.tx # 0
     THEN UpdateBarrierState(VerifyBarrierArrive(tracked, s.bar, s.count), s.bar, s.count, s.tx)
     ELSE tracked

InstrumentMemEffects(p, op) ==
  LET o == MemEffects(op)
      th == <<p, o.class>>
      effects == FoldLeft(LAMBDA a, e : Access(a, th, o, e), aux, o.effects)
      signals == FoldLeft(LAMBDA a, s : Signal(a, th, o, s), effects, o.bars)
  IN IF o.implicit THEN CommitAccesses(signals, o.kind, p) ELSE signals
LogMemEffects(p, op) ==
  LET o == MemEffects(op)
      th == <<p, o.class>>
      effects == FoldLeft(LAMBDA g, e : LogAccess(g, th, o, e), log, o.effects)
      signals == FoldLeft(LAMBDA g, s : LogSignal(g, th, o, s), effects, o.bars)
  IN IF o.implicit THEN LogCommit(signals, o.kind, p) ELSE signals

(***************************************************************************)
(* The kernel: Default runs its prologue, forks the partitions of a region *)
(* and joins them.                                                         *)
(***************************************************************************)
Init ==
  /\ aux = [writeVis |-> [b \in Buffers |-> {}],
            readVis |-> [b \in Buffers |-> [u \in Threads |-> {}]],
            writeTrack |-> [m \in Barriers |-> {}],
            readTrack |-> [m \in Barriers |-> [b \in Buffers |-> {}]],
            commits |-> [k \in Kinds |-> [b \in Buffers |-> [p \in Parts |-> 0]]],
            bar |-> [m \in Barriers |-> NoBarrier],
            waiting |-> [m \in Barriers |-> [p \in Parts |-> NotWaiting]],
            active |-> {Default}, alarm |-> "none"]
  /\ pc = [p \in Parts |-> [at |-> IF p = Default THEN "prologue" ELSE "unborn"]]
  /\ menu \in Menus
  /\ \E before \in Prologue : left = [before |-> before, ops |-> Budget]
  /\ log = [current |-> {}, known |-> [u \in Threads |-> {}], told |-> [m \in Barriers |-> {}],
            flight |-> [k \in Kinds |-> [p \in Parts |-> <<{}>>]], may |-> FALSE, must |-> FALSE]

Go(p, place) == pc' = [pc EXCEPT ![p] = [at |-> place]]

(* The prologue is a fixed sequence, the region any choice from the menu.    *)
May(p, op) ==
  /\ aux.alarm = "none"
  /\ \/ pc[p].at = "prologue" /\ left.before # <<>> /\ Head(left.before) = op
     \/ pc[p].at \in {"region", "joined"} /\ left.ops[p] > 0 /\ op \in menu[p]
Uses(p) ==
  left' = IF pc[p].at = "prologue" THEN [left EXCEPT !.before = Tail(@)] ELSE [left EXCEPT !.ops[p] = @ - 1]

MemoryOp(p, op) ==
  /\ May(p, op) /\ op.name \notin DOMAIN RetiresOf \union {"init", "inval", "wait", "async_commit"}
  /\ Uses(p)
  /\ aux' = InstrumentMemEffects(p, op)
  /\ log' = LogMemEffects(p, op)
  /\ UNCHANGED <<pc, menu>>

AsyncCommitGroup(p, op) ==
  /\ May(p, op) /\ op.name = "async_commit" /\ Uses(p)
  /\ aux' = CommitAccesses(aux, "AsyncCp", p)
  /\ log' = LogCommit(log, "AsyncCp", p)
  /\ UNCHANGED <<pc, menu>>

WaitForGroups(p, op) ==
  /\ May(p, op) /\ op.name \in DOMAIN RetiresOf /\ Uses(p)
  /\ aux' = RetireCommits(aux, RetiresOf[op.name], p, op.pending)
  /\ log' = LogRetire(log, RetiresOf[op.name], p, op.pending)
  /\ UNCHANGED <<pc, menu>>

InitBarrier(p, op) ==
  /\ May(p, op) /\ op.name = "init" /\ Uses(p)
  /\ aux' = InitBarrierState(VerifyBarrierCanInit(aux, op.bar), op.bar, op.count)
  /\ UNCHANGED <<pc, menu, log>>

InvalBarrier(p, op) ==
  /\ May(p, op) /\ op.name = "inval" /\ Uses(p)
  /\ aux' = ClearBarrierTracking(InvalidateBarrierState(VerifyBarrierInitialized(aux, op.bar), op.bar), op.bar)
  /\ log' = [log EXCEPT !.told[op.bar] = {}]
  /\ UNCHANGED <<pc, menu>>

(* Before the wait: the partition is marked as waiting.  The wait itself:    *)
(* the hardware lets a waiter through once the phase is another one.  After  *)
(* it: what the barrier tracks becomes visible, and the mark is taken back.  *)
BeginWait(p, op) ==
  /\ May(p, op) /\ op.name = "wait" /\ Uses(p)
  /\ aux' = CheckAllActiveWaiting(SetWaiting(VerifyBarrierInitialized(aux, op.bar), op.bar, p, op.phase))
  /\ pc' = [pc EXCEPT ![p] = [at |-> "waiting", op |-> op, from |-> pc[p].at]]
  /\ UNCHANGED <<menu, log>>
LetThrough(p) ==
  /\ aux.alarm = "none" /\ pc[p].at = "waiting" /\ aux.bar[pc[p].op.bar].phase # pc[p].op.phase
  /\ pc' = [pc EXCEPT ![p].at = "passed"]
  /\ UNCHANGED <<aux, left, menu, log>>
EndWait(p) ==
  /\ aux.alarm = "none" /\ pc[p].at = "passed"
  /\ LET m == pc[p].op.bar IN
     /\ aux' = ClearWaiting(TransferVisibleReads(TransferVisibleWrites(aux, m, Peers(Base(p))), m, Peers(Base(p))), m, p)
     /\ log' = LogTell(log, Peers(Base(p)), log.told[m])
  /\ Go(p, pc[p].from)
  /\ UNCHANGED <<left, menu>>

WarpSpecialize ==
  /\ aux.alarm = "none" /\ pc[Default].at = "prologue" /\ left.before = <<>>
  /\ LET born == {u \in Threads : u[1] # Default} IN
     /\ aux' = CopyVisibility(SetActiveMask(aux, Parts), Base(Default), born)
     /\ log' = [log EXCEPT !.known = [u \in Threads |-> IF u \in born THEN @[Base(Default)] ELSE @[u]]]
  /\ pc' = [p \in Parts |-> [at |-> "region"]]
  /\ UNCHANGED <<left, menu>>
WarpYieldOrReturn(p) ==
  /\ aux.alarm = "none" /\ pc[p].at = "region"
  /\ aux' = CheckAllActiveWaiting(RetireActiveThread(aux, p))
  /\ Go(p, "retired")
  /\ UNCHANGED <<left, menu, log>>
Join ==
  /\ aux.alarm = "none" /\ \A p \in Parts : pc[p].at = "retired"
  /\ Go(Default, "joined")
  /\ left' = [left EXCEPT !.ops[Default] = AfterJoin]
  /\ log' = LogTell(log, Peers(Base(Default)), UNION {log.known[Base(p)] : p \in Parts})
  /\ UNCHANGED <<aux, menu>>
Return ==
  /\ aux.alarm = "none" /\ pc[Default].at = "joined"
  /\ aux' = CheckAllActiveWaiting(SetActiveMask(aux, {}))
  /\ Go(Default, "returned")
  /\ UNCHANGED <<left, menu, log>>
Finished ==
  /\ aux.alarm # "none" \/ pc[Default].at = "returned"
  /\ UNCHANGED vars

Next ==
  \/ \E p \in Parts : \E op \in menu[p] \union ToSet(left.before) :
       \/ MemoryOp(p, op) \/ AsyncCommitGroup(p, op) \/ WaitForGroups(p, op)
       \/ InitBarrier(p, op) \/ InvalBarrier(p, op) \/ BeginWait(p, op)
  \/ \E p \in Parts : LetThrough(p) \/ EndWait(p) \/ WarpYieldOrReturn(p)
  \/ WarpSpecialize \/ Join \/ Return \/ Finished
Spec == Init /\ [][Next]_vars

(***************************************************************************)
(* Properties.                                                             *)
(***************************************************************************)
TypeOK ==
  /\ aux.writeVis \in [Buffers -> SUBSET Threads]
  /\ \A b \in Buffers : aux.readVis[b] \in [Threads -> SUBSET Threads]
  /\ \A m \in Barriers :
        /\ aux.writeTrack[m] \subseteq Buffers /\ aux.readTrack[m] \in [Buffers -> SUBSET Threads]
        /\ aux.bar[m].phase \in {0, 1} /\ aux.bar[m].tx \in Int
        /\ aux.bar[m].current \in 0..aux.bar[m].init \/ aux.alarm # "none"
        /\ aux.waiting[m] \in [Parts -> {0, 1, NotWaiting}]
  /\ \A k \in Kinds, b \in Buffers, p \in Parts :
        aux.commits[k][b][p] \in -(2^(CountBits - 1))..(2^(CountBits - 1) - 1)
  /\ aux.active \subseteq Parts

(* The sanitizer does not accuse the innocent: when it traps for outstanding *)
(* reads or writes or for a pending access, the accessor has not been told   *)
(* of a conflicting access, or one is in flight.                             *)
AlarmIsRace == aux.alarm \in {"outstanding writes", "outstanding reads", "pending access"} => log.may

(* It lets no race pass: an access that conflicts with one in flight, or     *)
(* with a plain write or a first read that its thread has not been told of,  *)
(* traps in its own critical section, and no other assertion stops it first. *)
RaceIsCaught == log.must => aux.alarm # "none"

(* It lets no race pass, repeated reads included, as verifyReadVisibility    *)
(* is said to: all reads from the buffer are visible to the thread.          *)
EveryReadCounts == log.may => aux.alarm # "none"

(* The tables are well formed, and a counter is nonzero exactly while        *)
(* an asynchronous operation of the partition on the buffer has not been     *)
(* waited for.                                                               *)
PendingExact ==
  /\ TypeOK
  /\ aux.alarm = "none" =>
       \A k \in Kinds, b \in Buffers, p \in Parts :
         aux.commits[k][b][p] # 0 <=> b \in InFlight(log, k, p)

(* The deadlock check: it traps only when every live partition waits for a   *)
(* phase that is not over (or was let through and has not said so yet), and  *)
(* whenever every live partition is blocked it has trapped.                  *)
Blocked(p) == pc[p].at = "waiting" /\ aux.bar[pc[p].op.bar].phase = pc[p].op.phase
Live == {p \in Parts : pc[p].at \in {"prologue", "region", "waiting", "passed", "joined"}}
DeadlockExact ==
  /\ aux.alarm = "deadlock" => \A p \in Live : Blocked(p) \/ pc[p].at = "passed"
  /\ Live # {} /\ (\A p \in Live : Blocked(p)) => aux.alarm # "none"
=============================================================================
