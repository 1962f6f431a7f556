------------------------- MODULE AsyncCompileProofs -------------------------
(***************************************************************************)
(* What is launched was compiled for the target and the specialization of  *)
(* the call, for any threads, modes, devices and specializations; and with *)
(* a target for each device it is loaded on the device of the call.        *)
(*                                                                         *)
(* A kernel is looked up once and launched much later, with other threads  *)
(* writing the caches, and a key stands for a future in between.  So the   *)
(* invariant follows the key: a slot of a cache, a future, a key of a mode *)
(* and what a thread has in its registers all agree with the key of the    *)
(* entry they are for.  Kernels and futures are only added and their       *)
(* entries never change, which keeps all of it while others run.           *)
(***************************************************************************)
EXTENDS AsyncCompile, SequenceTheorems, TLAPS

PCs == {"idle", "compile", "hook", "launch", "result", "store", "finalHook", "setKernel", "exiting"}
Finalizing == {"store", "finalHook", "setKernel"}
Slot == [kind : {"none", "kernel", "future"}, id : Nat]
Keys == {CacheKey(e) : e \in Entries}
KernelRecord == [entry : Entries, device : Devices \cup {"none"}]
FutureRecord == [status : {"running", "done", "failed"}, entry : Entries, result : Slot, kernel : Slot]
ModeRecord == [active : BOOLEAN, ignoreErrors : BOOLEAN, futures : UNION {[D -> Nat] : D \in SUBSET Keys}]
ThreadRecord == [pc : PCs, calls : Nat, entry : Entries \cup {<<>>}, warmup : BOOLEAN,
                 kernel : Slot, future : Nat, raw : SUBSET Nat]

Records ==
    /\ kernelCache \in [Entries -> Slot]
    /\ kernels \in Seq(KernelRecord) /\ futures \in Seq(FutureRecord)
    /\ mode \in [Threads -> ModeRecord]
    /\ thread \in [Threads -> ThreadRecord]
    /\ \A l \in launched : l.entry \in Entries /\ l.kernel \in DOMAIN kernels

\* What is in slot s is nothing, or for the key of entry e.
Fits(ks, fs, s, e) ==
    \/ s = None
    \/ s.kind = "kernel" /\ s.id \in DOMAIN ks /\ CacheKey(ks[s.id].entry) = CacheKey(e)
    \/ s.kind = "future" /\ s.id \in DOMAIN fs /\ CacheKey(fs[s.id].entry) = CacheKey(e)

FutureFits(ks, fs, f) ==
    /\ f.result = None \/ (f.result.kind = "kernel" /\ Fits(ks, fs, f.result, f.entry))
    /\ f.kernel = None \/ f.kernel = f.result
    /\ f.status = "done" => f.result.kind = "kernel"
    /\ f.status # "done" => f.result = None

ModeFits(fs, m) == \A k \in DOMAIN m.futures :
                      m.futures[k] \in DOMAIN fs /\ CacheKey(fs[m.futures[k]].entry) = k

ThreadFits(ks, fs, th) ==
    /\ th.raw \subseteq DOMAIN fs
    /\ th.pc \in {"compile", "hook", "launch"} => th.entry \in Entries
    /\ th.pc \in {"idle", "exiting"} => th.entry = <<>>
    /\ th.pc \in {"hook", "launch"} => th.kernel # None /\ Fits(ks, fs, th.kernel, th.entry)
    /\ th.pc \in {"result"} \cup Finalizing =>
          /\ th.future \in DOMAIN fs
          /\ th.entry # <<>> => CacheKey(fs[th.future].entry) = CacheKey(th.entry)
    /\ th.pc \in Finalizing => fs[th.future].result.kind = "kernel"

\* Every launch was of a kernel for its target and specialization.
LaunchesKeyed == \A l \in launched : CacheKey(kernels[l.kernel].entry) = CacheKey(l.entry)

IInv ==
    /\ Records
    /\ \A e \in Entries : Fits(kernels, futures, kernelCache[e], e)
    /\ \A i \in DOMAIN futures : FutureFits(kernels, futures, futures[i])
    /\ \A t \in Threads : ModeFits(futures, mode[t])
    /\ \A t \in Threads : ThreadFits(kernels, futures, thread[t])
    /\ LaunchesKeyed
-----------------------------------------------------------------------------
\* What one step of the system does to the kernels and to the futures.
KernelsGrow(ks, new) == \A i \in DOMAIN ks : i \in DOMAIN new /\ new[i].entry = ks[i].entry

FuturesGrow(fs, new) ==
    \A i \in DOMAIN fs : /\ i \in DOMAIN new /\ new[i].entry = fs[i].entry
                         /\ fs[i].result.kind = "kernel" => new[i].result.kind = "kernel"

\* What fits goes on to.
LEMMA FitsGrow ==
    ASSUME NEW ks, NEW fs, NEW ks2, NEW fs2, KernelsGrow(ks, ks2), FuturesGrow(fs, fs2)
    PROVE  /\ \A s, e : Fits(ks, fs, s, e) => Fits(ks2, fs2, s, e)
           /\ \A f : FutureFits(ks, fs, f) => FutureFits(ks2, fs2, f)
           /\ \A m : ModeFits(fs, m) => ModeFits(fs2, m)
  <1>1. ASSUME NEW s, NEW e, Fits(ks, fs, s, e) PROVE Fits(ks2, fs2, s, e)
    BY <1>1 DEF KernelsGrow, FuturesGrow, Fits
  <1>2. ASSUME NEW f, FutureFits(ks, fs, f) PROVE FutureFits(ks2, fs2, f)
    BY <1>1, <1>2 DEF FutureFits
  <1>3. ASSUME NEW m, ModeFits(fs, m) PROVE ModeFits(fs2, m)
    BY <1>3 DEF FuturesGrow, ModeFits
  <1> QED
    BY <1>1, <1>2, <1>3

LEMMA ThreadFitsGrow ==
    ASSUME NEW ks, NEW fs, NEW ks2, NEW fs2, NEW th,
           KernelsGrow(ks, ks2), FuturesGrow(fs, fs2), ThreadFits(ks, fs, th)
    PROVE  ThreadFits(ks2, fs2, th)
  <1>1. th.raw \subseteq DOMAIN fs2
    BY DEF FuturesGrow, ThreadFits
  <1>2. ASSUME th.pc \in {"hook", "launch"}
        PROVE  th.kernel # None /\ Fits(ks2, fs2, th.kernel, th.entry)
    BY <1>2, FitsGrow DEF ThreadFits
  <1>3. ASSUME th.pc \in {"result"} \cup Finalizing
        PROVE  /\ th.future \in DOMAIN fs2
               /\ th.entry # <<>> => CacheKey(fs2[th.future].entry) = CacheKey(th.entry)
    BY <1>3 DEF FuturesGrow, ThreadFits
  <1>4. ASSUME th.pc \in Finalizing
        PROVE  fs2[th.future].result.kind = "kernel"
    BY <1>4 DEF FuturesGrow, ThreadFits
  <1>5. /\ th.pc \in {"compile", "hook", "launch"} => th.entry \in Entries
        /\ th.pc \in {"idle", "exiting"} => th.entry = <<>>
    BY DEF ThreadFits
  <1> QED
    BY <1>1, <1>2, <1>3, <1>4, <1>5 DEF ThreadFits

\* The invariant after a step in which the kernels and the futures grow: only
\* what the step writes is left to show.
LEMMA GrowIInv ==
    IInv /\ KernelsGrow(kernels, kernels') /\ FuturesGrow(futures, futures') =>
        /\ \A e \in Entries : Fits(kernels', futures', kernelCache[e], e)
        /\ \A i \in DOMAIN futures : FutureFits(kernels', futures', futures[i])
        /\ \A t \in Threads : ModeFits(futures', mode[t])
        /\ \A t \in Threads : ThreadFits(kernels', futures', thread[t])
        /\ \A l \in launched : /\ l.entry \in Entries /\ l.kernel \in DOMAIN kernels'
                               /\ CacheKey(kernels'[l.kernel].entry) = CacheKey(l.entry)
  <1> SUFFICES ASSUME IInv, KernelsGrow(kernels, kernels'), FuturesGrow(futures, futures')
               PROVE  /\ \A e \in Entries : Fits(kernels', futures', kernelCache[e], e)
                      /\ \A i \in DOMAIN futures : FutureFits(kernels', futures', futures[i])
                      /\ \A t \in Threads : ModeFits(futures', mode[t])
                      /\ \A t \in Threads : ThreadFits(kernels', futures', thread[t])
                      /\ \A l \in launched : /\ l.entry \in Entries /\ l.kernel \in DOMAIN kernels'
                                             /\ CacheKey(kernels'[l.kernel].entry) = CacheKey(l.entry)
    OBVIOUS
  <1>1. /\ \A e \in Entries : Fits(kernels', futures', kernelCache[e], e)
        /\ \A i \in DOMAIN futures : FutureFits(kernels', futures', futures[i])
        /\ \A t \in Threads : ModeFits(futures', mode[t])
    BY FitsGrow DEF IInv
  <1>2. \A t \in Threads : ThreadFits(kernels', futures', thread[t])
    BY ThreadFitsGrow DEF IInv
  <1>3. \A l \in launched : /\ l.entry \in Entries /\ l.kernel \in DOMAIN kernels'
                            /\ CacheKey(kernels'[l.kernel].entry) = CacheKey(l.entry)
    BY DEF IInv, Records, LaunchesKeyed, KernelsGrow
  <1> QED
    BY <1>1, <1>2, <1>3

\* A step of thread t that writes nothing but its own record.
LEMMA OwnStep ==
    ASSUME IInv, NEW t \in Threads, NEW th \in ThreadRecord,
           thread' = [thread EXCEPT ![t] = th], ThreadFits(kernels, futures, th),
           UNCHANGED <<kernelCache, kernels, futures, mode, launched>>
    PROVE  IInv'
  BY DEF IInv, Records, LaunchesKeyed

LEMMA IdleFits ==
    ASSUME NEW ks, NEW fs, NEW n \in Nat
    PROVE  Idle(n) \in ThreadRecord /\ ThreadFits(ks, fs, Idle(n))
  <1>1. Idle(n) \in ThreadRecord
    BY DEF Idle, ThreadRecord, PCs, Slot, None
  <1>2. ThreadFits(ks, fs, Idle(n))
    BY DEF Idle, ThreadFits, Finalizing
  <1> QED
    BY <1>1, <1>2

LEMMA InitIInv == Init => IInv
  <1> SUFFICES ASSUME Init PROVE IInv
    OBVIOUS
  <1>1. Inactive \in ModeRecord
    <2>1. <<>> \in [{} -> Nat]
      OBVIOUS
    <2> QED
      BY <2>1 DEF Inactive, ModeRecord
  <1>2. Records
    <2>1. None \in Slot /\ Idle(0) \in ThreadRecord
      BY IdleFits DEF Slot, None
    <2>2. kernels \in Seq(KernelRecord) /\ futures \in Seq(FutureRecord)
      BY DEF Init
    <2>3. /\ kernelCache \in [Entries -> Slot]
          /\ mode \in [Threads -> ModeRecord]
          /\ thread \in [Threads -> ThreadRecord]
      BY <1>1, <2>1 DEF Init
    <2> QED
      BY <2>2, <2>3 DEF Init, Records
  <1>3. ModeFits(futures, Inactive)
    BY DEF ModeFits, Inactive
  <1> QED
    BY <1>2, <1>3, IdleFits DEF Init, IInv, Fits, LaunchesKeyed

\* A call ends.
LEMMA ReturnIInv ==
    ASSUME IInv, NEW t \in Threads, Return(t),
           UNCHANGED <<kernelCache, kernels, futures, mode, launched>>
    PROVE  IInv'
  <1>1. thread[t].calls \in Nat
    BY DEF IInv, Records, ThreadRecord
  <1> QED
    BY <1>1, OwnStep, IdleFits DEF Return

\* Steps that only move the thread on.
LEMMA GoIInv ==
    ASSUME IInv, NEW t \in Threads, NEW label \in PCs, Go(t, label),
           ThreadFits(kernels, futures, [thread[t] EXCEPT !.pc = label]),
           UNCHANGED <<kernelCache, kernels, futures, mode, launched>>
    PROVE  IInv'
  <1>1. [thread[t] EXCEPT !.pc = label] \in ThreadRecord
    BY DEF IInv, Records, ThreadRecord
  <1>2. thread' = [thread EXCEPT ![t] = [thread[t] EXCEPT !.pc = label]]
    BY DEF Go, IInv, Records
  <1> QED
    BY <1>1, <1>2, OwnStep

LEMMA CallIInv ==
    ASSUME IInv, NEW t \in Threads, NEW e \in Entries, NEW warmup \in BOOLEAN, Call(t, e, warmup)
    PROVE  IInv'
  <1> DEFINE found == kernelCache[e]
             label == IF found = None THEN "compile" ELSE "launch"
             calls == thread[t].calls + 1
             th == [thread[t] EXCEPT !.calls = calls, !.entry = e, !.warmup = warmup,
                                     !.kernel = found, !.pc = label]
  <1>1. thread[t] \in ThreadRecord /\ found \in Slot /\ Fits(kernels, futures, found, e)
    BY DEF IInv, Records
  <1>2. ThreadFits(kernels, futures, thread[t]) /\ thread[t].pc = "idle"
    BY DEF IInv, Call, At
  <1>3. thread' = [thread EXCEPT ![t] = th]
    BY DEF Call, IInv, Records
  <1>4. label \in PCs /\ label \in {"compile", "launch"}
    BY DEF PCs
  <1>5. label = "launch" => found # None
    OBVIOUS
  <1>c. calls \in Nat
    BY <1>1 DEF ThreadRecord
  <1> HIDE DEF found, label, calls
  <1>6. th \in ThreadRecord
    BY <1>1, <1>4, <1>c DEF ThreadRecord
  <1>7. ThreadFits(kernels, futures, th)
    BY <1>1, <1>2, <1>4, <1>5 DEF ThreadFits, Finalizing, ThreadRecord
  <1> HIDE DEF th
  <1> QED
    BY <1>3, <1>6, <1>7, OwnStep DEF Call

\* A kernel compiled for e is added.
LEMMA AppendKernel ==
    ASSUME IInv, NEW e \in Entries, kernels' = Append(kernels, Compiled(e))
    PROVE  /\ kernels' \in Seq(KernelRecord) /\ KernelsGrow(kernels, kernels')
           /\ Len(kernels') = Len(kernels) + 1 /\ Len(kernels') \in DOMAIN kernels' /\ Len(kernels') \in Nat
           /\ kernels'[Len(kernels')] = Compiled(e) /\ Compiled(e).entry = e
           /\ \A i \in DOMAIN kernels : kernels'[i] = kernels[i]
           /\ DOMAIN kernels' = DOMAIN kernels \cup {Len(kernels')}
  <1>1. Compiled(e) \in KernelRecord
    BY DEF Compiled, KernelRecord
  <1>2. kernels \in Seq(KernelRecord)
    BY DEF IInv, Records
  <1> QED
    BY <1>1, <1>2 DEF KernelsGrow, Compiled

LEMMA SameFutures == IInv /\ futures' = futures => FuturesGrow(futures, futures')
  BY DEF FuturesGrow

LEMMA SameKernels == IInv /\ kernels' = kernels => KernelsGrow(kernels, kernels')
  BY DEF KernelsGrow

LEMMA CompileNowIInv ==
    ASSUME IInv, NEW t \in Threads, CompileNow(t)
    PROVE  IInv'
  <1> DEFINE e == thread[t].entry
             k == Kernel(Len(kernels'))
             th == [thread[t] EXCEPT !.pc = "hook", !.kernel = k]
  <1>1. CASE MayFail /\ Return(t) /\ UNCHANGED <<kernels, kernelCache>>
    BY <1>1, ReturnIInv DEF CompileNow
  <1>2. CASE /\ kernels' = Append(kernels, Compiled(e))
             /\ kernelCache' = [kernelCache EXCEPT ![e] = k]
             /\ thread' = [thread EXCEPT ![t].pc = "hook", ![t].kernel = k]
    <2>1. thread[t] \in ThreadRecord /\ ThreadFits(kernels, futures, thread[t]) /\ thread[t].pc = "compile"
      BY DEF IInv, Records, CompileNow, At
    <2>2. e \in Entries
      BY <2>1 DEF ThreadFits
    <2>3. thread' = [thread EXCEPT ![t] = th]
      BY <1>2 DEF IInv, Records
    <2>4. futures' = futures /\ mode' = mode /\ launched' = launched
      BY DEF CompileNow
    <2>5. KernelsGrow(kernels, kernels') /\ FuturesGrow(futures, futures')
      BY <1>2, <2>2, <2>4, AppendKernel, SameFutures
    <2>6. k \in Slot /\ k # None /\ Fits(kernels', futures', k, e)
      BY <1>2, <2>2, AppendKernel DEF Slot, Kernel, None, Fits
    <2> HIDE DEF k
    <2>7. th \in ThreadRecord
      BY <2>1, <2>6 DEF ThreadRecord, PCs
    <2>8. ThreadFits(kernels', futures', thread[t])
      BY <2>5, GrowIInv
    <2>9. ThreadFits(kernels', futures', th)
      BY <2>1, <2>2, <2>6, <2>8 DEF ThreadFits, Finalizing, ThreadRecord
    <2> HIDE DEF th
    <2>10. Records'
      <3>1. kernels' \in Seq(KernelRecord)
        BY <1>2, <2>2, AppendKernel
      <3>2. kernelCache' \in [Entries -> Slot] /\ thread' \in [Threads -> ThreadRecord]
        BY <1>2, <2>3, <2>6, <2>7 DEF IInv, Records
      <3> QED
        BY <3>1, <3>2, <2>4, <2>5, GrowIInv DEF IInv, Records
    <2>11. \A x \in Entries : Fits(kernels', futures', kernelCache'[x], x)
      BY <1>2, <2>2, <2>5, <2>6, GrowIInv DEF IInv, Records
    <2>12. \A u \in Threads : ThreadFits(kernels', futures', thread'[u])
      BY <2>3, <2>5, <2>9, GrowIInv DEF IInv, Records
    <2> QED
      BY <2>4, <2>5, <2>10, <2>11, <2>12, GrowIInv DEF IInv, LaunchesKeyed
  <1> QED
    BY <1>1, <1>2 DEF CompileNow

LEMMA PostCompileHookIInv ==
    ASSUME IInv, NEW t \in Threads, PostCompileHook(t)
    PROVE  IInv'
  <1> DEFINE th == [thread[t] EXCEPT !.pc = "launch"]
  <1>1. thread[t] \in ThreadRecord /\ ThreadFits(kernels, futures, thread[t]) /\ thread[t].pc = "hook"
    BY DEF IInv, Records, PostCompileHook, At
  <1>2. ThreadFits(kernels, futures, th)
    BY <1>1 DEF ThreadFits, Finalizing, ThreadRecord
  <1> QED
    BY <1>2, GoIInv DEF PostCompileHook, PCs

\* The future of a key is known, or added.
LEMMA SubmitIInv ==
    ASSUME IInv, NEW t \in Threads, Submit(t)
    PROVE  IInv'
  <1> DEFINE e == thread[t].entry
             k == CacheKey(e)
             known == Known(t, k)
             f == Submitted(t, k)
             new == [status |-> "running", entry |-> e, result |-> None, kernel |-> None]
             registry == [x \in DOMAIN mode[t].futures \cup {k} |-> IF x = k THEN f ELSE mode[t].futures[x]]
             m == [mode[t] EXCEPT !.futures = registry]
             th == [thread[t] EXCEPT !.pc = "launch", !.kernel = Future(f)]
  <1>1. thread[t] \in ThreadRecord /\ ThreadFits(kernels, futures, thread[t]) /\ thread[t].pc = "compile"
    BY DEF IInv, Records, Submit, SubmitAs, At
  <1>2. e \in Entries
    BY <1>1 DEF ThreadFits
  <1>3. /\ futures' = IF known THEN futures ELSE Append(futures, new)
        /\ mode' = [mode EXCEPT ![t] = m]
        /\ kernelCache' = [kernelCache EXCEPT ![e] = Future(f)]
        /\ thread' = [thread EXCEPT ![t] = th]
        /\ kernels' = kernels /\ launched' = launched
    BY DEF Submit, SubmitAs, IInv, Records
  <1>4. mode[t] \in ModeRecord /\ ModeFits(futures, mode[t])
    BY DEF IInv, Records
  <1>5. futures \in Seq(FutureRecord) /\ new \in FutureRecord
    BY <1>2 DEF IInv, Records, FutureRecord, Slot, None
  <1>6. /\ futures' \in Seq(FutureRecord) /\ FuturesGrow(futures, futures')
        /\ f \in DOMAIN futures' /\ f \in Nat /\ CacheKey(futures'[f].entry) = k
        /\ \A i \in DOMAIN futures' : futures'[i] = new \/ (i \in DOMAIN futures /\ futures'[i] = futures[i])
    <2> HIDE DEF new
    <2>1. CASE known
      BY <2>1, <1>3, <1>4, <1>5, SameFutures DEF Known, Submitted, ModeFits
    <2>2. CASE ~known
      <3>1. futures' = Append(futures, new) /\ f = Len(futures) + 1
        BY <2>2, <1>3 DEF Submitted
      <3>2. new.entry = e
        BY DEF new
      <3> QED
        BY <3>1, <3>2, <1>5 DEF FuturesGrow
    <2> QED
      BY <2>1, <2>2
  <1>7. KernelsGrow(kernels, kernels')
    BY <1>3, SameKernels
  <1> HIDE DEF f, known
  <1>8. Future(f) \in Slot /\ Future(f) # None /\ Fits(kernels', futures', Future(f), e)
    BY <1>6 DEF Slot, Future, None, Fits
  <1>9. m \in ModeRecord /\ ModeFits(futures', m)
    <2>1. PICK D \in SUBSET Keys : mode[t].futures \in [D -> Nat]
      BY <1>4 DEF ModeRecord
    <2>2. registry \in [D \cup {k} -> Nat] /\ D \cup {k} \in SUBSET Keys
      BY <2>1, <1>2, <1>6 DEF Keys
    <2>3. ModeFits(futures', mode[t])
      BY <1>6, <1>7, GrowIInv
    <2>4. \A x \in DOMAIN registry : registry[x] \in DOMAIN futures' /\ CacheKey(futures'[registry[x]].entry) = x
      BY <2>3, <1>6 DEF ModeFits
    <2> HIDE DEF registry
    <2>5. m \in ModeRecord /\ m.futures = registry
      BY <1>4, <2>2 DEF ModeRecord
    <2> QED
      BY <2>4, <2>5 DEF ModeFits
  <1>10. ThreadFits(kernels', futures', th) /\ th \in ThreadRecord
    <2>1. th \in ThreadRecord
      BY <1>1, <1>8 DEF ThreadRecord, PCs
    <2>2. ThreadFits(kernels', futures', thread[t])
      BY <1>6, <1>7, GrowIInv
    <2> QED
      BY <1>1, <1>2, <1>8, <2>1, <2>2 DEF ThreadFits, Finalizing, ThreadRecord
  <1>11. FutureFits(kernels', futures', new)
    BY DEF FutureFits
  <1> HIDE DEF m, th, new, k
  <1>12. /\ kernelCache' \in [Entries -> Slot] /\ thread' \in [Threads -> ThreadRecord]
         /\ mode' \in [Threads -> ModeRecord]
    BY <1>3, <1>8, <1>9, <1>10 DEF IInv, Records
  <1>13. Records'
    BY <1>3, <1>6, <1>12 DEF IInv, Records
  <1>14. /\ \A x \in Entries : Fits(kernels', futures', kernelCache'[x], x)
         /\ \A u \in Threads : ModeFits(futures', mode'[u])
         /\ \A u \in Threads : ThreadFits(kernels', futures', thread'[u])
    BY <1>2, <1>3, <1>6, <1>7, <1>8, <1>9, <1>10, GrowIInv DEF IInv, Records
  <1>15. \A i \in DOMAIN futures' : FutureFits(kernels', futures', futures'[i])
    BY <1>6, <1>7, <1>11, GrowIInv
  <1> QED
    BY <1>3, <1>6, <1>7, <1>13, <1>14, <1>15, GrowIInv DEF IInv, LaunchesKeyed

\* A future is replaced by one that fits.
LEMMA ReplaceFuture ==
    ASSUME IInv, NEW i \in DOMAIN futures, NEW f \in FutureRecord,
           futures' = [futures EXCEPT ![i] = f], f.entry = futures[i].entry,
           futures[i].result.kind = "kernel" => f.result.kind = "kernel"
    PROVE  futures' \in Seq(FutureRecord) /\ FuturesGrow(futures, futures') /\ DOMAIN futures' = DOMAIN futures
  <1>1. futures \in Seq(FutureRecord)
    BY DEF IInv, Records
  <1>2. futures' \in Seq(FutureRecord) /\ DOMAIN futures' = DOMAIN futures
    BY <1>1, ExceptSeq
  <1> QED
    BY <1>1, <1>2 DEF FuturesGrow

LEMMA TaskEndsIInv ==
    ASSUME IInv, NEW i \in DOMAIN futures, TaskEnds(i)
    PROVE  IInv'
  <1>1. futures \in Seq(FutureRecord) /\ futures[i] \in FutureRecord /\ FutureFits(kernels, futures, futures[i])
    BY ElementOfSeq DEF IInv, Records
  <1>2. futures[i].status = "running" /\ UNCHANGED <<kernelCache, mode, thread, launched>>
    BY DEF TaskEnds
  <1>3. futures[i].result = None /\ futures[i].kernel = None
    BY <1>1, <1>2 DEF FutureFits
  <1>4. ASSUME NEW f \in FutureRecord, futures' = [futures EXCEPT ![i] = f],
               f.entry = futures[i].entry, FutureFits(kernels', futures', f),
               KernelsGrow(kernels, kernels'), kernels' \in Seq(KernelRecord)
        PROVE  IInv'
    <2>1. futures[i].result.kind # "kernel"
      BY <1>3 DEF None
    <2>2. futures' \in Seq(FutureRecord) /\ FuturesGrow(futures, futures') /\ DOMAIN futures' = DOMAIN futures
      BY <1>4, <2>1, ReplaceFuture
    <2>3. Records'
      BY <1>2, <1>4, <2>2, GrowIInv DEF IInv, Records
    <2>4. \A j \in DOMAIN futures' : FutureFits(kernels', futures', futures'[j])
      BY <1>1, <1>4, <2>2, GrowIInv
    <2> QED
      BY <1>2, <1>4, <2>2, <2>3, <2>4, GrowIInv DEF IInv, LaunchesKeyed
  <1>5. CASE /\ kernels' = Append(kernels, Compiled(futures[i].entry))
             /\ futures' = [futures EXCEPT ![i].status = "done", ![i].result = Kernel(Len(kernels'))]
    <2> DEFINE k == Kernel(Len(kernels'))
               f == [futures[i] EXCEPT !.status = "done", !.result = k]
    <2>1. futures[i].entry \in Entries
      BY <1>1 DEF FutureRecord
    <2>2. futures' = [futures EXCEPT ![i] = f]
      BY <1>5, <1>1
    <2>3. kernels' \in Seq(KernelRecord) /\ KernelsGrow(kernels, kernels')
      BY <1>5, <2>1, AppendKernel
    <2>4. /\ k \in Slot /\ k.kind = "kernel" /\ k # None
          /\ Fits(kernels', futures', k, futures[i].entry)
      BY <1>5, <2>1, AppendKernel DEF Slot, Kernel, None, Fits
    <2> HIDE DEF k
    <2>5. f \in FutureRecord /\ f.entry = futures[i].entry
      BY <1>1, <2>4 DEF FutureRecord
    <2>6. f.result = k /\ f.kernel = None /\ f.status = "done"
      BY <1>1, <1>3 DEF FutureRecord
    <2> HIDE DEF f
    <2>7. FutureFits(kernels', futures', f)
      BY <2>4, <2>5, <2>6 DEF FutureFits
    <2> QED
      BY <2>2, <2>3, <2>5, <2>7, <1>4
  <1>6. CASE futures' = [futures EXCEPT ![i].status = "failed"] /\ UNCHANGED kernels
    <2> DEFINE f == [futures[i] EXCEPT !.status = "failed"]
    <2>1. futures' = [futures EXCEPT ![i] = f] /\ KernelsGrow(kernels, kernels') /\ kernels' \in Seq(KernelRecord)
      BY <1>6, <1>1, SameKernels DEF IInv, Records
    <2>2. f \in FutureRecord /\ f.entry = futures[i].entry
      BY <1>1 DEF FutureRecord
    <2>3. f.result = None /\ f.kernel = None /\ f.status = "failed"
      BY <1>1, <1>3 DEF FutureRecord
    <2>4. FutureFits(kernels', futures', f)
      BY <2>3 DEF FutureFits
    <2> HIDE DEF f
    <2> QED
      BY <2>1, <2>2, <2>4, <1>4
  <1> QED
    BY <1>5, <1>6 DEF TaskEnds

LEMMA LaunchKernelIInv ==
    ASSUME IInv, NEW t \in Threads, LaunchKernel(t)
    PROVE  IInv'
  <1> DEFINE i == thread[t].kernel.id
             e == thread[t].entry
             loaded == IF kernels[i].device = "none" THEN Device(e) ELSE kernels[i].device
             new == [kernels[i] EXCEPT !.device = loaded]
  <1>1. thread[t] \in ThreadRecord /\ ThreadFits(kernels, futures, thread[t]) /\ thread[t].pc = "launch"
    BY DEF IInv, Records, LaunchKernel, At
  <1>2. e \in Entries /\ i \in DOMAIN kernels /\ CacheKey(kernels[i].entry) = CacheKey(e)
    BY <1>1 DEF ThreadFits, Fits, LaunchKernel, None
  <1>3. kernels \in Seq(KernelRecord) /\ kernels[i] \in KernelRecord /\ Device(e) \in Devices
    BY <1>2, ElementOfSeq DEF IInv, Records, Entries, Device
  <1>4. /\ kernels' = [kernels EXCEPT ![i] = new]
        /\ launched' = launched \cup {[entry |-> e, kernel |-> i]}
        /\ UNCHANGED <<kernelCache, futures, mode>> /\ Return(t)
    BY <1>3 DEF LaunchKernel
  <1>5. loaded \in Devices \cup {"none"}
    BY <1>3 DEF KernelRecord
  <1> HIDE DEF loaded
  <1>6. new \in KernelRecord /\ new.entry = kernels[i].entry
    BY <1>3, <1>5 DEF KernelRecord
  <1> HIDE DEF new
  <1>7. kernels' \in Seq(KernelRecord) /\ DOMAIN kernels' = DOMAIN kernels
    BY <1>2, <1>3, <1>4, <1>6, ExceptSeq
  <1>8. KernelsGrow(kernels, kernels') /\ FuturesGrow(futures, futures')
    BY <1>3, <1>4, <1>6, <1>7, SameFutures DEF KernelsGrow
  <1>9. /\ Idle(thread[t].calls) \in ThreadRecord
        /\ ThreadFits(kernels', futures', Idle(thread[t].calls))
    BY <1>1, IdleFits DEF ThreadRecord
  <1>10. /\ thread' \in [Threads -> ThreadRecord]
         /\ \A u \in Threads : ThreadFits(kernels', futures', thread'[u])
    BY <1>4, <1>8, <1>9, GrowIInv DEF Return, IInv, Records
  <1> HIDE DEF i, e
  <1>11. \A l \in launched' : /\ l.entry \in Entries /\ l.kernel \in DOMAIN kernels'
                              /\ CacheKey(kernels'[l.kernel].entry) = CacheKey(l.entry)
    BY <1>2, <1>4, <1>7, <1>8, GrowIInv DEF KernelsGrow
  <1> QED
    BY <1>4, <1>7, <1>8, <1>10, <1>11, GrowIInv DEF IInv, Records, LaunchesKeyed

LEMMA LaunchFutureIInv ==
    ASSUME IInv, NEW t \in Threads, LaunchFuture(t)
    PROVE  IInv'
  <1> DEFINE i == thread[t].kernel.id
             th == [thread[t] EXCEPT !.pc = "result", !.future = i]
  <1>1. thread[t] \in ThreadRecord /\ ThreadFits(kernels, futures, thread[t]) /\ thread[t].pc = "launch"
    BY DEF IInv, Records, LaunchFuture, At
  <1>2. i \in DOMAIN futures /\ CacheKey(futures[i].entry) = CacheKey(thread[t].entry)
    BY <1>1 DEF ThreadFits, Fits, LaunchFuture, None
  <1>3. thread' = [thread EXCEPT ![t] = th]
    BY DEF LaunchFuture, IInv, Records
  <1>4. i \in Nat
    BY <1>2 DEF IInv, Records
  <1> HIDE DEF i
  <1>5. th \in ThreadRecord
    BY <1>1, <1>4 DEF ThreadRecord, PCs
  <1>6. ThreadFits(kernels, futures, th)
    BY <1>1, <1>2 DEF ThreadFits, Finalizing, ThreadRecord
  <1> HIDE DEF th
  <1> QED
    BY <1>3, <1>5, <1>6, OwnStep DEF LaunchFuture

\* result returns k, which fits the entry the thread asked for.
LEMMA ResolvedFits ==
    ASSUME IInv, NEW t \in Threads, NEW k \in Slot, NEW ks, NEW fs,
           thread[t].pc \in {"result", "setKernel"}, ThreadFits(ks, fs, thread[t]),
           ~Exiting(t) => k # None /\ Fits(ks, fs, k, thread[t].entry),
           Resolved(t, k)
    PROVE  \E th \in ThreadRecord : /\ thread' = [thread EXCEPT ![t] = th]
                                    /\ ThreadFits(ks, fs, th)
  <1> DEFINE label == IF Exiting(t) THEN "exiting" ELSE "launch"
             got == IF Exiting(t) THEN None ELSE k
             th == [thread[t] EXCEPT !.pc = label, !.future = 0, !.kernel = got]
  <1>1. thread[t] \in ThreadRecord
    BY DEF IInv, Records
  <1>2. thread' = [thread EXCEPT ![t] = th]
    BY DEF Resolved, IInv, Records
  <1>3. label \in PCs /\ got \in Slot
    BY DEF PCs, Slot, None
  <1>4. \/ label = "exiting" /\ thread[t].entry = <<>>
        \/ label = "launch" /\ thread[t].entry \in Entries /\ got # None /\ Fits(ks, fs, got, thread[t].entry)
    BY <1>1 DEF Exiting, ThreadRecord
  <1> HIDE DEF label, got
  <1>5. th \in ThreadRecord
    BY <1>1, <1>3 DEF ThreadRecord
  <1>6. ThreadFits(ks, fs, th)
    BY <1>1, <1>4 DEF ThreadFits, Finalizing, ThreadRecord
  <1> QED
    BY <1>2, <1>5, <1>6

LEMMA ResultIInv ==
    ASSUME IInv, NEW t \in Threads, ResultKnown(t) \/ ResultArrives(t) \/ ResultRaises(t)
    PROVE  IInv'
  <1> DEFINE i == thread[t].future
             f == futures[i]
  <1>1. thread[t] \in ThreadRecord /\ ThreadFits(kernels, futures, thread[t]) /\ thread[t].pc = "result"
    BY DEF IInv, Records, ResultKnown, ResultArrives, ResultRaises, At
  <1>2. /\ i \in DOMAIN futures
        /\ ~Exiting(t) => CacheKey(f.entry) = CacheKey(thread[t].entry)
    BY <1>1 DEF ThreadFits, Exiting
  <1>3. f \in FutureRecord /\ FutureFits(kernels, futures, f)
    BY <1>2, ElementOfSeq DEF IInv, Records
  <1>4. CASE ResultKnown(t)
    <2>1. f.kernel # None /\ Resolved(t, f.kernel) /\ f.kernel \in Slot
      BY <1>3, <1>4 DEF ResultKnown, FutureRecord
    <2>2. ~Exiting(t) => Fits(kernels, futures, f.kernel, thread[t].entry)
      BY <1>2, <1>3, <2>1 DEF FutureFits, Fits
    <2>3. thread[t].pc \in {"result", "setKernel"}
      BY <1>1
    <2>4. ~Exiting(t) => f.kernel # None /\ Fits(kernels, futures, f.kernel, thread[t].entry)
      BY <2>1, <2>2
    <2> HIDE DEF f
    <2>5. PICK th \in ThreadRecord : thread' = [thread EXCEPT ![t] = th] /\ ThreadFits(kernels, futures, th)
      BY <1>1, <2>1, <2>3, <2>4, ResolvedFits
    <2> QED
      BY <1>4, <2>5, OwnStep DEF ResultKnown
  <1>5. CASE ResultArrives(t)
    <2> DEFINE th == [thread[t] EXCEPT !.pc = "store"]
    <2>1. f.result.kind = "kernel"
      BY <1>3, <1>5 DEF ResultArrives, FutureFits
    <2>2. ThreadFits(kernels, futures, th)
      BY <1>1, <2>1 DEF ThreadFits, Finalizing, ThreadRecord
    <2> QED
      BY <1>5, <2>2, GoIInv DEF ResultArrives, PCs
  <1>6. CASE ResultRaises(t)
    <2>1. CASE Return(t)
      BY <1>6, <2>1, ReturnIInv DEF ResultRaises
    <2>2. CASE Exiting(t) /\ Resolved(t, None)
      <3>1. None \in Slot
        BY DEF Slot, None
      <3>2. thread[t].pc \in {"result", "setKernel"}
        BY <1>1
      <3>3. PICK th \in ThreadRecord : thread' = [thread EXCEPT ![t] = th] /\ ThreadFits(kernels, futures, th)
        BY <1>1, <2>2, <3>1, <3>2, ResolvedFits
      <3> QED
        BY <1>6, <3>3, OwnStep DEF ResultRaises
    <2> QED
      BY <1>6, <2>1, <2>2 DEF ResultRaises
  <1> QED
    BY <1>4, <1>5, <1>6

LEMMA FinalizeIInv ==
    ASSUME IInv, NEW t \in Threads, FinalizeStore(t) \/ FinalizeHook(t) \/ SetKernel(t)
    PROVE  IInv'
  <1> DEFINE i == thread[t].future
             f == futures[i]
  <1>1. /\ thread[t] \in ThreadRecord /\ ThreadFits(kernels, futures, thread[t])
        /\ thread[t].pc \in Finalizing
    BY DEF IInv, Records, FinalizeStore, FinalizeHook, SetKernel, At, Finalizing
  <1>2. /\ i \in DOMAIN futures /\ f.result.kind = "kernel"
        /\ ~Exiting(t) => CacheKey(f.entry) = CacheKey(thread[t].entry)
    BY <1>1 DEF ThreadFits, Exiting
  <1>3. f \in FutureRecord /\ FutureFits(kernels, futures, f)
    BY <1>2, ElementOfSeq DEF IInv, Records
  <1>4. f.result \in Slot /\ f.result # None /\ Fits(kernels, futures, f.result, f.entry) /\ f.entry \in Entries
    BY <1>2, <1>3 DEF FutureFits, FutureRecord, None
  <1>5. CASE FinalizeStore(t)
    <2> DEFINE th == [thread[t] EXCEPT !.pc = "finalHook"]
    <2>1. /\ kernelCache' = [kernelCache EXCEPT ![f.entry] = f.result]
          /\ thread' = [thread EXCEPT ![t] = th]
          /\ UNCHANGED <<kernels, futures, mode, launched>>
      BY <1>5 DEF FinalizeStore, Go, IInv, Records
    <2>2. ThreadFits(kernels, futures, th) /\ th \in ThreadRecord
      BY <1>1, <1>2 DEF ThreadFits, Finalizing, ThreadRecord, PCs
    <2> HIDE DEF th
    <2> QED
      BY <1>4, <2>1, <2>2 DEF IInv, Records, LaunchesKeyed
  <1>6. CASE FinalizeHook(t)
    <2> DEFINE th == [thread[t] EXCEPT !.pc = "setKernel"]
    <2>1. ThreadFits(kernels, futures, th)
      BY <1>1, <1>2 DEF ThreadFits, Finalizing, ThreadRecord
    <2> QED
      BY <1>6, <2>1, GoIInv DEF FinalizeHook, PCs
  <1>7. CASE SetKernel(t)
    <2> DEFINE new == [f EXCEPT !.kernel = f.result]
    <2>1. /\ futures' = [futures EXCEPT ![i] = new]
          /\ Resolved(t, f.result) /\ thread[t].pc = "setKernel"
          /\ UNCHANGED <<kernelCache, kernels, mode, launched>>
      BY <1>2, <1>7 DEF SetKernel, At, IInv, Records
    <2>2. /\ new \in FutureRecord /\ new.entry = f.entry /\ new.result = f.result
          /\ new.kernel = f.result /\ new.status = f.status
      BY <1>3 DEF FutureRecord
    <2> HIDE DEF new
    <2>3. /\ futures' \in Seq(FutureRecord) /\ FuturesGrow(futures, futures') /\ DOMAIN futures' = DOMAIN futures
          /\ KernelsGrow(kernels, kernels')
      BY <1>2, <2>1, <2>2, ReplaceFuture, SameKernels
    <2>4. \A j \in DOMAIN futures' : FutureFits(kernels', futures', futures'[j])
      <3>1. FutureFits(kernels', futures', f)
        BY <1>2, <2>3, GrowIInv
      <3>2. FutureFits(kernels', futures', new)
        BY <2>2, <3>1 DEF FutureFits
      <3> QED
        BY <1>2, <2>1, <2>3, <3>2, GrowIInv DEF IInv, Records
    <2>5. ~Exiting(t) => Fits(kernels', futures', f.result, thread[t].entry)
      <3>1. ~Exiting(t) => Fits(kernels, futures, f.result, thread[t].entry)
        BY <1>2, <1>4 DEF Fits
      <3> QED
        BY <2>3, <3>1, FitsGrow
    <2>6. ThreadFits(kernels', futures', thread[t])
      BY <2>3, GrowIInv
    <2>7. PICK th \in ThreadRecord : thread' = [thread EXCEPT ![t] = th] /\ ThreadFits(kernels', futures', th)
      <3>1. thread[t].pc \in {"result", "setKernel"} /\ f.result \in Slot
        BY <1>4, <2>1
      <3>2. ~Exiting(t) => f.result # None /\ Fits(kernels', futures', f.result, thread[t].entry)
        BY <1>4, <2>5
      <3>3. Resolved(t, f.result)
        BY <2>1
      <3> DEFINE k == f.result
                 ks == kernels'
                 fs == futures'
      <3>4. /\ k \in Slot /\ Resolved(t, k) /\ ThreadFits(ks, fs, thread[t])
            /\ ~Exiting(t) => k # None /\ Fits(ks, fs, k, thread[t].entry)
        BY <2>6, <3>1, <3>2, <3>3
      <3> HIDE DEF k, ks, fs
      <3>5. \E th \in ThreadRecord : thread' = [thread EXCEPT ![t] = th] /\ ThreadFits(ks, fs, th)
        BY <3>1, <3>4, ResolvedFits
      <3> QED
        BY <3>5 DEF ks, fs
    <2>8. /\ thread' \in [Threads -> ThreadRecord]
          /\ \A u \in Threads : ThreadFits(kernels', futures', thread'[u])
      BY <2>3, <2>7, GrowIInv DEF IInv, Records
    <2> QED
      BY <2>1, <2>3, <2>4, <2>8, GrowIInv DEF IInv, Records, LaunchesKeyed
  <1> QED
    BY <1>5, <1>6, <1>7

LEMMA EnterModeIInv ==
    ASSUME IInv, NEW t \in Threads, EnterMode(t)
    PROVE  IInv'
  <1>1. PICK ignore \in IgnoreErrors :
           mode' = [mode EXCEPT ![t] = [active |-> TRUE, ignoreErrors |-> ignore, futures |-> <<>>]]
    BY DEF EnterMode
  <1> DEFINE m == [active |-> TRUE, ignoreErrors |-> ignore, futures |-> <<>>]
             calls == thread[t].calls + 1
             th == [thread[t] EXCEPT !.calls = calls]
  <1>2. thread[t] \in ThreadRecord /\ ThreadFits(kernels, futures, thread[t])
    BY DEF IInv, Records
  <1>3. m \in ModeRecord /\ ModeFits(futures, m)
    <2>1. <<>> \in [{} -> Nat]
      OBVIOUS
    <2> QED
      BY <2>1, ConstantsAssumption DEF ModeRecord, ModeFits
  <1>4. calls \in Nat
    BY <1>2 DEF ThreadRecord
  <1>5. thread' = [thread EXCEPT ![t] = th] /\ UNCHANGED <<kernelCache, kernels, futures, launched>>
    BY DEF EnterMode, IInv, Records
  <1> HIDE DEF calls
  <1>6. th \in ThreadRecord /\ ThreadFits(kernels, futures, th)
    BY <1>2, <1>4 DEF ThreadRecord, ThreadFits
  <1> HIDE DEF m, th
  <1>7. mode' = [mode EXCEPT ![t] = m]
    BY <1>1 DEF m
  <1> QED
    BY <1>3, <1>5, <1>6, <1>7 DEF IInv, Records, LaunchesKeyed

LEMMA ExitModeIInv ==
    ASSUME IInv, NEW t \in Threads, ExitMode(t)
    PROVE  IInv'
  <1> DEFINE m == [mode[t] EXCEPT !.active = FALSE]
             raw == Range(mode[t].futures)
             th == [thread[t] EXCEPT !.pc = "exiting", !.raw = raw]
  <1>1. /\ thread[t] \in ThreadRecord /\ ThreadFits(kernels, futures, thread[t]) /\ thread[t].pc = "idle"
        /\ mode[t] \in ModeRecord /\ ModeFits(futures, mode[t])
    BY DEF IInv, Records, ExitMode, At
  <1>2. raw \subseteq DOMAIN futures
    BY <1>1 DEF ModeFits, Range
  <1>3. raw \subseteq Nat
    BY <1>2 DEF IInv, Records
  <1>4. m \in ModeRecord /\ ModeFits(futures, m)
    BY <1>1 DEF ModeRecord, ModeFits
  <1>5. /\ mode' = [mode EXCEPT ![t] = m] /\ thread' = [thread EXCEPT ![t] = th]
        /\ UNCHANGED <<kernelCache, kernels, futures, launched>>
    BY DEF ExitMode, IInv, Records
  <1> HIDE DEF raw, m
  <1>6. th \in ThreadRecord /\ ThreadFits(kernels, futures, th)
    BY <1>1, <1>2, <1>3 DEF ThreadRecord, PCs, ThreadFits, Finalizing
  <1> HIDE DEF th
  <1> QED
    BY <1>4, <1>5, <1>6 DEF IInv, Records, LaunchesKeyed

LEMMA ExitNextIInv ==
    ASSUME IInv, NEW t \in Threads, ExitNext(t)
    PROVE  IInv'
  <1>1. PICK i \in thread[t].raw :
           thread' = [thread EXCEPT ![t].pc = "result", ![t].future = i, ![t].raw = @ \ {i}]
    BY DEF ExitNext
  <1> DEFINE left == thread[t].raw \ {i}
             th == [thread[t] EXCEPT !.pc = "result", !.future = i, !.raw = left]
  <1>2. thread[t] \in ThreadRecord /\ ThreadFits(kernels, futures, thread[t]) /\ thread[t].pc = "exiting"
    BY DEF IInv, Records, ExitNext, At
  <1>3. thread' = [thread EXCEPT ![t] = th]
    BY <1>1 DEF IInv, Records
  <1>4. /\ i \in DOMAIN futures /\ i \in Nat /\ left \subseteq Nat /\ left \subseteq DOMAIN futures
        /\ thread[t].entry = <<>>
    BY <1>2 DEF ThreadFits, ThreadRecord
  <1> HIDE DEF left
  <1>5. th \in ThreadRecord
    BY <1>2, <1>4 DEF ThreadRecord, PCs
  <1>6. ThreadFits(kernels, futures, th)
    BY <1>2, <1>4 DEF ThreadFits, ThreadRecord, Finalizing
  <1> HIDE DEF th
  <1> QED
    BY <1>3, <1>5, <1>6, OwnStep DEF ExitNext

LEMMA NextIInv == IInv /\ [Next]_vars => IInv'
  <1> SUFFICES ASSUME IInv, [Next]_vars PROVE IInv'
    OBVIOUS
  <1>1. CASE UNCHANGED vars
    BY <1>1 DEF vars, IInv, Records, LaunchesKeyed
  <1>2. ASSUME NEW t \in Threads, Warmup(t) \/ ExitDone(t) PROVE IInv'
    BY <1>2, ReturnIInv DEF Warmup, ExitDone
  <1>3. ASSUME NEW t \in Threads, Continue(t) PROVE IInv'
    BY <1>2, <1>3, CompileNowIInv, PostCompileHookIInv, SubmitIInv, LaunchKernelIInv, LaunchFutureIInv,
       ResultIInv, FinalizeIInv, ExitNextIInv DEF Continue
  <1> QED
    BY <1>1, <1>3, CallIInv, EnterModeIInv, ExitModeIInv, TaskEndsIInv DEF Next

-----------------------------------------------------------------------------
(* With a target for each device a key is of one entry: what is launched    *)
(* is loaded where it was asked for, and a mode submits for an entry once.  *)

DistinctTargets == \A d1, d2 \in Devices : TargetOf[d1] = TargetOf[d2] => d1 = d2

\* A kernel is loaded on its own device or not yet, and one that was launched is.
LoadedRight ==
    /\ \A i \in DOMAIN kernels : kernels[i].device \in {"none", Device(kernels[i].entry)}
    /\ \A l \in launched : kernels[l.kernel].device = Device(l.entry)

SlotOf(kc, fs, i) == kc[fs[i].entry]

\* The slot that a future of mode m was put in is never empty again, so the
\* thread of the mode does not submit for it twice.
SubmittedOnce(kc, fs, m, th) ==
    /\ \A i \in Range(m.futures) : SlotOf(kc, fs, i) # None
    /\ th.pc = "compile" /\ m.active => CacheKey(th.entry) \notin DOMAIN m.futures

\* Once finalize_compile has stored the kernel the future is in no slot.
Stored(kc, fs, th) ==
    th.pc \in {"finalHook", "setKernel"} => SlotOf(kc, fs, th.future) # Future(th.future)

\* What a mode that is being left still has in a slot is ahead of th, or failed.
Leaving(th) == th.entry = <<>> /\ th.pc \in {"exiting", "result"} \cup Finalizing

Outstanding(kc, fs, m, th) ==
    Leaving(th) =>
        \A i \in Range(m.futures) : \/ SlotOf(kc, fs, i) # Future(i)
                                    \/ i \in th.raw
                                    \/ i = th.future /\ th.pc \in {"result", "store"}
                                    \/ fs[i].status = "failed"

SlotsFit(kc, fs, m, th) ==
    SubmittedOnce(kc, fs, m, th) /\ Stored(kc, fs, th) /\ Outstanding(kc, fs, m, th)

\* A future that knows its kernel is in no slot.
Finalized(kc, fs) == \A i \in DOMAIN fs : fs[i].kernel # None => SlotOf(kc, fs, i) # Future(i)

\* A future is of one mode.
OwnFutures == \A t, u \in Threads : t # u => Range(mode[t].futures) \cap Range(mode[u].futures) = {}

OneEntryInv ==
    /\ IInv
    /\ LoadedRight
    /\ OwnFutures
    /\ Finalized(kernelCache, futures)
    /\ \A t \in Threads : SlotsFit(kernelCache, futures, mode[t], thread[t])

LEMMA OneEntry ==
    ASSUME DistinctTargets, NEW e1 \in Entries, NEW e2 \in Entries, CacheKey(e1) = CacheKey(e2)
    PROVE  e1 = e2
  BY DEF DistinctTargets, Entries, CacheKey, Device

LEMMA EntryNotEmpty == \A e \in Entries : e # <<>>
  BY DEF Entries

\* What one step does to the caches as the futures see them: a slot is never
\* emptied, and a future does not come back into its slot.
Settles(kc, fs, kc2, fs2) ==
    \A i \in DOMAIN fs : /\ i \in DOMAIN fs2 /\ fs2[i].entry = fs[i].entry
                         /\ fs[i].status = "failed" => fs2[i].status = "failed"
                         /\ SlotOf(kc, fs, i) # None => SlotOf(kc2, fs2, i) # None
                         /\ SlotOf(kc, fs, i) # Future(i) => SlotOf(kc2, fs2, i) # Future(i)

LEMMA SettledFits ==
    ASSUME NEW ks, NEW fs, NEW kc, NEW fs2, NEW kc2, NEW m, NEW th,
           Settles(kc, fs, kc2, fs2), ModeFits(fs, m), ThreadFits(ks, fs, th), SlotsFit(kc, fs, m, th)
    PROVE  SlotsFit(kc2, fs2, m, th)
  <1>1. \A i \in Range(m.futures) : i \in DOMAIN fs
    BY DEF ModeFits, Range
  <1>2. SubmittedOnce(kc2, fs2, m, th)
    BY <1>1 DEF SlotsFit, SubmittedOnce, Settles
  <1>3. Stored(kc2, fs2, th)
    BY DEF SlotsFit, Stored, Settles, ThreadFits, Finalizing
  <1>4. Outstanding(kc2, fs2, m, th)
    BY <1>1 DEF SlotsFit, Outstanding, Settles
  <1> QED
    BY <1>2, <1>3, <1>4 DEF SlotsFit

\* A step of thread t, or of no thread, after which the futures settle.
LEMMA SettledStep ==
    OneEntryInv /\ Settles(kernelCache, futures, kernelCache', futures') =>
        \A t \in Threads : SlotsFit(kernelCache', futures', mode[t], thread[t])
  <1> SUFFICES ASSUME OneEntryInv, Settles(kernelCache, futures, kernelCache', futures'), NEW t \in Threads
               PROVE  SlotsFit(kernelCache', futures', mode[t], thread[t])
    OBVIOUS
  <1>1. /\ ModeFits(futures, mode[t]) /\ ThreadFits(kernels, futures, thread[t])
        /\ SlotsFit(kernelCache, futures, mode[t], thread[t])
    BY DEF OneEntryInv, IInv
  <1> QED
    BY <1>1, SettledFits

\* The thread of the step is the only one left to look at.
LEMMA ThreadStep ==
    ASSUME OneEntryInv, IInv', LoadedRight', NEW t \in Threads, mode' = mode,
           Settles(kernelCache, futures, kernelCache', futures'),
           Finalized(kernelCache', futures'),
           NEW th, thread' = [thread EXCEPT ![t] = th],
           SlotsFit(kernelCache', futures', mode[t], th)
    PROVE  OneEntryInv'
  <1>1. \A u \in Threads : SlotsFit(kernelCache', futures', mode[u], thread[u])
    BY SettledStep
  <1>2. \A u \in Threads : SlotsFit(kernelCache', futures', mode'[u], thread'[u])
    BY <1>1 DEF OneEntryInv, IInv, Records
  <1>3. OwnFutures'
    BY DEF OneEntryInv, OwnFutures
  <1> QED
    BY <1>2, <1>3 DEF OneEntryInv

\* The steps that only read the caches, the futures and the modes.
LEMMA ReadingStep ==
    ASSUME OneEntryInv, IInv', LoadedRight', NEW t \in Threads, UNCHANGED <<mode, kernelCache, futures>>,
           NEW th, thread' = [thread EXCEPT ![t] = th],
           SlotsFit(kernelCache, futures, mode[t], th)
    PROVE  OneEntryInv'
  <1>1. Settles(kernelCache, futures, kernelCache', futures')
    BY DEF Settles
  <1>2. Finalized(kernelCache', futures')
    BY DEF OneEntryInv
  <1> QED
    BY <1>1, <1>2, ThreadStep

LEMMA FuturesTyped ==
    IInv => \A i \in DOMAIN futures : futures[i] \in FutureRecord
  <1> SUFFICES ASSUME IInv, NEW i \in DOMAIN futures PROVE futures[i] \in FutureRecord
    OBVIOUS
  <1> QED
    BY ElementOfSeq DEF IInv, Records

\* A kernel put in a slot.
LEMMA StoreSettles ==
    ASSUME OneEntryInv, NEW e \in Entries, NEW k \in Slot, k.kind = "kernel",
           kernelCache' = [kernelCache EXCEPT ![e] = k], futures' = futures
    PROVE  /\ Settles(kernelCache, futures, kernelCache', futures')
           /\ Finalized(kernelCache', futures')
           /\ \A i \in DOMAIN futures : futures[i].entry = e => SlotOf(kernelCache', futures', i) # Future(i)
  <1>1. /\ \A i \in DOMAIN futures : futures[i].entry \in Entries
        /\ kernelCache \in [Entries -> Slot]
    BY FuturesTyped DEF OneEntryInv, IInv, Records, FutureRecord
  <1>2. k # None /\ \A i : k # Future(i)
    BY DEF None, Future
  <1>3. Settles(kernelCache, futures, kernelCache', futures')
    BY <1>1, <1>2 DEF Settles, SlotOf
  <1>4. Finalized(kernelCache', futures')
    BY <1>1, <1>2 DEF OneEntryInv, Finalized, SlotOf
  <1> QED
    BY <1>1, <1>2, <1>3, <1>4 DEF SlotOf

\* An idle thread is in the way of nothing.
LEMMA IdleSlots ==
    ASSUME NEW kc, NEW fs, NEW m, NEW th, SlotsFit(kc, fs, m, th), NEW n
    PROVE  SlotsFit(kc, fs, m, Idle(n))
  BY DEF SlotsFit, SubmittedOnce, Stored, Outstanding, Leaving, Idle, Finalizing

LEMMA InitOneEntry == Init => OneEntryInv
  <1> SUFFICES ASSUME Init PROVE OneEntryInv
    OBVIOUS
  <1>1. \A t \in Threads : SlotsFit(kernelCache, futures, mode[t], thread[t])
    BY DEF Init, SlotsFit, SubmittedOnce, Stored, Outstanding, Leaving, Idle, Inactive, Finalizing, Range
  <1> QED
    BY <1>1, InitIInv DEF Init, OneEntryInv, LoadedRight, OwnFutures, Finalized, Inactive, Range

\* What a kernel is compiled for and where it is loaded do not change.
LEMMA SameLoaded == LoadedRight /\ kernels' = kernels /\ launched' = launched => LoadedRight'
  BY DEF LoadedRight

LEMMA AddLoaded ==
    ASSUME IInv, LoadedRight, NEW e \in Entries,
           kernels' = Append(kernels, Compiled(e)), launched' = launched
    PROVE  LoadedRight'
  <1>1. \A l \in launched : l.kernel \in DOMAIN kernels
    BY DEF IInv, Records
  <1>2. /\ DOMAIN kernels' = DOMAIN kernels \cup {Len(kernels')}
        /\ \A i \in DOMAIN kernels : kernels'[i] = kernels[i]
        /\ kernels'[Len(kernels')] = Compiled(e)
    BY AppendKernel
  <1>3. Compiled(e).device = "none"
    BY DEF Compiled
  <1> QED
    BY <1>1, <1>2, <1>3 DEF LoadedRight

LEMMA LaunchLoaded ==
    ASSUME DistinctTargets, IInv, LoadedRight, NEW t \in Threads, LaunchKernel(t)
    PROVE  LoadedRight'
  <1> DEFINE i == thread[t].kernel.id
             e == thread[t].entry
             new == [kernels[i] EXCEPT !.device = IF @ = "none" THEN Device(e) ELSE @]
  <1>1. thread[t] \in ThreadRecord /\ ThreadFits(kernels, futures, thread[t]) /\ thread[t].pc = "launch"
    BY DEF IInv, Records, LaunchKernel, At
  <1>2. e \in Entries /\ i \in DOMAIN kernels /\ CacheKey(kernels[i].entry) = CacheKey(e)
    BY <1>1 DEF ThreadFits, Fits, LaunchKernel, None
  <1>3. kernels \in Seq(KernelRecord) /\ kernels[i] \in KernelRecord
    BY <1>2, ElementOfSeq DEF IInv, Records
  <1>4. kernels[i].entry = e
    <2>1. kernels[i].entry \in Entries
      BY <1>3 DEF KernelRecord
    <2> QED
      BY <1>2, <2>1, OneEntry
  <1>5. /\ kernels' = [kernels EXCEPT ![i] = new]
        /\ launched' = launched \cup {[entry |-> e, kernel |-> i]}
    BY <1>3 DEF LaunchKernel
  <1>6. new.entry = e /\ new.device = Device(e)
    BY <1>2, <1>3, <1>4 DEF KernelRecord, LoadedRight
  <1>7. \A l \in launched : l.kernel \in DOMAIN kernels
    BY DEF IInv, Records
  <1>8. ASSUME NEW l \in launched, l.kernel = i PROVE Device(l.entry) = Device(e)
    <2>1. l.entry \in Entries /\ CacheKey(e) = CacheKey(l.entry)
      BY <1>2, <1>8 DEF IInv, Records, LaunchesKeyed
    <2> QED
      BY <1>2, <2>1, OneEntry
  <1> HIDE DEF new, i, e
  <1>9. \A j \in DOMAIN kernels' : kernels'[j].device \in {"none", Device(kernels'[j].entry)}
    BY <1>5, <1>6 DEF LoadedRight
  <1>10. \A l \in launched' : kernels'[l.kernel].device = Device(l.entry)
    BY <1>2, <1>5, <1>6, <1>7, <1>8 DEF LoadedRight
  <1> QED
    BY <1>9, <1>10 DEF LoadedRight

\* The steps of a call that read: all of them keep what they do not write.
LEMMA ReturnSlots ==
    ASSUME OneEntryInv, IInv', LoadedRight', NEW t \in Threads, Return(t),
           UNCHANGED <<mode, kernelCache, futures>>
    PROVE  OneEntryInv'
  <1>1. SlotsFit(kernelCache, futures, mode[t], Idle(thread[t].calls))
    BY IdleSlots DEF OneEntryInv
  <1> QED
    BY <1>1, ReadingStep DEF Return

LEMMA CallSlots ==
    ASSUME DistinctTargets, OneEntryInv, IInv', NEW t \in Threads, NEW e \in Entries, NEW warmup \in BOOLEAN,
           Call(t, e, warmup)
    PROVE  OneEntryInv'
  <1> DEFINE found == kernelCache[e]
             label == IF found = None THEN "compile" ELSE "launch"
             th == [thread[t] EXCEPT !.calls = @ + 1, !.entry = e, !.warmup = warmup,
                                     !.kernel = found, !.pc = label]
  <1>1. /\ thread[t] \in ThreadRecord /\ ModeFits(futures, mode[t])
        /\ SlotsFit(kernelCache, futures, mode[t], thread[t])
    BY DEF OneEntryInv, IInv, Records
  <1>2. thread' = [thread EXCEPT ![t] = th]
    BY DEF Call, OneEntryInv, IInv, Records
  <1>3. label \in {"compile", "launch"} /\ (label = "compile" => found = None)
    OBVIOUS
  <1>4. th.pc = label /\ th.entry = e
    BY <1>1 DEF ThreadRecord
  <1>5. ASSUME found = None, CacheKey(e) \in DOMAIN mode[t].futures PROVE FALSE
    <2> DEFINE i == mode[t].futures[CacheKey(e)]
    <2>1. i \in DOMAIN futures /\ CacheKey(futures[i].entry) = CacheKey(e)
      BY <1>1, <1>5 DEF ModeFits
    <2>2. futures[i].entry = e
      BY <2>1, FuturesTyped, OneEntry DEF OneEntryInv, FutureRecord
    <2>3. i \in Range(mode[t].futures)
      BY <1>5 DEF Range
    <2> QED
      BY <1>1, <1>5, <2>2, <2>3 DEF SlotsFit, SubmittedOnce, SlotOf
  <1> HIDE DEF found, label, th
  <1>6. SlotsFit(kernelCache, futures, mode[t], th)
    BY <1>1, <1>3, <1>4, <1>5 DEF SlotsFit, SubmittedOnce, Stored, Outstanding, Leaving, Finalizing
  <1>7. LoadedRight'
    BY SameLoaded DEF Call, OneEntryInv
  <1> QED
    BY <1>2, <1>6, <1>7, ReadingStep DEF Call

\* The thread moves on within a call.
LEMMA InCallSlots ==
    ASSUME NEW kc, NEW fs, NEW m, NEW th0, SlotsFit(kc, fs, m, th0), NEW th,
           th.pc \in {"hook", "launch"} \/ (th.pc = "result" /\ th.entry # <<>>)
    PROVE  SlotsFit(kc, fs, m, th)
  BY DEF SlotsFit, SubmittedOnce, Stored, Outstanding, Leaving, Finalizing

LEMMA CompileNowSlots ==
    ASSUME OneEntryInv, IInv', NEW t \in Threads, CompileNow(t)
    PROVE  OneEntryInv'
  <1> DEFINE e == thread[t].entry
             k == Kernel(Len(kernels'))
             th == [thread[t] EXCEPT !.pc = "hook", !.kernel = k]
  <1>1. CASE MayFail /\ Return(t) /\ UNCHANGED <<kernels, kernelCache>>
    <2>1. LoadedRight'
      BY <1>1, SameLoaded DEF CompileNow, OneEntryInv
    <2> QED
      BY <1>1, <2>1, ReturnSlots DEF CompileNow
  <1>2. CASE /\ kernels' = Append(kernels, Compiled(e))
             /\ kernelCache' = [kernelCache EXCEPT ![e] = k]
             /\ thread' = [thread EXCEPT ![t].pc = "hook", ![t].kernel = k]
    <2>1. /\ thread[t] \in ThreadRecord /\ ThreadFits(kernels, futures, thread[t])
          /\ thread[t].pc = "compile" /\ IInv /\ LoadedRight
      BY DEF OneEntryInv, IInv, Records, CompileNow, At
    <2>2. e \in Entries /\ futures' = futures /\ mode' = mode /\ launched' = launched
      BY <2>1 DEF ThreadFits, CompileNow
    <2>3. LoadedRight'
      BY <1>2, <2>1, <2>2, AddLoaded
    <2>4. k \in Slot /\ k.kind = "kernel"
      BY <1>2, <2>1, <2>2, AppendKernel DEF Slot, Kernel
    <2>5. Settles(kernelCache, futures, kernelCache', futures') /\ Finalized(kernelCache', futures')
      BY <1>2, <2>2, <2>4, StoreSettles
    <2>6. thread' = [thread EXCEPT ![t] = th]
      BY <1>2, <2>1 DEF IInv, Records
    <2>7. SlotsFit(kernelCache', futures', mode[t], thread[t])
      BY <2>5, SettledStep
    <2>8. th.pc = "hook"
      BY <2>1 DEF ThreadRecord
    <2> HIDE DEF th, k
    <2>9. SlotsFit(kernelCache', futures', mode[t], th)
      BY <2>7, <2>8, InCallSlots
    <2> QED
      BY <2>2, <2>3, <2>5, <2>6, <2>9, ThreadStep
  <1> QED
    BY <1>1, <1>2 DEF CompileNow

\* The steps of thread t that only move it on.
LEMMA MovingSlots ==
    ASSUME OneEntryInv, IInv', NEW t \in Threads,
           PostCompileHook(t) \/ LaunchFuture(t)
    PROVE  OneEntryInv'
  <1>1. /\ thread[t] \in ThreadRecord /\ ThreadFits(kernels, futures, thread[t])
        /\ SlotsFit(kernelCache, futures, mode[t], thread[t])
    BY DEF OneEntryInv, IInv, Records
  <1>2. LoadedRight'
    BY SameLoaded DEF OneEntryInv, PostCompileHook, LaunchFuture
  <1>3. CASE PostCompileHook(t)
    <2> DEFINE th == [thread[t] EXCEPT !.pc = "launch"]
    <2>1. thread' = [thread EXCEPT ![t] = th] /\ th.pc = "launch"
      BY <1>1, <1>3 DEF PostCompileHook, Go, OneEntryInv, IInv, Records, ThreadRecord
    <2> HIDE DEF th
    <2>2. SlotsFit(kernelCache, futures, mode[t], th)
      BY <1>1, <2>1, InCallSlots
    <2> QED
      BY <1>2, <1>3, <2>1, <2>2, ReadingStep DEF PostCompileHook
  <1>4. CASE LaunchFuture(t)
    <2> DEFINE th == [thread[t] EXCEPT !.pc = "result", !.future = thread[t].kernel.id]
    <2>1. thread[t].pc = "launch" /\ thread[t].entry \in Entries
      BY <1>1, <1>4 DEF LaunchFuture, At, ThreadFits
    <2>2. thread[t].entry # <<>>
      BY <2>1, EntryNotEmpty
    <2>3. thread' = [thread EXCEPT ![t] = th] /\ th.pc = "result" /\ th.entry # <<>>
      BY <1>1, <1>4, <2>2 DEF LaunchFuture, OneEntryInv, IInv, Records, ThreadRecord
    <2> HIDE DEF th
    <2>4. SlotsFit(kernelCache, futures, mode[t], th)
      BY <1>1, <2>3, InCallSlots
    <2> QED
      BY <1>2, <1>4, <2>3, <2>4, ReadingStep DEF LaunchFuture
  <1> QED
    BY <1>3, <1>4

LEMMA SubmitSlots ==
    ASSUME DistinctTargets, OneEntryInv, IInv', NEW t \in Threads, Submit(t)
    PROVE  OneEntryInv'
  <1> DEFINE e == thread[t].entry
             k == CacheKey(e)
             f == Len(futures) + 1
             new == [status |-> "running", entry |-> e, result |-> None, kernel |-> None]
             registry == [x \in DOMAIN mode[t].futures \cup {k} |-> IF x = k THEN f ELSE mode[t].futures[x]]
             m == [mode[t] EXCEPT !.futures = registry]
             th == [thread[t] EXCEPT !.pc = "launch", !.kernel = Future(f)]
  <1>1. /\ thread[t] \in ThreadRecord /\ ThreadFits(kernels, futures, thread[t]) /\ thread[t].pc = "compile"
        /\ SlotsFit(kernelCache, futures, mode[t], thread[t])
        /\ mode[t] \in ModeRecord /\ ModeFits(futures, mode[t]) /\ mode[t].active
    BY DEF OneEntryInv, IInv, Records, Submit, SubmitAs, At
  <1>2. e \in Entries /\ ~Known(t, k)
    BY <1>1 DEF ThreadFits, SlotsFit, SubmittedOnce, Known
  <1>3. futures \in Seq(FutureRecord) /\ new \in FutureRecord
    BY <1>2 DEF OneEntryInv, IInv, Records, FutureRecord, Slot, None
  <1>4. /\ futures' = Append(futures, new)
        /\ mode' = [mode EXCEPT ![t] = m]
        /\ kernelCache' = [kernelCache EXCEPT ![e] = Future(f)]
        /\ thread' = [thread EXCEPT ![t] = th]
        /\ kernels' = kernels /\ launched' = launched
    BY <1>2 DEF Submit, SubmitAs, Submitted, OneEntryInv, IInv, Records
  <1>5. new.entry = e /\ new.kernel = None
    OBVIOUS
  <1> HIDE DEF new
  <1>6. /\ DOMAIN futures' = DOMAIN futures \cup {f} /\ f \notin DOMAIN futures /\ f \in Nat
        /\ futures'[f] = new
        /\ \A i \in DOMAIN futures : futures'[i] = futures[i]
    BY <1>3, <1>4
  <1> HIDE DEF f
  <1>7. Future(f) # None /\ \A i \in DOMAIN futures : Future(f) # Future(i)
    BY <1>6 DEF Future, None
  <1>8. kernelCache \in [Entries -> Slot] /\ \A i \in DOMAIN futures : futures[i].entry \in Entries
    BY FuturesTyped DEF OneEntryInv, IInv, Records, FutureRecord
  <1>9. Settles(kernelCache, futures, kernelCache', futures')
    BY <1>4, <1>6, <1>7, <1>8 DEF Settles, SlotOf
  <1>10. Finalized(kernelCache', futures')
    BY <1>4, <1>5, <1>6, <1>7, <1>8 DEF OneEntryInv, Finalized, SlotOf
  <1>11. SlotOf(kernelCache', futures', f) # None
    BY <1>2, <1>4, <1>5, <1>6, <1>7, <1>8 DEF SlotOf
  <1>12. Range(registry) \subseteq Range(mode[t].futures) \cup {f}
    BY DEF Range
  <1> HIDE DEF registry
  <1>13. m.futures = registry
    BY <1>1 DEF ModeRecord
  <1>14. th.pc = "launch"
    BY <1>1 DEF ThreadRecord
  <1> HIDE DEF m, th
  <1>15. SlotsFit(kernelCache', futures', m, th)
    <2>1. SlotsFit(kernelCache', futures', mode[t], thread[t])
      BY <1>9, SettledStep
    <2>2. SubmittedOnce(kernelCache', futures', m, th)
      BY <1>11, <1>12, <1>13, <1>14, <2>1 DEF SlotsFit, SubmittedOnce
    <2>3. Stored(kernelCache', futures', th) /\ Outstanding(kernelCache', futures', m, th)
      BY <1>14 DEF Stored, Outstanding, Leaving, Finalizing
    <2> QED
      BY <2>2, <2>3 DEF SlotsFit
  <1>16. \A u \in Threads : SlotsFit(kernelCache', futures', mode'[u], thread'[u])
    <2>1. \A u \in Threads : SlotsFit(kernelCache', futures', mode[u], thread[u])
      BY <1>9, SettledStep
    <2> QED
      BY <1>4, <1>15, <2>1 DEF OneEntryInv, IInv, Records
  <1>17. OwnFutures'
    <2>1. \A u \in Threads : Range(mode[u].futures) \subseteq DOMAIN futures
      BY DEF OneEntryInv, IInv, ModeFits, Range
    <2>2. \A u \in Threads \ {t} : Range(m.futures) \cap Range(mode[u].futures) = {}
      BY <1>6, <1>12, <1>13, <2>1 DEF OneEntryInv, OwnFutures
    <2>3. /\ mode'[t] = m
          /\ \A u \in Threads \ {t} : mode'[u] = mode[u]
      BY <1>4 DEF OneEntryInv, IInv, Records
    <2> QED
      BY <2>2, <2>3 DEF OneEntryInv, OwnFutures
  <1>18. LoadedRight'
    BY <1>4, SameLoaded DEF OneEntryInv
  <1> QED
    BY <1>10, <1>16, <1>17, <1>18 DEF OneEntryInv

LEMMA TaskEndsSlots ==
    ASSUME OneEntryInv, IInv', NEW i \in DOMAIN futures, TaskEnds(i)
    PROVE  OneEntryInv'
  <1>1. futures \in Seq(FutureRecord) /\ futures[i] \in FutureRecord /\ IInv /\ LoadedRight
    BY FuturesTyped DEF OneEntryInv, IInv, Records
  <1>2. futures[i].status = "running" /\ UNCHANGED <<kernelCache, mode, thread, launched>>
    BY DEF TaskEnds
  <1>3. /\ DOMAIN futures' = DOMAIN futures
        /\ \A j \in DOMAIN futures : /\ futures'[j].entry = futures[j].entry
                                     /\ futures'[j].kernel = futures[j].kernel
                                     /\ j # i => futures'[j].status = futures[j].status
    <2>1. PICK f : /\ futures' = [futures EXCEPT ![i] = f]
                   /\ f.entry = futures[i].entry /\ f.kernel = futures[i].kernel
      <3>1. CASE futures' = [futures EXCEPT ![i].status = "done", ![i].result = Kernel(Len(kernels'))]
        <4> DEFINE f == [futures[i] EXCEPT !.status = "done", !.result = Kernel(Len(kernels'))]
        <4>1. futures' = [futures EXCEPT ![i] = f]
          BY <1>1, <3>1
        <4>2. f.entry = futures[i].entry /\ f.kernel = futures[i].kernel
          BY <1>1 DEF FutureRecord
        <4> QED
          BY <4>1, <4>2
      <3>2. CASE futures' = [futures EXCEPT ![i].status = "failed"]
        <4> DEFINE f == [futures[i] EXCEPT !.status = "failed"]
        <4>1. futures' = [futures EXCEPT ![i] = f]
          BY <1>1, <3>2
        <4>2. f.entry = futures[i].entry /\ f.kernel = futures[i].kernel
          BY <1>1 DEF FutureRecord
        <4> QED
          BY <4>1, <4>2
      <3> QED
        BY <3>1, <3>2 DEF TaskEnds
    <2> QED
      BY <1>1, <2>1
  <1>4. Settles(kernelCache, futures, kernelCache', futures') /\ Finalized(kernelCache', futures')
    BY <1>2, <1>3 DEF Settles, SlotOf, OneEntryInv, Finalized
  <1>5. LoadedRight'
    <2>1. futures[i].entry \in Entries
      BY <1>1 DEF FutureRecord
    <2> QED
      BY <1>1, <1>2, <2>1, AddLoaded, SameLoaded DEF TaskEnds
  <1>6. \A t \in Threads : SlotsFit(kernelCache', futures', mode'[t], thread'[t])
    BY <1>2, <1>4, SettledStep
  <1>7. OwnFutures'
    BY <1>2 DEF OneEntryInv, OwnFutures
  <1> QED
    BY <1>4, <1>5, <1>6, <1>7 DEF OneEntryInv

\* result returns: a launch goes on, and __exit__ passes to the next future.
LEMMA ResolvedSlots ==
    ASSUME NEW kc, NEW fs, NEW t \in Threads, NEW k,
           thread[t] \in ThreadRecord, thread \in [Threads -> ThreadRecord],
           SlotsFit(kc, fs, mode[t], thread[t]), Resolved(t, k),
           thread[t].pc \in {"result", "setKernel"},
           SlotOf(kc, fs, thread[t].future) # Future(thread[t].future)
             \/ fs[thread[t].future].status = "failed"
    PROVE  \E th : thread' = [thread EXCEPT ![t] = th] /\ SlotsFit(kc, fs, mode[t], th)
  <1> DEFINE label == IF Exiting(t) THEN "exiting" ELSE "launch"
             th == [thread[t] EXCEPT !.pc = label, !.future = 0, !.kernel = IF Exiting(t) THEN None ELSE k]
  <1>1. thread' = [thread EXCEPT ![t] = th]
    BY DEF Resolved
  <1>2. th.pc = label /\ th.entry = thread[t].entry /\ th.raw = thread[t].raw
    BY DEF ThreadRecord
  <1>3. \/ label = "exiting" /\ thread[t].entry = <<>>
        \/ label = "launch"
    BY DEF Exiting
  <1> HIDE DEF label, th
  <1>4. CASE label = "launch"
    BY <1>1, <1>2, <1>4, InCallSlots
  <1>5. CASE label = "exiting" /\ thread[t].entry = <<>>
    <2>1. SubmittedOnce(kc, fs, mode[t], th) /\ Stored(kc, fs, th)
      BY <1>2, <1>5 DEF SlotsFit, SubmittedOnce, Stored
    <2>2. Leaving(thread[t])
      BY <1>5 DEF Leaving, Finalizing
    <2>3. Outstanding(kc, fs, mode[t], th)
      BY <1>2, <2>2 DEF SlotsFit, Outstanding
    <2> QED
      BY <1>1, <2>1, <2>3 DEF SlotsFit
  <1> QED
    BY <1>3, <1>4, <1>5

\* Within result: the thread stays at its future.
LEMMA ResultSlots ==
    ASSUME OneEntryInv, IInv', NEW t \in Threads, ResultKnown(t) \/ ResultArrives(t) \/ ResultRaises(t)
    PROVE  OneEntryInv'
  <1> DEFINE i == thread[t].future
  <1>1. /\ thread \in [Threads -> ThreadRecord] /\ thread[t] \in ThreadRecord
        /\ ThreadFits(kernels, futures, thread[t]) /\ thread[t].pc = "result"
        /\ SlotsFit(kernelCache, futures, mode[t], thread[t])
    BY DEF OneEntryInv, IInv, Records, ResultKnown, ResultArrives, ResultRaises, At
  <1>2. i \in DOMAIN futures /\ thread[t].pc \in {"result", "setKernel"}
    BY <1>1 DEF ThreadFits
  <1>3. LoadedRight'
    BY SameLoaded DEF OneEntryInv, ResultKnown, ResultArrives, ResultRaises
  <1>4. CASE ResultKnown(t)
    <2>1. SlotOf(kernelCache, futures, i) # Future(i)
      BY <1>2, <1>4 DEF OneEntryInv, Finalized, ResultKnown
    <2>2. PICK th : thread' = [thread EXCEPT ![t] = th] /\ SlotsFit(kernelCache, futures, mode[t], th)
      BY <1>1, <1>2, <1>4, <2>1, ResolvedSlots DEF ResultKnown
    <2> QED
      BY <1>3, <1>4, <2>2, ReadingStep DEF ResultKnown
  <1>5. CASE ResultArrives(t)
    <2> DEFINE th == [thread[t] EXCEPT !.pc = "store"]
    <2>1. thread' = [thread EXCEPT ![t] = th]
      BY <1>1, <1>5 DEF ResultArrives, Go
    <2>2. th.pc = "store" /\ th.entry = thread[t].entry /\ th.raw = thread[t].raw /\ th.future = i
      BY <1>1 DEF ThreadRecord
    <2> HIDE DEF th
    <2>3. SlotsFit(kernelCache, futures, mode[t], th)
      BY <1>1, <2>2 DEF SlotsFit, SubmittedOnce, Stored, Outstanding, Leaving, Finalizing
    <2> QED
      BY <1>3, <1>5, <2>1, <2>3, ReadingStep DEF ResultArrives
  <1>6. CASE ResultRaises(t)
    <2>1. CASE Return(t)
      BY <1>3, <1>6, <2>1, ReturnSlots DEF ResultRaises
    <2>2. CASE Resolved(t, None)
      <3>1. futures[i].status = "failed"
        BY <1>6 DEF ResultRaises
      <3>2. PICK th : thread' = [thread EXCEPT ![t] = th] /\ SlotsFit(kernelCache, futures, mode[t], th)
        BY <1>1, <1>2, <2>2, <3>1, ResolvedSlots
      <3> QED
        BY <1>3, <1>6, <3>2, ReadingStep DEF ResultRaises
    <2> QED
      BY <1>6, <2>1, <2>2 DEF ResultRaises
  <1> QED
    BY <1>4, <1>5, <1>6

LEMMA FinalizeSlots ==
    ASSUME OneEntryInv, IInv', NEW t \in Threads, FinalizeStore(t) \/ FinalizeHook(t) \/ SetKernel(t)
    PROVE  OneEntryInv'
  <1> DEFINE i == thread[t].future
             f == futures[i]
  <1>1. /\ thread \in [Threads -> ThreadRecord] /\ thread[t] \in ThreadRecord
        /\ ThreadFits(kernels, futures, thread[t]) /\ thread[t].pc \in Finalizing
        /\ SlotsFit(kernelCache, futures, mode[t], thread[t])
    BY DEF OneEntryInv, IInv, Records, FinalizeStore, FinalizeHook, SetKernel, At, Finalizing
  <1>2. /\ i \in DOMAIN futures /\ f \in FutureRecord /\ f.result.kind = "kernel"
        /\ futures \in Seq(FutureRecord)
    BY <1>1, FuturesTyped DEF ThreadFits, OneEntryInv, IInv, Records
  <1>3. LoadedRight'
    BY SameLoaded DEF OneEntryInv, FinalizeStore, FinalizeHook, SetKernel
  <1>4. CASE FinalizeStore(t)
    <2> DEFINE th == [thread[t] EXCEPT !.pc = "finalHook"]
    <2>1. /\ kernelCache' = [kernelCache EXCEPT ![f.entry] = f.result]
          /\ thread' = [thread EXCEPT ![t] = th]
          /\ UNCHANGED <<kernels, futures, mode, launched>>
      BY <1>1, <1>4 DEF FinalizeStore, Go
    <2>2. f.entry \in Entries /\ f.result \in Slot
      BY <1>2 DEF FutureRecord
    <2>3. /\ Settles(kernelCache, futures, kernelCache', futures') /\ Finalized(kernelCache', futures')
          /\ SlotOf(kernelCache', futures', i) # Future(i)
      BY <1>2, <2>1, <2>2, StoreSettles
    <2>4. SlotsFit(kernelCache', futures', mode[t], thread[t])
      BY <2>3, SettledStep
    <2>5. th.pc = "finalHook" /\ th.entry = thread[t].entry /\ th.raw = thread[t].raw /\ th.future = i
      BY <1>1 DEF ThreadRecord
    <2> HIDE DEF th, f
    <2>6. SlotsFit(kernelCache', futures', mode[t], th)
      <3>1. SubmittedOnce(kernelCache', futures', mode[t], th) /\ Stored(kernelCache', futures', th)
        BY <2>3, <2>4, <2>5 DEF SlotsFit, SubmittedOnce, Stored
      <3>2. Outstanding(kernelCache', futures', mode[t], th)
        BY <1>1, <2>3, <2>4, <2>5 DEF SlotsFit, Outstanding, Leaving
      <3> QED
        BY <3>1, <3>2 DEF SlotsFit
    <2> QED
      BY <1>3, <2>1, <2>3, <2>6, ThreadStep
  <1>5. CASE FinalizeHook(t)
    <2> DEFINE th == [thread[t] EXCEPT !.pc = "setKernel"]
    <2>1. thread' = [thread EXCEPT ![t] = th] /\ thread[t].pc = "finalHook"
      BY <1>1, <1>5 DEF FinalizeHook, Go, At
    <2>2. th.pc = "setKernel" /\ th.entry = thread[t].entry /\ th.raw = thread[t].raw /\ th.future = i
      BY <1>1 DEF ThreadRecord
    <2> HIDE DEF th
    <2>3. SlotsFit(kernelCache, futures, mode[t], th)
      BY <1>1, <2>1, <2>2 DEF SlotsFit, SubmittedOnce, Stored, Outstanding, Leaving, Finalizing
    <2> QED
      BY <1>3, <1>5, <2>1, <2>3, ReadingStep DEF FinalizeHook
  <1>6. CASE SetKernel(t)
    <2> DEFINE new == [f EXCEPT !.kernel = f.result]
    <2>1. /\ futures' = [futures EXCEPT ![i] = new]
          /\ Resolved(t, f.result) /\ thread[t].pc \in {"result", "setKernel"}
          /\ UNCHANGED <<kernelCache, kernels, mode, launched>>
      BY <1>2, <1>6 DEF SetKernel, At
    <2>2. SlotOf(kernelCache, futures, i) # Future(i)
      BY <1>1, <1>6 DEF SlotsFit, Stored, SetKernel, At
    <2>3. new.entry = f.entry /\ new.status = f.status
      BY <1>2 DEF FutureRecord
    <2> HIDE DEF new, i
    <2>4. /\ DOMAIN futures' = DOMAIN futures
          /\ \A j \in DOMAIN futures : /\ futures'[j].entry = futures[j].entry
                                       /\ futures'[j].status = futures[j].status
                                       /\ j # i => futures'[j] = futures[j]
      BY <1>2, <2>1, <2>3
    <2>5. Settles(kernelCache, futures, kernelCache', futures')
      BY <2>1, <2>4 DEF Settles, SlotOf
    <2>6. Finalized(kernelCache', futures')
      BY <2>1, <2>2, <2>4 DEF OneEntryInv, Finalized, SlotOf
    <2>7. SlotsFit(kernelCache', futures', mode[t], thread[t])
      BY <2>5, SettledStep
    <2>8. SlotOf(kernelCache', futures', i) # Future(i)
      BY <1>2, <2>2, <2>5 DEF Settles
    <2>9. \E th : thread' = [thread EXCEPT ![t] = th] /\ SlotsFit(kernelCache', futures', mode[t], th)
      <3> DEFINE kc == kernelCache'
                 fs == futures'
      <3>1. SlotsFit(kc, fs, mode[t], thread[t]) /\ SlotOf(kc, fs, thread[t].future) # Future(thread[t].future)
        BY <2>7, <2>8 DEF i
      <3> HIDE DEF kc, fs, f
      <3>2. \E th : thread' = [thread EXCEPT ![t] = th] /\ SlotsFit(kc, fs, mode[t], th)
        BY <1>1, <2>1, <3>1, ResolvedSlots
      <3> QED
        BY <3>2 DEF kc, fs
    <2> QED
      BY <1>3, <2>1, <2>5, <2>6, <2>9, ThreadStep
  <1> QED
    BY <1>4, <1>5, <1>6

LEMMA ExitNextSlots ==
    ASSUME OneEntryInv, IInv', NEW t \in Threads, ExitNext(t)
    PROVE  OneEntryInv'
  <1>1. PICK i \in thread[t].raw :
           thread' = [thread EXCEPT ![t].pc = "result", ![t].future = i, ![t].raw = @ \ {i}]
    BY DEF ExitNext
  <1> DEFINE th == [thread[t] EXCEPT !.pc = "result", !.future = i, !.raw = @ \ {i}]
  <1>2. /\ thread[t] \in ThreadRecord /\ ThreadFits(kernels, futures, thread[t]) /\ thread[t].pc = "exiting"
        /\ SlotsFit(kernelCache, futures, mode[t], thread[t]) /\ thread \in [Threads -> ThreadRecord]
    BY DEF OneEntryInv, IInv, Records, ExitNext, At
  <1>3. thread' = [thread EXCEPT ![t] = th]
    BY <1>1, <1>2
  <1>4. th.pc = "result" /\ th.future = i /\ th.raw = thread[t].raw \ {i} /\ th.entry = thread[t].entry
    BY <1>2 DEF ThreadRecord
  <1> HIDE DEF th
  <1>5. Leaving(thread[t])
    BY <1>2 DEF Leaving, ThreadFits
  <1>6. SubmittedOnce(kernelCache, futures, mode[t], th) /\ Stored(kernelCache, futures, th)
    BY <1>2, <1>4 DEF SlotsFit, SubmittedOnce, Stored
  <1>7. Outstanding(kernelCache, futures, mode[t], th)
    BY <1>2, <1>4, <1>5 DEF SlotsFit, Outstanding
  <1>8. LoadedRight'
    BY SameLoaded DEF OneEntryInv, ExitNext
  <1> QED
    BY <1>3, <1>6, <1>7, <1>8, ReadingStep DEF ExitNext, SlotsFit

\* A mode is entered with no future, and left with all of its own to go through.
LEMMA ModeSlots ==
    ASSUME OneEntryInv, IInv', NEW t \in Threads, EnterMode(t) \/ ExitMode(t)
    PROVE  OneEntryInv'
  <1>1. /\ thread \in [Threads -> ThreadRecord] /\ thread[t] \in ThreadRecord /\ thread[t].pc = "idle"
        /\ mode \in [Threads -> ModeRecord] /\ mode[t] \in ModeRecord
        /\ SlotsFit(kernelCache, futures, mode[t], thread[t])
        /\ UNCHANGED <<kernelCache, kernels, futures, launched>>
    BY DEF OneEntryInv, IInv, Records, EnterMode, ExitMode, At
  <1>2. ASSUME NEW m, NEW th, mode' = [mode EXCEPT ![t] = m], thread' = [thread EXCEPT ![t] = th],
               Range(m.futures) \subseteq Range(mode[t].futures),
               SlotsFit(kernelCache, futures, m, th)
        PROVE  OneEntryInv'
    <2>1. OwnFutures'
      <3>1. \A u \in Threads : Range(mode'[u].futures) \subseteq Range(mode[u].futures)
        BY <1>1, <1>2
      <3> QED
        BY <3>1 DEF OneEntryInv, OwnFutures
    <2>2. \A u \in Threads : SlotsFit(kernelCache', futures', mode'[u], thread'[u])
      BY <1>1, <1>2 DEF OneEntryInv
    <2>3. LoadedRight' /\ Finalized(kernelCache', futures')
      BY <1>1, SameLoaded DEF OneEntryInv
    <2> QED
      BY <2>1, <2>2, <2>3 DEF OneEntryInv
  <1>3. CASE EnterMode(t)
    <2>1. PICK ignore \in IgnoreErrors :
             mode' = [mode EXCEPT ![t] = [active |-> TRUE, ignoreErrors |-> ignore, futures |-> <<>>]]
      BY <1>3 DEF EnterMode
    <2> DEFINE m == [active |-> TRUE, ignoreErrors |-> ignore, futures |-> <<>>]
               th == [thread[t] EXCEPT !.calls = @ + 1]
    <2>2. thread' = [thread EXCEPT ![t] = th] /\ th.pc = "idle"
      BY <1>1, <1>3 DEF EnterMode, ThreadRecord
    <2>3. Range(m.futures) = {}
      BY DEF Range
    <2>4. mode' = [mode EXCEPT ![t] = m]
      BY <2>1
    <2> HIDE DEF m, th
    <2>5. SlotsFit(kernelCache, futures, m, th)
      BY <2>2, <2>3 DEF SlotsFit, SubmittedOnce, Stored, Outstanding, Leaving, Finalizing
    <2> QED
      BY <1>2, <2>2, <2>3, <2>4, <2>5
  <1>4. CASE ExitMode(t)
    <2> DEFINE m == [mode[t] EXCEPT !.active = FALSE]
               th == [thread[t] EXCEPT !.pc = "exiting", !.raw = Range(mode[t].futures)]
    <2>1. mode' = [mode EXCEPT ![t] = m] /\ thread' = [thread EXCEPT ![t] = th]
      BY <1>1, <1>4 DEF ExitMode
    <2>2. m.futures = mode[t].futures /\ th.pc = "exiting" /\ th.raw = Range(mode[t].futures)
      BY <1>1 DEF ModeRecord, ThreadRecord
    <2> HIDE DEF m, th
    <2>3. SubmittedOnce(kernelCache, futures, m, th) /\ Stored(kernelCache, futures, th)
      BY <1>1, <2>2 DEF SlotsFit, SubmittedOnce, Stored
    <2>4. Outstanding(kernelCache, futures, m, th)
      BY <2>2 DEF Outstanding
    <2> QED
      BY <1>2, <2>1, <2>2, <2>3, <2>4 DEF SlotsFit
  <1> QED
    BY <1>3, <1>4

LEMMA NextOneEntry == DistinctTargets /\ OneEntryInv /\ [Next]_vars => OneEntryInv'
  <1> SUFFICES ASSUME DistinctTargets, OneEntryInv, [Next]_vars PROVE OneEntryInv'
    OBVIOUS
  <1>inv. IInv'
    BY NextIInv DEF OneEntryInv
  <1>1. CASE UNCHANGED vars
    <2>1. LoadedRight'
      BY <1>1, SameLoaded DEF vars, OneEntryInv
    <2> QED
      BY <1>1, <1>inv, <2>1 DEF vars, OneEntryInv, OwnFutures
  <1>2. ASSUME NEW t \in Threads, Warmup(t) \/ ExitDone(t) PROVE OneEntryInv'
    <2>1. LoadedRight'
      BY <1>2, SameLoaded DEF Warmup, ExitDone, OneEntryInv
    <2> QED
      BY <1>2, <1>inv, <2>1, ReturnSlots DEF Warmup, ExitDone
  <1>3. ASSUME NEW t \in Threads, LaunchKernel(t) PROVE OneEntryInv'
    <2>1. LoadedRight'
      BY <1>3, LaunchLoaded DEF OneEntryInv
    <2> QED
      BY <1>3, <1>inv, <2>1, ReturnSlots DEF LaunchKernel
  <1>4. ASSUME NEW t \in Threads, Continue(t) PROVE OneEntryInv'
    BY <1>2, <1>3, <1>4, <1>inv, CompileNowSlots, MovingSlots, SubmitSlots,
       ResultSlots, FinalizeSlots, ExitNextSlots DEF Continue
  <1> QED
    BY <1>1, <1>4, <1>inv, CallSlots, ModeSlots, TaskEndsSlots DEF Next

-----------------------------------------------------------------------------
\* Every kernel launched was compiled for the target and the specialization of
\* the call it serves, and every slot, future and register agrees with its key,
\* whatever targets the devices have.
THEOREM Invariance == Spec => []IInv
  BY InitIInv, NextIInv, PTL DEF Spec

LEMMA TypesFollow == IInv /\ LoadedRight => TypeOK
  <1> SUFFICES ASSUME IInv, LoadedRight PROVE TypeOK
    OBVIOUS
  <1>1. ASSUME NEW s \in Slot, NEW e, Fits(kernels, futures, s, e) PROVE s \in CacheSlots
    BY <1>1 DEF Slot, Fits, CacheSlots, Kernel, Future
  <1>2. kernelCache \in [Entries -> CacheSlots]
    BY <1>1 DEF IInv, Records
  <1>3. ASSUME NEW i \in DOMAIN kernels
        PROVE  kernels[i].entry \in Entries /\ kernels[i].device \in Devices \cup {"none"}
    <2>1. kernels[i] \in KernelRecord
      BY ElementOfSeq DEF IInv, Records
    <2> QED
      BY <2>1 DEF KernelRecord
  <1>4. ASSUME NEW i \in DOMAIN futures
        PROVE  /\ futures[i].status \in {"running", "done", "failed"} /\ futures[i].entry \in Entries
               /\ {futures[i].result, futures[i].kernel} \subseteq CacheSlots
    <2>1. futures[i] \in FutureRecord /\ FutureFits(kernels, futures, futures[i])
      BY FuturesTyped DEF IInv
    <2>2. None \in CacheSlots
      BY DEF CacheSlots
    <2>3. futures[i].result \in CacheSlots
      BY <1>1, <2>1, <2>2 DEF FutureRecord, FutureFits
    <2> QED
      BY <2>1, <2>2, <2>3 DEF FutureRecord, FutureFits
  <1>5. ASSUME NEW t \in Threads
        PROVE  /\ mode[t].active \in BOOLEAN /\ Range(mode[t].futures) \subseteq DOMAIN futures
               /\ thread[t].pc \in {"store", "finalHook", "setKernel"} =>
                     futures[thread[t].future].result.kind = "kernel"
    <2>1. mode[t] \in ModeRecord /\ ModeFits(futures, mode[t]) /\ ThreadFits(kernels, futures, thread[t])
      BY DEF IInv, Records
    <2> QED
      BY <2>1 DEF ModeRecord, ModeFits, Range, ThreadFits, Finalizing
  <1> QED
    BY <1>2, <1>3, <1>4, <1>5 DEF TypeOK

\* With a target for each device, a kernel runs where run was called: compiled
\* for that target and that specialization and loaded on that device, through
\* every interleaving of threads, modes and tasks.
THEOREM LaunchesAlwaysFit ==
    ASSUME DistinctTargets
    PROVE  Spec => []LaunchesFit
  <1>1. OneEntryInv => LaunchesFit
    <2> SUFFICES ASSUME OneEntryInv PROVE LaunchesFit
      OBVIOUS
    <2>1. TypeOK
      BY TypesFollow DEF OneEntryInv
    <2>2. KernelFits
      BY DEF OneEntryInv, IInv, LaunchesKeyed, LoadedRight, KernelFits
    <2> QED
      BY <2>1, <2>2 DEF LaunchesFit
  <1>2. OneEntryInv /\ [Next]_vars => OneEntryInv'
    BY NextOneEntry
  <1> QED
    BY <1>1, <1>2, InitOneEntry, PTL DEF Spec

\* With a target for each device, no slot holds the placeholder of a compilation
\* that succeeded when its mode has been left, whatever other threads and modes
\* do meanwhile.
THEOREM ModesFinalize ==
    ASSUME DistinctTargets
    PROVE  Spec => FinalizedAtExit
  <1> DEFINE Promise == \A t \in Threads : ExitDone(t) =>
                          \A e \in Entries, i \in Range(mode[t].futures) :
                              kernelCache[e] = Future(i) => futures[i].status = "failed"
  <1>1. OneEntryInv => Promise
    <2> SUFFICES ASSUME OneEntryInv, NEW t \in Threads, ExitDone(t),
                        NEW e \in Entries, NEW i \in Range(mode[t].futures), kernelCache[e] = Future(i)
                 PROVE  futures[i].status = "failed"
      OBVIOUS
    <2>1. /\ thread[t].pc = "exiting" /\ thread[t].raw = {} /\ ThreadFits(kernels, futures, thread[t])
          /\ SlotsFit(kernelCache, futures, mode[t], thread[t])
          /\ Fits(kernels, futures, kernelCache[e], e)
      BY DEF OneEntryInv, IInv, ExitDone, At
    <2>2. i \in DOMAIN futures /\ CacheKey(futures[i].entry) = CacheKey(e)
      BY <2>1 DEF Fits, Future, None
    <2>3. futures[i].entry = e
      BY <2>2, FuturesTyped, OneEntry DEF OneEntryInv, FutureRecord
    <2>4. Leaving(thread[t])
      BY <2>1 DEF Leaving, ThreadFits
    <2> QED
      BY <2>1, <2>3, <2>4 DEF SlotsFit, Outstanding, SlotOf
  <1>2. OneEntryInv /\ [Next]_vars => OneEntryInv'
    BY NextOneEntry
  <1> QED
    BY <1>1, <1>2, InitOneEntry, PTL DEF Spec, FinalizedAtExit
=============================================================================
