---------------------------- MODULE AsyncCompile ----------------------------
(***************************************************************************)
(* Just-in-time compilation of kernels by Python threads: the kernel cache *)
(* of a JITFunction (runtime/jit.py), AsyncCompileMode and FutureKernel    *)
(* (runtime/_async_compile.py), and the loading of a compiled kernel on a  *)
(* device (compiler/compiler.py).                                          *)
(*                                                                         *)
(* An entry is a slot of device_caches: a device and a specialization.     *)
(* Each thread issues calls one after the other and may hold one mode, a   *)
(* ContextVar.  Threads interleave between the statements that touch what  *)
(* they share; the executor's tasks finish in any order, some by raising.  *)
(* "Slip" marks a plausible bug the specification does not use.            *)
(***************************************************************************)
EXTENDS Naturals, Sequences, SequencesExt

CONSTANTS
    Threads,
    ModeThreads,   \* the threads that use an AsyncCompileMode
    Devices,
    Specs,         \* specializations of the kernel
    TargetOf,      \* target of a device; get_cache_key hashes it with the specialization
    IgnoreErrors,  \* what ignore_errors of a mode may be
    MayFail,       \* whether a compilation may raise
    MaxCalls       \* bound: calls of run and modes entered, of each thread

ASSUME ConstantsAssumption ==
    /\ ModeThreads \subseteq Threads
    /\ DOMAIN TargetOf = Devices
    /\ IgnoreErrors \subseteq BOOLEAN /\ MayFail \in BOOLEAN
    /\ MaxCalls \in [Threads -> Nat]

Entries == Devices \X Specs
Device(e) == e[1]

VARIABLES
    kernelCache,  \* kernel_cache of each device: a kernel, a FutureKernel or None
    kernels,      \* CompiledKernels: the entry each was compiled for, the device it is loaded on
    futures,      \* FutureKernels: the state of the future, kernel, the entry to finalize
    mode,         \* active mode of each thread, its ignore_errors and its future_kernels
    thread,       \* pc and registers of each thread
    launched      \* launches so far: the entry asked for and the kernel run

vars == <<kernelCache, kernels, futures, mode, thread, launched>>

None == [kind |-> "none", id |-> 0]
Kernel(i) == [kind |-> "kernel", id |-> i]
Future(i) == [kind |-> "future", id |-> i]

Inactive == [active |-> FALSE, ignoreErrors |-> FALSE, futures |-> <<>>]

\* kernel is what run found in the cache, future the one result() is called on,
\* raw the raw_futures __exit__ has still to go through.
Idle(calls) == [pc |-> "idle", calls |-> calls, entry |-> <<>>, warmup |-> FALSE,
                kernel |-> None, future |-> 0, raw |-> {}]

Init ==
    /\ kernelCache = [e \in Entries |-> None]
    /\ kernels = <<>> /\ futures = <<>>
    /\ mode = [t \in Threads |-> Inactive]
    /\ thread = [t \in Threads |-> Idle(0)]
    /\ launched = {}

CacheKey(e) == <<TargetOf[Device(e)], e[2]>>

At(t, label) == thread[t].pc = label
Go(t, label) == thread' = [thread EXCEPT ![t].pc = label]

\* The call is over, by a return or by an exception the caller catches.
Return(t) == thread' = [thread EXCEPT ![t] = Idle(thread[t].calls)]

Compiled(e) == [entry |-> e, device |-> "none"]

-----------------------------------------------------------------------------
(* JITFunction.run and _do_compile                                         *)

\* run, up to the lookup in the kernel cache of the current device.
Call(t, e, warmup) ==
    /\ At(t, "idle") /\ thread[t].calls < MaxCalls[t]
    /\ thread' = [thread EXCEPT
                    ![t].calls = @ + 1, ![t].entry = e, ![t].warmup = warmup,
                    ![t].kernel = kernelCache[e],
                    ![t].pc = IF kernelCache[e] = None THEN "compile" ELSE "launch"]
    /\ UNCHANGED <<kernelCache, kernels, futures, mode, launched>>

\* Without a mode: compile, store the kernel, call the hook, which is outside
\* of the model: other threads run meanwhile.
CompileNow(t) ==
    LET e == thread[t].entry IN
    /\ At(t, "compile") /\ ~mode[t].active
    /\ \/ /\ kernels' = Append(kernels, Compiled(e))
          /\ kernelCache' = [kernelCache EXCEPT ![e] = Kernel(Len(kernels'))]
          /\ thread' = [thread EXCEPT ![t].pc = "hook", ![t].kernel = Kernel(Len(kernels'))]
       \/ MayFail /\ Return(t) /\ UNCHANGED <<kernels, kernelCache>>
    /\ UNCHANGED <<futures, mode, launched>>

PostCompileHook(t) ==
    /\ At(t, "hook")
    /\ Go(t, "launch")
    /\ UNCHANGED <<kernelCache, kernels, futures, mode, launched>>

\* submit under key k: future f, which exists when the key is known.
SubmitAs(t, k, known, f) ==
    LET e == thread[t].entry IN
    /\ At(t, "compile") /\ mode[t].active
    /\ futures' = IF known THEN futures
                  ELSE Append(futures, [status |-> "running", entry |-> e,
                                        result |-> None, kernel |-> None])
    /\ mode' = [mode EXCEPT ![t].futures = [x \in DOMAIN @ \cup {k} |-> IF x = k THEN f ELSE @[x]]]
    /\ kernelCache' = [kernelCache EXCEPT ![e] = Future(f)]
    /\ thread' = [thread EXCEPT ![t].pc = "launch", ![t].kernel = Future(f)]
    /\ UNCHANGED <<kernels, launched>>

Known(t, k) == k \in DOMAIN mode[t].futures
Submitted(t, k) == IF Known(t, k) THEN mode[t].futures[k] ELSE Len(futures) + 1

\* Slip: the key leaves the target out.
TargetlessSubmit(t) ==
    LET k == thread[t].entry[2] IN SubmitAs(t, k, Known(t, k), Submitted(t, k))

\* With a mode: submit, and store the FutureKernel.
Submit(t) ==
    LET k == CacheKey(thread[t].entry) IN SubmitAs(t, k, Known(t, k), Submitted(t, k))

\* The executor finishes a task.
TaskEnds(i) ==
    /\ i \in DOMAIN futures /\ futures[i].status = "running"
    /\ \/ /\ kernels' = Append(kernels, Compiled(futures[i].entry))
          /\ futures' = [futures EXCEPT ![i].status = "done", ![i].result = Kernel(Len(kernels'))]
       \/ MayFail /\ futures' = [futures EXCEPT ![i].status = "failed"] /\ UNCHANGED kernels
    /\ UNCHANGED <<kernelCache, mode, thread, launched>>

Warmup(t) ==
    /\ At(t, "launch") /\ thread[t].warmup
    /\ Return(t)
    /\ UNCHANGED <<kernelCache, kernels, futures, mode, launched>>

\* CompiledKernel.run: _init_handles loads it on the current device, once.
LaunchKernel(t) ==
    LET k == thread[t].kernel
        e == thread[t].entry IN
    /\ At(t, "launch") /\ ~thread[t].warmup /\ k.kind = "kernel"
    /\ kernels' = [kernels EXCEPT ![k.id].device = IF @ = "none" THEN Device(e) ELSE @]
    /\ launched' = launched \cup {[entry |-> e, kernel |-> k.id]}
    /\ Return(t)
    /\ UNCHANGED <<kernelCache, futures, mode>>

\* A launch through a FutureKernel: __getattr__ calls result.
LaunchFuture(t) ==
    /\ At(t, "launch") /\ ~thread[t].warmup /\ thread[t].kernel.kind = "future"
    /\ thread' = [thread EXCEPT ![t].pc = "result", ![t].future = thread[t].kernel.id]
    /\ UNCHANGED <<kernelCache, kernels, futures, mode, launched>>

-----------------------------------------------------------------------------
(* FutureKernel.result, called by a launch or, with raw not over, by       *)
(* __exit__: wait for the future, finalize_compile, then set kernel.       *)

Exiting(t) == thread[t].entry = <<>>

\* result returns kernel k.
Resolved(t, k) ==
    thread' = [thread EXCEPT ![t].pc = IF Exiting(t) THEN "exiting" ELSE "launch", ![t].future = 0,
                             ![t].kernel = IF Exiting(t) THEN None ELSE k]

ResultKnown(t) ==
    /\ At(t, "result") /\ futures[thread[t].future].kernel # None
    /\ Resolved(t, futures[thread[t].future].kernel)
    /\ UNCHANGED <<kernelCache, kernels, futures, mode, launched>>

ResultArrives(t) ==
    /\ At(t, "result")
    /\ futures[thread[t].future].kernel = None /\ futures[thread[t].future].status = "done"
    /\ Go(t, "store")
    /\ UNCHANGED <<kernelCache, kernels, futures, mode, launched>>

\* The future raised: only __exit__ may be told to ignore it.
ResultRaises(t) ==
    /\ At(t, "result") /\ futures[thread[t].future].status = "failed"
    /\ IF Exiting(t) /\ mode[t].ignoreErrors THEN Resolved(t, None) ELSE Return(t)
    /\ UNCHANGED <<kernelCache, kernels, futures, mode, launched>>

FinalizeStore(t) ==
    LET f == futures[thread[t].future] IN
    /\ At(t, "store")
    /\ kernelCache' = [kernelCache EXCEPT ![f.entry] = f.result]
    /\ Go(t, "finalHook")
    /\ UNCHANGED <<kernels, futures, mode, launched>>

FinalizeHook(t) ==
    /\ At(t, "finalHook")
    /\ Go(t, "setKernel")
    /\ UNCHANGED <<kernelCache, kernels, futures, mode, launched>>

SetKernel(t) ==
    LET i == thread[t].future IN
    /\ At(t, "setKernel")
    /\ futures' = [futures EXCEPT ![i].kernel = futures[i].result]
    /\ Resolved(t, futures[i].result)
    /\ UNCHANGED <<kernelCache, kernels, mode, launched>>

-----------------------------------------------------------------------------
(* AsyncCompileMode as a context manager                                   *)

EnterMode(t) ==
    /\ t \in ModeThreads /\ At(t, "idle") /\ ~mode[t].active /\ thread[t].calls < MaxCalls[t]
    /\ \E ignore \in IgnoreErrors :
          mode' = [mode EXCEPT ![t] = [active |-> TRUE, ignoreErrors |-> ignore, futures |-> <<>>]]
    /\ thread' = [thread EXCEPT ![t].calls = @ + 1]
    /\ UNCHANGED <<kernelCache, kernels, futures, launched>>

ExitMode(t) ==
    /\ At(t, "idle") /\ mode[t].active
    /\ mode' = [mode EXCEPT ![t].active = FALSE]
    /\ thread' = [thread EXCEPT ![t].pc = "exiting", ![t].raw = Range(mode[t].futures)]
    /\ UNCHANGED <<kernelCache, kernels, futures, launched>>

\* Slip: only futures that succeeded are seen as completed.
SuccessfulExitNext(t) ==
    /\ At(t, "exiting")
    /\ \E i \in thread[t].raw :
          /\ futures[i].status = "done"
          /\ thread' = [thread EXCEPT ![t].pc = "result", ![t].future = i, ![t].raw = @ \ {i}]
    /\ UNCHANGED <<kernelCache, kernels, futures, mode, launched>>

\* Slip: a future that has not completed yet is passed over.
ImpatientExitNext(t) ==
    /\ At(t, "exiting")
    /\ \E i \in thread[t].raw :
          thread' = [thread EXCEPT ![t].pc = IF futures[i].status = "running" THEN @ ELSE "result",
                                   ![t].future = i, ![t].raw = @ \ {i}]
    /\ UNCHANGED <<kernelCache, kernels, futures, mode, launched>>

\* The next future of as_completed.
ExitNext(t) ==
    /\ At(t, "exiting")
    /\ \E i \in thread[t].raw :
          /\ futures[i].status # "running"
          /\ thread' = [thread EXCEPT ![t].pc = "result", ![t].future = i, ![t].raw = @ \ {i}]
    /\ UNCHANGED <<kernelCache, kernels, futures, mode, launched>>

ExitDone(t) ==
    /\ At(t, "exiting") /\ thread[t].raw = {}
    /\ Return(t)
    /\ UNCHANGED <<kernelCache, kernels, futures, mode, launched>>

-----------------------------------------------------------------------------
\* The steps of a call once it has begun.
Continue(t) ==
    \/ CompileNow(t) \/ PostCompileHook(t) \/ Submit(t) \/ Warmup(t)
    \/ LaunchKernel(t) \/ LaunchFuture(t)
    \/ ResultKnown(t) \/ ResultArrives(t) \/ ResultRaises(t)
    \/ FinalizeStore(t) \/ FinalizeHook(t) \/ SetKernel(t)
    \/ ExitNext(t) \/ ExitDone(t)

Next == \/ \E t \in Threads : \/ Continue(t) \/ EnterMode(t) \/ ExitMode(t)
                              \/ \E e \in Entries, warmup \in BOOLEAN : Call(t, e, warmup)
        \/ \E i \in DOMAIN futures : TaskEnds(i)

Spec == Init /\ [][Next]_vars

\* Python runs every thread, and an executor every task.
FairSpec == /\ Spec
            /\ \A t \in Threads : WF_vars(Continue(t))
            /\ \A i \in 1 .. SumFunction(MaxCalls) : WF_vars(TaskEnds(i))

-----------------------------------------------------------------------------
CacheSlots == {None} \cup {Kernel(i) : i \in DOMAIN kernels} \cup {Future(i) : i \in DOMAIN futures}

TypeOK ==
    /\ kernelCache \in [Entries -> CacheSlots]
    /\ \A i \in DOMAIN kernels : /\ kernels[i].entry \in Entries
                                 /\ kernels[i].device \in Devices \cup {"none"}
    /\ \A i \in DOMAIN futures : /\ futures[i].status \in {"running", "done", "failed"}
                                 /\ futures[i].entry \in Entries
                                 /\ {futures[i].result, futures[i].kernel} \subseteq CacheSlots
    /\ \A t \in Threads : mode[t].active \in BOOLEAN /\ Range(mode[t].futures) \subseteq DOMAIN futures
    /\ \A t \in Threads : thread[t].pc \in {"store", "finalHook", "setKernel"} =>
                             futures[thread[t].future].result.kind = "kernel"

\* A kernel runs where run was called: compiled for that target and that
\* specialization, and loaded on that device.
KernelFits ==
    \A l \in launched :
        LET k == kernels[l.kernel] IN
        CacheKey(k.entry) = CacheKey(l.entry) /\ k.device = Device(l.entry)

\* "Finalize any outstanding compiles" (AsyncCompileMode.__exit__): once the
\* mode is left with no error raised, no kernel cache holds the placeholder of
\* a compilation of that mode that succeeded.
FinalizedAtExit ==
    [][\A t \in Threads : ExitDone(t) =>
         \A e \in Entries, i \in Range(mode[t].futures) :
             kernelCache[e] = Future(i) => futures[i].status = "failed"]_vars

\* Leaving a mode ends, whatever its compilations do.
ExitReturns == \A t \in Threads : At(t, "exiting") ~> At(t, "idle")

\* What is launched fits, and every slot of a cache is a kernel or a future.
LaunchesFit == TypeOK /\ KernelFits
=============================================================================
