---------------------------- MODULE ProtonSession ----------------------------
(***************************************************************************)
(* Proton's SessionManager (third_party/proton/csrc): sessions that share  *)
(* profilers, each with a ShadowContextSource that keeps one stack of      *)
(* scopes per thread, and the Python frontend's scope and start/finalize   *)
(* calls that drive it.                                                    *)
(*                                                                         *)
(* Every public operation of SessionManager holds its mutex from beginning *)
(* to end, so each is one action; the calls of the frontend hold the GIL   *)
(* across the two operations of "start".  A session's context source and   *)
(* its data are its own: they enter and leave the list of scope interfaces *)
(* together, the source first, so the list is kept as a sequence of        *)
(* sessions.  A profiler is shared and its entry in the list of op         *)
(* interfaces is the count opCount.                                        *)
(***************************************************************************)
EXTENDS Naturals, FiniteSets, Sequences, SequencesExt

CONSTANTS
    Threads,        \* threads of the program that call Proton
    Starters,       \* the threads that start and finalize sessions
    Paths,          \* names of profiles
    Profilers,      \* profiler singletons (CUPTI, roctracer, ...)
    Modes,          \* modes a profiler may be given
    Addrs,          \* addresses the allocator may give a context source
    Names,          \* names of scopes
    MaxSessions,    \* bound: sessions started in a behaviour
    MaxDepth,       \* bound: scopes a thread has open at once
    ToggleInScope,  \* whether sessions are toggled while a scope or an op is open
    StartMayFail,   \* whether a profiler's doStart may throw
    NoSession, NoMode

SessionRecord == [path : Paths, profiler : Profilers, source : Addrs]

ASSUME StartersAssumption == Starters \subseteq Threads /\ Starters # {}
ASSUME BoundsAssumption == MaxSessions \in Nat /\ MaxDepth \in Nat
ASSUME NoSessionAssumption == NoSession \notin SessionRecord

VARIABLES
    session,        \* sessions: id -> path, profiler, context source
    nextSessionId,
    active,         \* ids whose sessionActive entry is true
    promised,       \* ids that start or activate has returned normally for
    scopeOrder,     \* scopeInterfaceCounts, in order of registration
    opCount,        \* opInterfaceCounts
    started,        \* Profiler::started
    dataSet,        \* Profiler::dataSet: the sessions whose data it feeds
    mode,           \* Profiler::modeAndOptions
    stack,          \* threadContextStack: thread -> source -> scopes
    seen,           \* threadContextInitialized: thread -> set of sources
    mainThread,     \* whose stack mainContextStack points to
    nodes,          \* scopeIdToContextId: session -> open scopes and their contexts
    op,             \* opInProgress and dataToEntry: thread -> profiler
    profilingOn,    \* flags.profiling_on of the frontend
    nest,           \* the "with proton.scope" blocks each thread is in
    launching,      \* the threads between enter_op and exit_op
    unbalanced      \* a call of exitScope has thrown

managerVars == <<session, nextSessionId, active, promised, scopeOrder, opCount>>
profilerVars == <<started, dataSet, mode>>
sourceVars == <<stack, seen, mainThread>>
clientVars == <<profilingOn, nest, launching>>
vars == <<managerVars, profilerVars, sourceVars, nodes, op, clientVars, unbalanced>>

Ids == 0 .. (MaxSessions - 1)
Live == {i \in Ids : session[i] # NoSession}
SessionAt(path) == {i \in Live : session[i].path = path}
FreeAddrs == Addrs \ {session[i].source : i \in Live}

(* The members of a set of numbers in ascending order, and what a sequence *)
(* has at some of its places.                                              *)
Ascending(S) ==
    CHOOSE q \in [1 .. Cardinality(S) -> S] : \A m, n \in 1 .. Cardinality(S) : m < n => q[m] < q[n]
Selection(seq, places) ==
    LET kept == Ascending(places) IN [k \in 1 .. Cardinality(places) |-> seq[kept[k]]]

(* The scopes of the blocks that were entered with profiling on.            *)
Announced(blocks) ==
    LET sent == Selection(blocks, {k \in DOMAIN blocks : blocks[k].sent})
    IN  [k \in DOMAIN sent |-> sent[k].name]

NoOp == [busy |-> FALSE, data |-> {}]

Init ==
    /\ session = [i \in Ids |-> NoSession]
    /\ nextSessionId = 0
    /\ active = {}
    /\ promised = {}
    /\ scopeOrder = <<>>
    /\ opCount = [p \in Profilers |-> 0]
    /\ started = [p \in Profilers |-> FALSE]
    /\ dataSet = [p \in Profilers |-> {}]
    /\ mode = [p \in Profilers |-> NoMode]
    /\ stack = [t \in Threads |-> [a \in Addrs |-> <<>>]]
    /\ seen = [t \in Threads |-> {}]
    /\ mainThread = [a \in Addrs |-> CHOOSE t \in Starters : TRUE]
    /\ nodes = [i \in Ids |-> {}]
    /\ op = [t \in Threads |-> [p \in Profilers |-> NoOp]]
    /\ profilingOn = FALSE
    /\ nest = [t \in Threads |-> <<>>]
    /\ launching = {}
    /\ unbalanced = FALSE

(* Whether thread t may call one of the session operations.                *)
MayToggle(t) ==
    /\ t \notin launching
    /\ ToggleInScope \/ (launching = {} /\ \A u \in Threads : nest[u] = <<>>)

-----------------------------------------------------------------------------
(* The sessions of "good" are activated in order of their ids; then the    *)
(* profiler of the session in "bad", if any, throws in doStart: by then    *)
(* the session is marked active and its profiler started, and nothing of   *)
(* it is registered.                                                       *)
Activations(good, bad) ==
    LET Of(S, p) == {i \in S : session'[i].profiler = p}
    IN  /\ active' = active \cup good \cup bad
        /\ started' = [p \in Profilers |-> started[p] \/ Of(good \cup bad, p) # {}]
        /\ dataSet' = [p \in Profilers |-> dataSet[p] \cup Of(good, p)]
        /\ scopeOrder' = scopeOrder \o Ascending(good)
        /\ opCount' = [p \in Profilers |-> opCount[p] + Cardinality(Of(good, p))]

(* doStart runs only for a profiler that is not started.                   *)
StartFails(i, earlier) ==
    /\ StartMayFail
    /\ ~started[session'[i].profiler]
    /\ \A j \in earlier : session'[j].profiler # session'[i].profiler

ActivateInactive(S) ==
    LET idle == S \ active
        Before(k) == {i \in idle : i < k}
    IN  \/ Activations(idle, {}) /\ promised' = promised \cup S
        \/ \E k \in idle : /\ StartFails(k, Before(k))
                           /\ Activations(Before(k), {k})
                           /\ UNCHANGED promised

Without(order, gone) == Selection(order, {k \in DOMAIN order : order[k] \notin gone})

\* Slip: the first session to leave takes the shared profiler off the list.
UncountedDeactivations(S) ==
    LET gone == S \cap active
    IN  /\ active' = active \ gone
        /\ promised' = promised \ gone
        /\ dataSet' = [p \in Profilers |-> dataSet[p] \ gone]
        /\ scopeOrder' = Without(scopeOrder, gone)
        /\ opCount' = [p \in Profilers |->
                          IF \E i \in gone : session[i].profiler = p THEN 0 ELSE opCount[p]]

(* The active sessions of S are deactivated.  Unregistering an interface   *)
(* that is not in the list does nothing, but a shared profiler's count is  *)
(* decremented whether or not this session had been counted.               *)
Deactivations(S) ==
    LET gone == S \cap active
        Left(p) == Cardinality({i \in gone : session[i].profiler = p})
    IN  /\ active' = active \ gone
        /\ promised' = promised \ gone
        /\ dataSet' = [p \in Profilers |-> dataSet[p] \ gone]
        /\ scopeOrder' = Without(scopeOrder, gone)
        /\ opCount' = [p \in Profilers |->
                          IF Left(p) > opCount[p] THEN 0 ELSE opCount[p] - Left(p)]

(* removeSession: the calling thread's stack of the source is cleared, the *)
(* stacks other threads hold of it are not.                                *)
Removed(t, S) ==
    LET sources == {session[i].source : i \in S}
    IN  /\ session' = [i \in Ids |-> IF i \in S THEN NoSession ELSE session[i]]
        /\ stack' = [stack EXCEPT ![t] =
                        [a \in Addrs |-> IF a \in sources THEN <<>> ELSE @[a]]]
        /\ seen' = [seen EXCEPT ![t] = @ \ sources]
        /\ nodes' = [i \in Ids |-> IF i \in S THEN {} ELSE nodes[i]]
        /\ UNCHANGED mainThread

(* Profiler::stop of a profiler with no data left.                         *)
Stopped(S) ==
    started' = [p \in Profilers |->
        started[p] /\ ~(dataSet'[p] = {} /\ \E i \in S : session[i].profiler = p)]
-----------------------------------------------------------------------------
(* start of a path that has a session: the session is activated.           *)
Restart(t, path) ==
    /\ MayToggle(t)
    /\ SessionAt(path) # {}
    /\ UNCHANGED session
    /\ ActivateInactive(SessionAt(path))
    /\ profilingOn' = TRUE
    /\ UNCHANGED <<nextSessionId, mode, sourceVars, nodes, op, nest, launching, unbalanced>>

(* Sessions, active or not, that hold a profiler to another mode.          *)
ModeConflict(p, m) == \E i \in Live : session[i].profiler = p /\ mode[p] # m

(* addSession has taken an id when makeSession throws.                     *)
RefuseStart(t, path, p, m) ==
    /\ MayToggle(t)
    /\ SessionAt(path) = {}
    /\ nextSessionId < MaxSessions
    /\ ModeConflict(p, m)
    /\ nextSessionId' = nextSessionId + 1
    /\ profilingOn' = TRUE
    /\ UNCHANGED <<session, active, promised, scopeOrder, opCount, profilerVars, sourceVars,
                   nodes, op, nest, launching, unbalanced>>

(* The source's constructor makes the calling thread its main thread; a    *)
(* stack the thread already holds at that address stays as it is.          *)
Start(t, path, p, m, a) ==
    /\ MayToggle(t)
    /\ SessionAt(path) = {}
    /\ nextSessionId < MaxSessions
    /\ ~ModeConflict(p, m)
    /\ a \in FreeAddrs
    /\ nextSessionId' = nextSessionId + 1
    /\ session' = [session EXCEPT ![nextSessionId] =
                      [path |-> path, profiler |-> p, source |-> a]]
    /\ mode' = [mode EXCEPT ![p] = m]
    /\ mainThread' = [mainThread EXCEPT ![a] = t]
    /\ seen' = [seen EXCEPT ![t] = @ \cup {a}]
    /\ ActivateInactive({nextSessionId})
    /\ profilingOn' = TRUE
    /\ UNCHANGED <<stack, nodes, op, nest, launching, unbalanced>>

(* activate(session), or activate_all for all the sessions.                *)
Activate(t, S) ==
    /\ MayToggle(t)
    /\ S # {}
    /\ UNCHANGED session
    /\ ActivateInactive(S)
    /\ UNCHANGED <<nextSessionId, mode, sourceVars, nodes, op, clientVars, unbalanced>>

Deactivate(t, S) ==
    /\ MayToggle(t)
    /\ S \cap active # {}
    /\ Deactivations(S)
    /\ UNCHANGED <<session, nextSessionId, started, mode, sourceVars, nodes, op,
                   clientVars, unbalanced>>

(* finalize(session).  Dumping may throw (an output format that is not     *)
(* known); the session is then left behind, deactivated.                   *)
Finalize(t, i, dumped) ==
    /\ MayToggle(t)
    /\ Deactivations({i})
    /\ Stopped({i})
    /\ IF dumped THEN Removed(t, {i}) ELSE UNCHANGED <<session, sourceVars, nodes>>
    /\ UNCHANGED <<nextSessionId, mode, op, clientVars, unbalanced>>

(* finalize() of all the sessions, in order of their ids.  If one cannot   *)
(* be dumped, those after it stay active and none is removed.              *)
FinalizeAll(t, dumped) ==
    /\ MayToggle(t)
    /\ dumped \/ Live # {}
    /\ \E last \in (IF dumped THEN {MaxSessions} ELSE Live) :
          LET done == {i \in Live : i <= last}
          IN  /\ Deactivations(done)
              /\ Stopped(done)
              /\ IF dumped THEN Removed(t, done) ELSE UNCHANGED <<session, sourceVars, nodes>>
    /\ profilingOn' = FALSE
    /\ UNCHANGED <<nextSessionId, mode, op, nest, launching, unbalanced>>
-----------------------------------------------------------------------------
(* A thread's stack of a source: its own once it has one, until then that  *)
(* of the source's main thread, which it copies when it first looks.       *)
Contexts(t, a) == IF a \in seen[t] THEN stack[t][a] ELSE stack[mainThread[a]][a]

RegisteredSources == {session[i].source : i \in Range(scopeOrder)}

\* Slip: the first scope of a thread copies the main stack and is not pushed.
CopiedOrPushed(t, name) ==
    [stack EXCEPT ![t] = [a \in Addrs |->
        IF a \notin RegisteredSources THEN @[a]
        ELSE IF a \in seen[t] THEN Append(@[a], name) ELSE Contexts(t, a)]]

Pushed(t, name) ==
    [stack EXCEPT ![t] = [a \in Addrs |->
        IF a \in RegisteredSources THEN Append(Contexts(t, a), name) ELSE @[a]]]

(* Proton's part of entering a block: each registered source pushes the    *)
(* scope, and the data of its session records the contexts.                *)
Enter(t, name, recorded) ==
    /\ t \notin launching
    /\ Len(nest[t]) < MaxDepth
    /\ nest' = [nest EXCEPT ![t] = Append(@, [name |-> name, sent |-> profilingOn])]
    /\ IF profilingOn
       THEN /\ stack' = Pushed(t, name)
            /\ seen' = [seen EXCEPT ![t] = @ \cup RegisteredSources]
            /\ nodes' = [i \in Ids |->
                  IF i \in Range(scopeOrder)
                  THEN nodes[i] \cup {[thread |-> t, depth |-> Len(nest'[t]),
                                       path |-> recorded[t][session[i].source]]}
                  ELSE nodes[i]]
       ELSE UNCHANGED <<stack, seen, nodes>>
    /\ UNCHANGED <<managerVars, profilerVars, mainThread, op, profilingOn, launching, unbalanced>>

\* Slip: the data records the contexts before the source has the scope.
DataFirstEnterScope(t, name) == Enter(t, name, stack)

(* A session's source is before its data in the list.                      *)
EnterScope(t, name) == Enter(t, name, Pushed(t, name))

(* exitScope goes through the registered sessions from the last to the     *)
(* first, data before source, and stops at the first source that throws    *)
(* because its stack is empty or its top is another scope.                 *)
ExitThrows(t, name, i) ==
    LET own == stack[t][session[i].source] IN own = <<>> \/ Last(own) # name

Popped(t, sources) ==
    [stack EXCEPT ![t] = [a \in Addrs |-> IF a \in sources THEN Front(@[a]) ELSE @[a]]]

ExitScope(t) ==
    LET scope == Last(nest[t])
        thrower == {k \in DOMAIN scopeOrder : ExitThrows(t, scope.name, scopeOrder[k])}
        ReachedFrom(k) == {scopeOrder[n] : n \in k .. Len(scopeOrder)}
        stop == IF thrower = {} THEN 0 ELSE CHOOSE k \in thrower : \A n \in thrower : n <= k
        popped == {session[i].source : i \in ReachedFrom(stop + 1)}
    IN  /\ t \notin launching
        /\ nest[t] # <<>>
        /\ nest' = [nest EXCEPT ![t] = Front(@)]
        /\ IF profilingOn /\ scope.sent
           THEN /\ stack' = Popped(t, popped)
                /\ nodes' = [i \in Ids |->
                      IF i \in ReachedFrom(IF stop = 0 THEN 1 ELSE stop)
                      THEN {n \in nodes[i] : n.thread # t \/ n.depth # Len(nest[t])}
                      ELSE nodes[i]]
                /\ unbalanced' = (unbalanced \/ thrower # {})
           ELSE UNCHANGED <<stack, nodes, unbalanced>>
        /\ UNCHANGED <<managerVars, profilerVars, seen, mainThread, op, profilingOn, launching>>

(* enterOp: a profiler in which the thread has no op in progress adds an   *)
(* op to each of its data, which ask their sources for the contexts.       *)
EnterOp(t) ==
    LET begins == {p \in Profilers : opCount[p] > 0 /\ ~op[t][p].busy}
        asked == {session[i].source : i \in UNION {dataSet[p] : p \in begins}}
    IN  /\ t \notin launching
        /\ profilingOn
        /\ launching' = launching \cup {t}
        /\ op' = [op EXCEPT ![t] = [p \in Profilers |->
                        IF p \in begins THEN [busy |-> TRUE, data |-> dataSet[p]]
                        ELSE @[p]]]
        /\ stack' = [stack EXCEPT ![t] = [a \in Addrs |->
                        IF a \in asked THEN Contexts(t, a) ELSE @[a]]]
        /\ seen' = [seen EXCEPT ![t] = @ \cup asked]
        /\ UNCHANGED <<managerVars, profilerVars, mainThread, nodes, profilingOn, nest, unbalanced>>

\* Slip: the entries of the op are kept after it.
LingeringExitOp(t) ==
    /\ t \in launching
    /\ launching' = launching \ {t}
    /\ op' = [op EXCEPT ![t] = [p \in Profilers |->
                 IF opCount[p] > 0 THEN [@[p] EXCEPT !.busy = FALSE] ELSE @[p]]]
    /\ UNCHANGED <<managerVars, profilerVars, sourceVars, nodes, profilingOn, nest, unbalanced>>

ExitOp(t) ==
    /\ t \in launching
    /\ launching' = launching \ {t}
    /\ op' = [op EXCEPT ![t] = [p \in Profilers |->
                 IF opCount[p] > 0 THEN NoOp ELSE @[p]]]
    /\ UNCHANGED <<managerVars, profilerVars, sourceVars, nodes, profilingOn, nest, unbalanced>>

Next ==
    \/ \E t \in Starters :
          \/ \E path \in Paths : Restart(t, path)
          \/ \E path \in Paths, p \in Profilers, m \in Modes : RefuseStart(t, path, p, m)
          \/ \E path \in Paths, p \in Profilers, m \in Modes, a \in Addrs : Start(t, path, p, m, a)
          \/ \E S \in {Live} \cup {{i} : i \in Live} : Activate(t, S) \/ Deactivate(t, S)
          \/ \E i \in Live, dumped \in BOOLEAN : Finalize(t, i, dumped)
          \/ \E dumped \in BOOLEAN : FinalizeAll(t, dumped)
    \/ \E t \in Threads :
          \/ \E name \in Names : EnterScope(t, name)
          \/ ExitScope(t)
          \/ EnterOp(t)
          \/ ExitOp(t)

Spec == Init /\ [][Next]_vars
-----------------------------------------------------------------------------
TypeOK ==
    /\ nextSessionId \in 0 .. MaxSessions
    /\ \A i \in Ids : session[i] \in SessionRecord \cup {NoSession}
    /\ active \subseteq Live
    /\ promised \subseteq active
    /\ scopeOrder \in Seq(active)
    /\ opCount \in [Profilers -> 0 .. MaxSessions]
    /\ started \in [Profilers -> BOOLEAN]
    /\ dataSet \in [Profilers -> SUBSET active]
    /\ mode \in [Profilers -> Modes \cup {NoMode}]
    /\ stack \in [Threads -> [Addrs -> Seq(Names)]]
    /\ seen \in [Threads -> SUBSET Addrs]
    /\ mainThread \in [Addrs -> Threads]
    /\ \A i \in Ids : nodes[i] \subseteq
          [thread : Threads, depth : 1 .. MaxDepth, path : UNION {[1 .. n -> Names] : n \in 0 .. 2 * MaxDepth}]
    /\ op \in [Threads -> [Profilers -> [busy : BOOLEAN, data : SUBSET Ids]]]
    /\ profilingOn \in BOOLEAN
    /\ nest \in [Threads -> Seq([name : Names, sent : BOOLEAN])]
    /\ launching \subseteq Threads
    /\ unbalanced \in BOOLEAN

(* A session is marked active if and only if the manager calls it: its     *)
(* context source and data are in the list of scope interfaces once, its   *)
(* data is fed by its profiler, which is started and counts it.            *)
ActiveIsRegistered ==
    /\ Range(scopeOrder) = active
    /\ Len(scopeOrder) = Cardinality(active)
    /\ \A p \in Profilers :
          /\ dataSet[p] = {i \in active : session[i].profiler = p}
          /\ opCount[p] = Cardinality(dataSet[p])
          /\ dataSet[p] # {} => started[p]

(* A session that start or activate has returned for without an error, and *)
(* that has not been deactivated since, is one the manager calls.          *)
PromisedIsRegistered == promised \subseteq Range(scopeOrder)

(* Scopes are nested correctly in the program, so no exit of one throws.   *)
Balanced == ~unbalanced

(* In an active session the stack of the thread that started it is exactly *)
(* the blocks that thread is in, and that of any other thread ends with    *)
(* the blocks that thread is in.                                           *)
ContextIsNest ==
    \A i \in active, t \in Threads :
        LET own == Contexts(t, session[i].source)
        IN  IF mainThread[session[i].source] = t
            THEN own = Announced(nest[t])
            ELSE nest[t] # <<>> => IsSuffix(Announced(nest[t]), own)

(* What a session recorded for an open scope is the scope in its place: the *)
(* block is still open, and its contexts end with the blocks around it.    *)
NodesAreOpenScopes ==
    \A i \in active : \A n \in nodes[i] :
        /\ n.depth <= Len(nest[n.thread])
        /\ IsSuffix(Announced(SubSeq(nest[n.thread], 1, n.depth)), n.path)

(* An op in progress, which metrics are added to, belongs to no data of a  *)
(* session that has been deactivated or freed.                             *)
OpsOfActive ==
    \A t \in Threads, p \in Profilers :
        /\ op[t][p].data \subseteq active
        /\ op[t][p].busy => t \in launching

(* A profiler that nobody uses has been stopped: one runs only while some  *)
(* session, active or not, still has it.                                   *)
StoppedWhenUnused ==
    \A p \in Profilers : started[p] => \E i \in Live : session[i].profiler = p

(* The life cycle of sessions, their registrations and the profilers they  *)
(* share agree after every call.                                           *)
LifeCycle == TypeOK /\ ActiveIsRegistered /\ StoppedWhenUnused
=============================================================================
