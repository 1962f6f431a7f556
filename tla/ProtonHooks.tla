----------------------------- MODULE ProtonHooks -----------------------------
(***************************************************************************)
(* Proton's HookManager (third_party/proton/proton/hooks): which launch    *)
(* hooks are active, given the sessions they are registered for, driven by *)
(* start, activate, deactivate and finalize of profile.py.                 *)
(*                                                                         *)
(* The manager is one record, which the calls map to its next value:       *)
(*    keys     the sessions in session_hooks, in order of insertion        *)
(*    hooks    session_hooks: per session its hooks, in order, and whether *)
(*             each is active for the session                              *)
(*    active   active_hooks, highest priority first                        *)
(*    count    InstrumentationHook.active_count                            *)
(*    heads    whether the manager is in the launch hooks of the runtime   *)
(*    raised   the call has raised                                         *)
(***************************************************************************)
EXTENDS Naturals, FiniteSets, Sequences, SequencesExt

CONSTANTS
    LaunchHook,         \* the singleton of hooks/launch.py
    InstrumentationHooks,  \* the instances that starts may create, one each
    MaxSessions,        \* bound: sessions started in a behaviour
    Toggles             \* whether sessions are deactivated and activated again

ASSUME LaunchHookIsNoInstance == LaunchHook \notin InstrumentationHooks
ASSUME MaxSessionsAssumption == MaxSessions \in Nat

VARIABLES
    manager,            \* the HookManager
    known,              \* the sessions started and not finalized
    nextSession,
    created,            \* instrumentation hooks created so far
    wanted              \* ghost: the hooks each session was started with

vars == <<manager, known, nextSession, created, wanted>>

Sessions == 0 .. (MaxSessions - 1)
Hooks == {LaunchHook} \cup InstrumentationHooks

Init ==
    /\ manager = [keys |-> <<>>, hooks |-> [s \in Sessions |-> <<>>], active |-> <<>>,
                  count |-> 0, heads |-> FALSE, raised |-> FALSE]
    /\ known = {}
    /\ nextSession = 0
    /\ created = {}
    /\ wanted = [s \in Sessions |-> {}]

IsActive(m, h) == h \in Range(m.active)
Entries(m, s) == {m.hooks[s][n].hook : n \in DOMAIN m.hooks[s]}
On(m, s, h) == \E n \in DOMAIN m.hooks[s] : m.hooks[s][n] = [hook |-> h, on |-> TRUE]
-----------------------------------------------------------------------------
(* Looking a session up in the defaultdict creates it.                     *)
Touched(m, s) == IF s \in Range(m.keys) THEN m ELSE [m EXCEPT !.keys = Append(@, s)]

Flagged(m, s, h, on) ==
    [Touched(m, s) EXCEPT !.hooks[s] =
        IF h \in Entries(m, s)
        THEN [n \in DOMAIN @ |-> IF @[n].hook = h THEN [@[n] EXCEPT !.on = on] ELSE @[n]]
        ELSE Append(@, [hook |-> h, on |-> on])]

(* Hook.activate, and the append and sort by priority that follow it.  An  *)
(* instrumentation hook refuses to be the second.                          *)
SwitchedOn(m, h) ==
    IF IsActive(m, h) THEN m
    ELSE IF h = LaunchHook THEN [m EXCEPT !.active = <<h>> \o @]
    ELSE IF m.count > 0 THEN [m EXCEPT !.raised = TRUE]
    ELSE [m EXCEPT !.active = Append(@, h), !.count = @ + 1]

(* Hook.deactivate, and the removal from the list, which raises if the     *)
(* hook is not there.                                                      *)
Deactivated(m, h) ==
    IF h # LaunchHook /\ m.count > 0 THEN [m EXCEPT !.count = @ - 1] ELSE m

SwitchedOff(m, h) ==
    IF IsActive(m, h)
    THEN [Deactivated(m, h) EXCEPT !.active = SelectSeq(@, LAMBDA g : g # h)]
    ELSE [Deactivated(m, h) EXCEPT !.raised = TRUE]

(* any(session_hooks[hook] for session_hooks in ...): the sessions are     *)
(* looked at in order up to the first that has the hook on, and those that *)
(* had no entry for it have one now.                                       *)
Probed(m, h) ==
    LET hits == {n \in DOMAIN m.keys : On(m, m.keys[n], h)}
        looked == {m.keys[n] : n \in {k \in DOMAIN m.keys : \A j \in hits : k <= j}}
    IN  [m EXCEPT !.hooks = [s \in Sessions |->
            IF s \in looked /\ h \notin Entries(m, s)
            THEN Append(@[s], [hook |-> h, on |-> FALSE]) ELSE @[s]]]

Used(m, h) == \E s \in Range(m.keys) : On(m, s, h)

\* Slip: the other sessions are not asked.
SwitchedOffAnyway(m, h) == IF m.raised THEN m ELSE SwitchedOff(m, h)

SwitchedOffIfUnused(m, h) ==
    IF m.raised THEN m
    ELSE IF Used(m, h) THEN Probed(m, h) ELSE SwitchedOff(Probed(m, h), h)
-----------------------------------------------------------------------------
Register(m, s, h) ==
    IF m.raised THEN m
    ELSE LET done == SwitchedOn(Flagged(m, s, h, TRUE), h)
         IN  IF done.raised THEN done ELSE [done EXCEPT !.heads = TRUE]

ActivateOne(m, s, h) ==
    IF m.raised THEN m
    ELSE LET on == SwitchedOn(m, h) IN IF on.raised THEN on ELSE Flagged(on, s, h, TRUE)

HooksInOrder(m, s) == [n \in DOMAIN m.hooks[s] |-> m.hooks[s][n].hook]

ActivateSessions(m, ss) ==
    FoldLeft(LAMBDA acc, s :
                 FoldLeft(LAMBDA a, h : ActivateOne(a, s, h), Touched(acc, s), HooksInOrder(acc, s)),
             m, ss)

(* All the flags go down first; then each hook that was active is switched *)
(* off unless another session has it on.                                   *)
DeactivateSessions(m, ss) ==
    LET touched == FoldLeft(Touched, m, ss)
        down == [touched EXCEPT !.hooks = [s \in Sessions |->
                    IF s \in Range(ss)
                    THEN [n \in DOMAIN @[s] |-> [@[s][n] EXCEPT !.on = FALSE]] ELSE @[s]]]
        gone == SelectSeq(m.active, LAMBDA h : \E s \in Range(ss) : h \in Entries(m, s))
    IN  FoldLeft(SwitchedOffIfUnused, down, gone)

UnregisterAll(m) ==
    [FoldLeft(Deactivated, m, m.active) EXCEPT
        !.keys = <<>>, !.hooks = [s \in Sessions |-> <<>>], !.active = <<>>, !.heads = FALSE]

UnregisterOne(m, s) ==
    IF s \notin Range(m.keys) THEN m
    ELSE LET on == SelectSeq(m.hooks[s], LAMBDA e : e.on)
             popped == [m EXCEPT !.keys = SelectSeq(@, LAMBDA k : k # s), !.hooks[s] = <<>>]
             done == FoldLeft(SwitchedOffIfUnused, popped, [n \in DOMAIN on |-> on[n].hook])
         IN  IF done.raised \/ done.active # <<>> THEN done ELSE [done EXCEPT !.heads = FALSE]
-----------------------------------------------------------------------------
Calm == [manager EXCEPT !.raised = FALSE]

(* start: the session exists when the hooks are registered for it, the     *)
(* hook of the call before the instrumentation hook of the backend.        *)
Start(s, hs) ==
    /\ s \in known \/ (s = nextSession /\ s < MaxSessions)
    /\ hs \cap created = {}
    /\ manager' = FoldLeft(LAMBDA m, h : Register(m, s, h), Calm,
                           SetToSortSeq(hs, LAMBDA g, h : g = LaunchHook))
    /\ known' = known \cup {s}
    /\ nextSession' = IF s = nextSession THEN s + 1 ELSE nextSession
    /\ created' = created \cup (hs \ {LaunchHook})
    /\ wanted' = [wanted EXCEPT ![s] = @ \cup hs]

Activate(ss) ==
    /\ Toggles
    /\ manager' = ActivateSessions(Calm, ss)
    /\ UNCHANGED <<known, nextSession, created, wanted>>

Deactivate(ss) ==
    /\ Toggles
    /\ manager' = DeactivateSessions(Calm, ss)
    /\ UNCHANGED <<known, nextSession, created, wanted>>

(* finalize unregisters the hooks before it finalizes the session, and     *)
(* does not come to that if it raises.                                     *)
Finalize(s) ==
    /\ manager' = UnregisterOne(Calm, s)
    /\ known' = IF manager'.raised THEN known ELSE known \ {s}
    /\ UNCHANGED <<nextSession, created, wanted>>

FinalizeAll ==
    /\ manager' = UnregisterAll(Calm)
    /\ known' = {}
    /\ UNCHANGED <<nextSession, created, wanted>>

StartHooks == {hs \in SUBSET Hooks : Cardinality(hs \ {LaunchHook}) <= 1}

Next ==
    \/ \E s \in Sessions, hs \in StartHooks : Start(s, hs)
    \/ \E s \in known : Activate(<<s>>) \/ Deactivate(<<s>>) \/ Finalize(s)
    \/ Activate(manager.keys)
    \/ Deactivate(manager.keys)
    \/ FinalizeAll

Spec == Init /\ [][Next]_vars
-----------------------------------------------------------------------------
TypeOK ==
    /\ manager.keys \in Seq(Sessions) /\ IsInjective(manager.keys)
    /\ \A s \in Sessions : \A n \in DOMAIN manager.hooks[s] :
          manager.hooks[s][n] \in [hook : Hooks, on : BOOLEAN]
    /\ manager.active \in Seq(Hooks) /\ IsInjective(manager.active)
    /\ manager.count \in 0 .. Cardinality(InstrumentationHooks)
    /\ {manager.heads, manager.raised} \subseteq BOOLEAN
    /\ known \subseteq 0 .. (nextSession - 1)
    /\ created \subseteq InstrumentationHooks

(* A hook is active if and only if some session has it on, and the         *)
(* instrumentation hook's own count agrees.                                *)
ActiveIfWanted ==
    /\ Range(manager.active) = {h \in Hooks : Used(manager, h)}
    /\ manager.count = Cardinality(Range(manager.active) \ {LaunchHook})

(* At most one instrumentation hook is active, and it comes after the      *)
(* launch hook.                                                            *)
OneInstrumentationHook ==
    /\ Cardinality(Range(manager.active) \ {LaunchHook}) <= 1
    /\ IsActive(manager, LaunchHook) => Head(manager.active) = LaunchHook

(* A hook is on only for sessions that were started with it.               *)
OnlyWanted == \A s \in Sessions, h \in Hooks : On(manager, s, h) => h \in wanted[s]

(* While a hook is active the runtime calls the manager.                   *)
HeadsInPlace == manager.active # <<>> => manager.heads

(* A session that is gone has left nothing behind.                         *)
NoStaleSession == Range(manager.keys) \subseteq known

(* The manager's tables agree after every call, whichever call raised.     *)
HooksConsistent == TypeOK /\ ActiveIfWanted /\ OneInstrumentationHook /\ NoStaleSession
=============================================================================
