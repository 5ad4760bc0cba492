--------------------------- MODULE ToolsetReload ---------------------------
(***************************************************************************)
(* The reload protocol of mcp.Server (pkg/mcp/mcp.go): how applyToolsets    *)
(* moves the SDK's tools, prompts, resources and resource templates, the    *)
(* enabledX bookkeeping and the live configuration from one configuration   *)
(* to the next while tool calls run, when it is called by NewServer, by     *)
(* ReloadConfiguration (SIGHUP) and by the provider's watch callbacks.      *)
(*                                                                         *)
(* An item is an SDK tool/prompt/resource/template after mutation and       *)
(* filtering.  Surface(c, t, k, n) is the item of kind k and name n that    *)
(* collectApplicableX yields for configuration c when the provider is in    *)
(* state t, or Nil; module ToolSurface computes it.  An item that the       *)
(* convert phase refuses is in Bad.                                        *)
(***************************************************************************)
EXTENDS Naturals

CONSTANTS Config, Target, Name, Item, Bad, Nil,
          Main,        \* the goroutine that runs NewServer
          Reloader,    \* goroutines that call ReloadConfiguration
          Watcher,     \* goroutines that run the WatchTargets callback
          Call,        \* concurrent tool calls
          Valid(_),    \* StaticConfig.Validate succeeds
          Surface(_, _, _, _)

Caller == {Main} \cup Reloader \cup Watcher

\* commitItems runs for tools, prompts, resources, resource templates, in
\* this order.
Tools == 1
LastKind == 4
Kind == Tools .. LastKind

ASSUME NilAssumption ==
    /\ Nil \notin Config
    /\ Nil \notin Item
    /\ Nil \notin Caller

ASSUME CallerAssumption ==
    /\ Main \notin Reloader \cup Watcher
    /\ Reloader \cap Watcher = {}

ASSUME SurfaceAssumption ==
    \A c \in Config, t \in Target, k \in Kind, n \in Name :
        Surface(c, t, k, n) \in Item \cup {Nil}

ASSUME BadAssumption == Bad \subseteq Item

ASSUME ValidAssumption == \A c \in Config : Valid(c) \in BOOLEAN

\* A surface: what is registered under each name of each kind.
Registry == [Kind -> [Name -> Item \cup {Nil}]]
Empty == [k \in Kind |-> [n \in Name |-> Nil]]
Names(items) == {n \in Name : items[n] # Nil}

VARIABLES
    target,         \* what the provider and its clusters currently look like
    server,         \* "starting", "serving", or "failed" (NewServer errored)
    configuration,  \* s.configuration, the atomic pointer
    warm,           \* its lazy caches are populated
    sdk,            \* what s.server has registered
    enabled,        \* s.enabledTools, ... : names per kind
    reloadMu,       \* the goroutine holding s.reloadMu, or Nil
    watching,       \* WatchTargets has been called: callbacks may come
    pc,             \* per goroutine, where it is in applyToolsets
    candidate,      \* applyToolsets' argument (Nil: re-apply)
    cfg,            \* its local cfg once the lock is held
    cfgWarm,        \* cfg's caches are populated
    kind, todo,     \* loop state: the kind and the names still to be done
    built,          \* the converted items
    previous,       \* the enabledX it read
    call            \* per call: where it is, its handler's item, its snapshot

serverVars == <<configuration, warm, sdk, enabled>>
localVars == <<candidate, cfg, cfgWarm, kind, todo, built, previous>>
vars == <<target, server, configuration, warm, sdk, enabled, reloadMu,
          watching, pc, candidate, cfg, cfgWarm, kind, todo, built, previous,
          call>>

Idle == "idle"
\* The phases of applyToolsets between reloadMu.Lock and Unlock.
BeforeCommit == {"collect", "convert", "previous"}
Committing == {"remove", "add"}
AfterCommit == {"warm", "store", "bookkeeping", "watch"}
Critical == BeforeCommit \cup Committing \cup AfterCommit

NoCall == [at |-> Idle, item |-> Nil, snapshot |-> Nil, warm |-> TRUE]

Init == /\ target \in Target
        /\ server = "starting"
        /\ configuration \in {c \in Config : Valid(c)}
        /\ warm = FALSE
        /\ sdk = Empty
        /\ enabled = [k \in Kind |-> {}]
        /\ reloadMu = Nil
        /\ watching = FALSE
        /\ pc = [p \in Caller |-> IF p = Main THEN "lock" ELSE Idle]
        /\ candidate = [p \in Caller |-> IF p = Main THEN configuration ELSE Nil]
        /\ cfg = [p \in Caller |-> Nil]
        /\ cfgWarm = [p \in Caller |-> FALSE]
        /\ kind = [p \in Caller |-> Tools]
        /\ todo = [p \in Caller |-> {}]
        /\ built = [p \in Caller |-> Empty]
        /\ previous = [p \in Caller |-> [k \in Kind |-> {}]]
        /\ call = [h \in Call |-> NoCall]

-----------------------------------------------------------------------------
(* Plausible mistakes in this code, used to show that the properties below  *)
(* notice them.                                                             *)

\* The callback passes the configuration it saw when it was called, instead
\* of nil: the stale capture that reapplyToolsets' comment warns about.
ReapplyCapturesEarly(p) ==
    /\ watching
    /\ pc[p] = Idle
    /\ candidate' = [candidate EXCEPT ![p] = configuration]
    /\ pc' = [pc EXCEPT ![p] = "lock"]
    /\ UNCHANGED <<target, server, serverVars, reloadMu, watching, cfg,
                   cfgWarm, kind, todo, built, previous, call>>

\* The convert phase validates tools only.
RefusesToolsOnly(p) == \E n \in Name : built[p][Tools][n] \in Bad

\* The error path of the convert phase returns without unlocking.
FailsWithoutUnlock(p) ==
    /\ pc[p] = "convert"
    /\ \E k \in Kind, n \in Name : built[p][k][n] \in Bad
    /\ pc' = [pc EXCEPT ![p] = Idle]
    /\ candidate' = [candidate EXCEPT ![p] = Nil]
    /\ server' = IF p # Main THEN server ELSE "failed"
    /\ UNCHANGED <<target, serverVars, reloadMu, watching, cfg, cfgWarm, kind,
                   todo, built, previous, call>>

\* Stale names are looked for in the list that was just built.
RemovesNothing(p) ==
    /\ pc[p] = "remove"
    /\ todo' = [todo EXCEPT ![p] = Names(built[p][kind[p]])]
    /\ pc' = [pc EXCEPT ![p] = "add"]
    /\ UNCHANGED <<target, server, serverVars, reloadMu, watching, candidate,
                   cfg, cfgWarm, kind, built, previous, call>>

\* warmCaches is not extended to a new lazy field.
WarmsNothing(p) ==
    /\ pc[p] = "warm"
    /\ pc' = [pc EXCEPT ![p] = "store"]
    /\ UNCHANGED <<target, server, serverVars, reloadMu, watching, localVars,
                   call>>

-----------------------------------------------------------------------------
(* Entering applyToolsets.                                                 *)

\* ReloadConfiguration: a configuration read from disk that fails Validate
\* is refused here and leaves no trace, so only a valid one is passed on.
ReloadConfiguration(p) ==
    /\ server = "serving"
    /\ pc[p] = Idle
    /\ \E c \in Config :
        /\ Valid(c)
        /\ candidate' = [candidate EXCEPT ![p] = c]
    /\ pc' = [pc EXCEPT ![p] = "lock"]
    /\ UNCHANGED <<target, server, serverVars, reloadMu, watching, cfg,
                   cfgWarm, kind, todo, built, previous, call>>

\* reapplyToolsets: the callback a provider's watcher runs.
ReapplyToolsets(p) ==
    /\ watching
    /\ pc[p] = Idle
    /\ candidate' = [candidate EXCEPT ![p] = Nil]
    /\ pc' = [pc EXCEPT ![p] = "lock"]
    /\ UNCHANGED <<target, server, serverVars, reloadMu, watching, cfg,
                   cfgWarm, kind, todo, built, previous, call>>

\* s.reloadMu.Lock, and the configuration a nil argument stands for is read
\* only now.
Lock(p) ==
    /\ pc[p] = "lock"
    /\ reloadMu = Nil
    /\ reloadMu' = p
    /\ cfg' = [cfg EXCEPT ![p] = IF candidate[p] = Nil THEN configuration
                                                       ELSE candidate[p]]
    /\ cfgWarm' = [cfgWarm EXCEPT ![p] = candidate[p] = Nil /\ warm]
    /\ kind' = [kind EXCEPT ![p] = Tools]
    /\ todo' = [todo EXCEPT ![p] = Name]
    /\ pc' = [pc EXCEPT ![p] = "collect"]
    /\ UNCHANGED <<target, server, serverVars, watching, candidate, built,
                   previous, call>>

\* Returning from applyToolsets: its locals are gone and the deferred Unlock
\* runs.  When NewServer's own call returns, the server starts serving or
\* NewServer fails.
Unlock(p, ok) ==
    /\ reloadMu' = Nil
    /\ pc' = [pc EXCEPT ![p] = Idle]
    /\ candidate' = [candidate EXCEPT ![p] = Nil]
    /\ cfg' = [cfg EXCEPT ![p] = Nil]
    /\ cfgWarm' = [cfgWarm EXCEPT ![p] = FALSE]
    /\ kind' = [kind EXCEPT ![p] = Tools]
    /\ todo' = [todo EXCEPT ![p] = {}]
    /\ built' = [built EXCEPT ![p] = Empty]
    /\ previous' = [previous EXCEPT ![p] = [k \in Kind |-> {}]]
    /\ server' = IF p # Main THEN server
                 ELSE IF ok THEN "serving" ELSE "failed"

-----------------------------------------------------------------------------
(* The phases of applyToolsets.                                            *)

\* One item of collectApplicableTools/Prompts/Resources/ResourceTemplates.
\* Each asks the provider, which may change between two of them.
Collect(p) ==
    /\ pc[p] = "collect"
    /\ \E n \in todo[p] :
        /\ built' = [built EXCEPT ![p][kind[p]][n] =
                                    Surface(cfg[p], target, kind[p], n)]
        /\ todo' = [todo EXCEPT ![p] = @ \ {n}]
    /\ UNCHANGED <<target, server, serverVars, reloadMu, watching, pc,
                   candidate, cfg, cfgWarm, kind, previous, call>>

CollectNextKind(p) ==
    /\ pc[p] = "collect"
    /\ todo[p] = {}
    /\ IF kind[p] < LastKind
       THEN /\ kind' = [kind EXCEPT ![p] = @ + 1]
            /\ todo' = [todo EXCEPT ![p] = Name]
            /\ UNCHANGED pc
       ELSE /\ pc' = [pc EXCEPT ![p] = "convert"]
            /\ UNCHANGED <<kind, todo>>
    /\ UNCHANGED <<target, server, serverVars, reloadMu, watching, candidate,
                   cfg, cfgWarm, built, previous, call>>

\* Phase 1: one item that does not convert aborts the whole reload.
Refused(p) == \E k \in Kind, n \in Name : built[p][k][n] \in Bad

ConvertFails(p) ==
    /\ pc[p] = "convert"
    /\ Refused(p)
    /\ Unlock(p, FALSE)
    /\ UNCHANGED <<target, serverVars, watching, call>>

Convert(p) ==
    /\ pc[p] = "convert"
    /\ ~ Refused(p)
    /\ pc' = [pc EXCEPT ![p] = "previous"]
    /\ UNCHANGED <<target, server, serverVars, reloadMu, watching, localVars,
                   call>>

\* The enabledX read under mu.RLock.
ReadPrevious(p) ==
    /\ pc[p] = "previous"
    /\ previous' = [previous EXCEPT ![p] = enabled]
    /\ kind' = [kind EXCEPT ![p] = Tools]
    /\ pc' = [pc EXCEPT ![p] = "remove"]
    /\ UNCHANGED <<target, server, serverVars, reloadMu, watching, candidate,
                   cfg, cfgWarm, todo, built, call>>

\* Phase 2, commitItems: the names no longer wanted go in one SDK call ...
CommitRemove(p) ==
    /\ pc[p] = "remove"
    /\ LET k == kind[p]
           toRemove == previous[p][k] \ Names(built[p][k])
       IN  /\ sdk' = [sdk EXCEPT ![k] =
                        [n \in Name |-> IF n \in toRemove THEN Nil ELSE @[n]]]
           /\ todo' = [todo EXCEPT ![p] = Names(built[p][k])]
    /\ pc' = [pc EXCEPT ![p] = "add"]
    /\ UNCHANGED <<target, server, configuration, warm, enabled, reloadMu,
                   watching, candidate, cfg, cfgWarm, kind, built, previous,
                   call>>

\* ... and every item is added, replacing one of the same name, one by one.
CommitAdd(p) ==
    /\ pc[p] = "add"
    /\ \E n \in todo[p] :
        /\ sdk' = [sdk EXCEPT ![kind[p]][n] = built[p][kind[p]][n]]
        /\ todo' = [todo EXCEPT ![p] = @ \ {n}]
    /\ UNCHANGED <<target, server, configuration, warm, enabled, reloadMu,
                   watching, pc, candidate, cfg, cfgWarm, kind, built,
                   previous, call>>

CommitNextKind(p) ==
    /\ pc[p] = "add"
    /\ todo[p] = {}
    /\ IF kind[p] < LastKind
       THEN /\ kind' = [kind EXCEPT ![p] = @ + 1]
            /\ pc' = [pc EXCEPT ![p] = "remove"]
       ELSE /\ pc' = [pc EXCEPT ![p] = "warm"]
            /\ UNCHANGED kind
    /\ UNCHANGED <<target, server, serverVars, reloadMu, watching, candidate,
                   cfg, cfgWarm, todo, built, previous, call>>

WarmCaches(p) ==
    /\ pc[p] = "warm"
    /\ cfgWarm' = [cfgWarm EXCEPT ![p] = TRUE]
    /\ pc' = [pc EXCEPT ![p] = "store"]
    /\ UNCHANGED <<target, server, serverVars, reloadMu, watching, candidate,
                   cfg, kind, todo, built, previous, call>>

\* s.configuration.Store(cfg)
Store(p) ==
    /\ pc[p] = "store"
    /\ configuration' = cfg[p]
    /\ warm' = cfgWarm[p]
    /\ pc' = [pc EXCEPT ![p] = "bookkeeping"]
    /\ UNCHANGED <<target, server, sdk, enabled, reloadMu, watching,
                   localVars, call>>

\* The enabledX write under mu.Lock.
Bookkeeping(p) ==
    /\ pc[p] = "bookkeeping"
    /\ enabled' = [k \in Kind |-> Names(built[p][k])]
    /\ pc' = [pc EXCEPT ![p] = "watch"]
    /\ UNCHANGED <<target, server, configuration, warm, sdk, reloadMu,
                   watching, localVars, call>>

\* s.p.WatchTargets(ctx, s.reapplyToolsets), and return.  NewServer calls
\* WatchTargets once more, to the same effect.
WatchTargets(p) ==
    /\ pc[p] = "watch"
    /\ watching' = TRUE
    /\ Unlock(p, TRUE)
    /\ UNCHANGED <<target, serverVars, call>>

-----------------------------------------------------------------------------
(* Tool calls: the SDK resolves the name, then the handler snapshots the    *)
(* configuration once and works from the snapshot.                          *)

Dispatch(h) ==
    /\ server = "serving"
    /\ call[h].at = Idle
    /\ \E n \in Names(sdk[Tools]) :
        call' = [call EXCEPT ![h].at = "dispatched", ![h].item = sdk[Tools][n]]
    /\ UNCHANGED <<target, server, serverVars, reloadMu, watching, pc,
                   localVars>>

Snapshot(h) ==
    /\ call[h].at = "dispatched"
    /\ call' = [call EXCEPT ![h].at = "running",
                            ![h].snapshot = configuration, ![h].warm = warm]
    /\ UNCHANGED <<target, server, serverVars, reloadMu, watching, pc,
                   localVars>>

Return(h) ==
    /\ call[h].at = "running"
    /\ call' = [call EXCEPT ![h] = NoCall]
    /\ UNCHANGED <<target, server, serverVars, reloadMu, watching, pc,
                   localVars>>

-----------------------------------------------------------------------------
\* The kubeconfig or the clusters change underneath the provider.
TargetChanges ==
    /\ target' \in Target \ {target}
    /\ UNCHANGED <<server, serverVars, reloadMu, watching, pc, localVars, call>>

ApplyStep(p) ==
    \/ Collect(p) \/ CollectNextKind(p) \/ ConvertFails(p) \/ Convert(p)
    \/ ReadPrevious(p) \/ CommitRemove(p) \/ CommitAdd(p) \/ CommitNextKind(p)
    \/ WarmCaches(p) \/ Store(p) \/ Bookkeeping(p) \/ WatchTargets(p)

Next == \/ \E p \in Reloader : ReloadConfiguration(p)
        \/ \E p \in Watcher : ReapplyToolsets(p)
        \/ \E p \in Caller : Lock(p) \/ ApplyStep(p)
        \/ \E h \in Call : Dispatch(h) \/ Snapshot(h) \/ Return(h)
        \/ TargetChanges

SafeSpec == Init /\ [][Next]_vars

\* A goroutine that can run runs, and sync.Mutex hands the lock to a
\* goroutine that has waited long enough (its starvation mode): strong
\* fairness for Lock, weak for the steps of the holder.  Nothing obliges
\* anyone to start a reload, change a cluster or call a tool.
Spec == /\ SafeSpec
        /\ \A p \in Caller : SF_vars(Lock(p)) /\ WF_vars(ApplyStep(p))
        /\ \A h \in Call : WF_vars(Snapshot(h)) /\ WF_vars(Return(h))
-----------------------------------------------------------------------------
(* Properties.                                                             *)

CallRecord == [at : {Idle, "dispatched", "running"}, item : Item \cup {Nil},
               snapshot : Config \cup {Nil}, warm : BOOLEAN]

\* The types of the server's fields and of the locals of applyToolsets.
TypeOK ==
    /\ target \in Target
    /\ server \in {"starting", "serving", "failed"}
    /\ configuration \in Config
    /\ warm \in BOOLEAN
    /\ sdk \in Registry
    /\ enabled \in [Kind -> SUBSET Name]
    /\ reloadMu \in Caller \cup {Nil}
    /\ watching \in BOOLEAN
    /\ pc \in [Caller -> {Idle, "lock"} \cup Critical]
    /\ candidate \in [Caller -> Config \cup {Nil}]
    /\ cfg \in [Caller -> Config \cup {Nil}]
    /\ cfgWarm \in [Caller -> BOOLEAN]
    /\ kind \in [Caller -> Kind]
    /\ todo \in [Caller -> SUBSET Name]
    /\ built \in [Caller -> Registry]
    /\ previous \in [Caller -> [Kind -> SUBSET Name]]
    /\ call \in [Call -> CallRecord]

\* Whenever no reload is in flight, the names the SDK has registered are the
\* ones the enabledX bookkeeping lists, for all four kinds, and every item is
\* the one the live configuration yields in some state of the provider: no
\* interleaving of reloads, callbacks and failed reloads leaves an item of an
\* older configuration behind or loses one of the new.
SurfaceMatchesConfiguration ==
    reloadMu = Nil /\ server = "serving" =>
        \A k \in Kind :
            /\ Names(sdk[k]) = enabled[k]
            /\ \A n \in Name : \E t \in Target :
                    sdk[k][n] = Surface(configuration, t, k, n)

\* At no moment, mid-reload included, does the SDK serve an item that the
\* convert phase refuses: the phase covers every kind before the first
\* mutation.
NothingRefusedIsServed ==
    \A k \in Kind, n \in Name : sdk[k][n] \notin Bad

\* A handler never works from a configuration whose lazy caches are not
\* populated: warmCaches comes before the atomic store on every path, so
\* concurrent first readers cannot race on ListOutput().
SnapshotsAreWarm ==
    \A h \in Call : call[h].at = "running" => call[h].warm

\* Every call of applyToolsets returns, whoever made it and however many
\* others compete for reloadMu: no error path keeps the lock.
AppliesFinish == \A p \in Caller : pc[p] = "lock" ~> pc[p] = Idle

\* ReloadConfiguration "is fully transactional": the configuration changes
\* only by accepting a submitted candidate in one step, a refused candidate is
\* never visible to a call, a re-apply never rolls back an accepted one, and
\* every candidate is answered.
Pending == {"lock"} \cup BeforeCommit \cup Committing \cup {"warm", "store"}

TR == INSTANCE TransactionalReload WITH
        Caller <- Reloader,
        installed <- configuration,
        ask <- [p \in Reloader |-> IF pc[p] \in Pending THEN candidate[p]
                                                       ELSE Nil],
        seen <- [h \in Call |-> call[h].snapshot]

Transactional == TR!Spec

\* applyToolsets "atomically installs cfg as the live configuration alongside
\* the SDK changes", so a call works with a tool and a configuration snapshot
\* of one and the same configuration.  It does not hold: a call dispatched
\* before the store has a new tool and the old snapshot.
CallUsesOneConfiguration ==
    \A h \in Call : call[h].at = "running" =>
        \E t \in Target, n \in Name :
            call[h].item = Surface(call[h].snapshot, t, Tools, n)
=============================================================================
