------------------------- MODULE KubeconfigProvider -------------------------
(***************************************************************************)
(* kubeConfigClusterProvider (pkg/kubernetes/provider_kubeconfig.go): the   *)
(* map of lazily created per-context managers, the reset that a kubeconfig  *)
(* change triggers, the watcher instances that reset replaces, and the tool *)
(* and prompt calls that look managers up meanwhile.                        *)
(*                                                                         *)
(* A manager is represented by the version of the kubeconfig file it was    *)
(* built from.  The inside of a watcher is module DebouncedWatcher's        *)
(* subject; here one is new, running, deaf (Watch found no file to watch or *)
(* no inotify instance, and returned without a goroutine), stopping,        *)
(* stopped or closed, and its timer is armed.                               *)
(***************************************************************************)
EXTENDS Naturals, FiniteSets

CONSTANTS Context,      \* context names
          NoContext,    \* the empty context name ""
          Content,      \* well-formed kubeconfig contents
          Broken,       \* a file that does not load, e.g. half written
          Request,      \* tool and prompt calls
          Callback,     \* goroutines that run NewServer or a timer callback
          Main,         \* the one of them that runs NewServer
          MaxWrites,    \* bound: how often the file is written
          MaxResets,    \* bound: how often reset succeeds
          Absent,       \* no entry in p.managers
          Lazy          \* an entry that is nil: not created yet

Key == Context \cup {NoContext}
Version == 0 .. MaxWrites
Instance == 0 .. MaxResets

ASSUME NameAssumption ==
    /\ NoContext \notin Context
    /\ Absent \notin Version /\ Lazy \notin Version /\ Absent # Lazy
    /\ Absent \notin Callback
ASSUME ContentAssumption ==
    /\ Content \subseteq [contexts : SUBSET Context, current : Key]
    /\ Broken \notin Content
ASSUME MainAssumption == Main \in Callback
ASSUME BoundAssumption == MaxWrites \in Nat /\ MaxResets \in Nat

VARIABLES
    content,         \* what the kubeconfig file says
    version,         \* how often it has been written
    managers,        \* p.managers
    defaultContext,  \* p.defaultContext
    loaded,          \* the content the last successful reset read (history)
    since,           \* and its version (history)
    mu,              \* the callback that holds p.mu for writing, or Absent
    current,         \* the instance p.kubeconfigWatcher points to
    watcher,         \* per instance: see WatcherState
    armed,           \* per instance: its debounce timer runs
    callback,        \* per callback: where it is
    local,           \* per callback: the instance WatchTargets has read
    advertised,      \* the default target the last reload told the tools
    request          \* per call: where it is, its target, its manager

fileVars == <<content, version>>
providerVars == <<managers, defaultContext, loaded, since>>
watchVars == <<current, watcher, armed>>
vars == <<content, version, managers, defaultContext, loaded, since, mu,
          current, watcher, armed, callback, local, advertised, request>>

\* A callback that has not finished reset.
Resetting == {"reset", "close", "wait", "install"}

WatcherState ==
    {"unborn", "new", "running", "deaf", "stopping", "stopped", "closed"}

\* Watch on an instance in state w: one that is started ignores it, a new or a
\* closed one gets its goroutine, or none when there is no file to watch or
\* fsnotify.NewWatcher fails.
Watched(w) == IF w \in {"new", "closed"} THEN {"running", "deaf"} ELSE {w}

NoRequest == [at |-> "idle", target |-> NoContext, manager |-> Absent]

-----------------------------------------------------------------------------
(* What the code reads from a file and from the map.                        *)

\* resolveKubeconfigContext, and the existence check ClientConfig makes.  The
\* result is the context, or NoContext for an error.
Resolve(f, name) ==
    IF f = Broken THEN NoContext
    ELSE LET wanted == IF name # NoContext THEN name
                       ELSE IF f.current # NoContext THEN f.current
                       ELSE IF Cardinality(f.contexts) = 1
                            THEN CHOOSE c \in f.contexts : TRUE
                            ELSE NoContext
         IN  IF wanted \in f.contexts THEN wanted ELSE NoContext

\* getTargetsUnsync and IsMultiTarget
Targets == {k \in Key : managers[k] # Absent}
IsMultiTarget == Cardinality(Targets) > 1

\* A mistake: the contexts that are not created yet are left out.
OnlyDefault(f, d, v) == [k \in Key |-> IF k = d THEN v ELSE Absent]

\* The map reset installs: the default context's manager, all others lazy.
Fresh(f, d, v) ==
    [k \in Key |-> IF k = d THEN v ELSE IF k \in f.contexts THEN Lazy ELSE Absent]

\* newKubeConfigClusterProvider has run its first reset; NewServer is about to
\* apply the toolsets.
Init == /\ content \in {f \in Content : Resolve(f, NoContext) # NoContext}
        /\ version = 0
        /\ defaultContext = Resolve(content, NoContext)
        /\ managers = Fresh(content, defaultContext, 0)
        /\ loaded = content
        /\ since = 0
        /\ mu = Absent
        /\ current = 0
        /\ watcher = [i \in Instance |-> IF i = 0 THEN "new" ELSE "unborn"]
        /\ armed = [i \in Instance |-> FALSE]
        /\ callback = [b \in Callback |-> IF b = Main THEN "reload" ELSE "idle"]
        /\ local = [b \in Callback |-> 0]
        /\ advertised = defaultContext
        /\ request = [r \in Request |-> NoRequest]

-----------------------------------------------------------------------------
(* Plausible mistakes in this code, used to show that the properties below  *)
(* notice them.                                                             *)

\* The manager is built before the lock is taken, and stored after it.
StoresWithoutRecheck(r) ==
    /\ mu = Absent
    /\ request[r].at = "miss"
    /\ \E v \in 0 .. version :
        /\ managers' = [managers EXCEPT ![request[r].target] = v]
        /\ request' = [request EXCEPT ![r] = NoRequest]
    /\ UNCHANGED <<fileVars, defaultContext, loaded, since, mu, watchVars,
                   callback, local, advertised>>

\* reset forgets to move the default context.
KeepsDefault(b) ==
    /\ callback[b] = "install"
    /\ current' = current + 1
    /\ watcher' = [watcher EXCEPT ![current + 1] = "new"]
    /\ mu' = Absent
    /\ callback' = [callback EXCEPT ![b] = "watch"]
    /\ UNCHANGED <<fileVars, providerVars, armed, local, advertised, request>>

\* reset returns with the lock held when the file does not load.
FailsWithoutUnlock(b) ==
    /\ callback[b] = "reset"
    /\ mu = Absent
    /\ Resolve(content, NoContext) = NoContext
    /\ mu' = b
    /\ callback' = [callback EXCEPT ![b] = "idle"]
    /\ UNCHANGED <<fileVars, providerVars, watchVars, local, advertised,
                   request>>

\* The watch callback resets the provider and does not reload the server.
ForgetsReload(b) ==
    /\ callback[b] \in {"start", "restart"}
    /\ \E w \in Watched(watcher[local[b]]) :
            watcher' = [watcher EXCEPT ![local[b]] = w]
    /\ local' = [local EXCEPT ![b] = 0]
    /\ callback' = [callback EXCEPT ![b] = "idle"]
    /\ UNCHANGED <<fileVars, providerVars, mu, current, armed, advertised,
                   request>>

-----------------------------------------------------------------------------
(* managerForContext and the calls that use it.                             *)

\* A tool call without a context argument uses GetDefaultTarget; a prompt call
\* without one passes the empty name on; either may pass a name.
Call(r) ==
    /\ mu = Absent
    /\ request[r].at = "idle"
    /\ \E t \in Key :
        request' = [request EXCEPT ![r] = [at |-> "lookup", target |-> t,
                                           manager |-> Absent]]
    /\ UNCHANGED <<fileVars, providerVars, mu, watchVars, callback, local,
                   advertised>>

\* The read under p.mu.RLock.
Lookup(r) ==
    /\ mu = Absent
    /\ request[r].at = "lookup"
    /\ LET m == managers[request[r].target]
       IN  request' = [request EXCEPT
             ![r].at = IF m \in {Absent, Lazy} THEN "miss" ELSE "using",
             ![r].manager = IF m \in {Absent, Lazy} THEN Absent ELSE m]
    /\ UNCHANGED <<fileVars, providerVars, mu, watchVars, callback, local,
                   advertised>>

\* The recheck under p.mu.Lock, and the creation from the file as it is now.
\* An unknown context or an unreadable file ends the call with ErrUnknownTarget.
Create(r) ==
    /\ mu = Absent
    /\ request[r].at = "miss"
    /\ LET t == request[r].target
           m == managers[t]
       IN  \/ /\ m \notin {Absent, Lazy}
              /\ request' = [request EXCEPT ![r].at = "using", ![r].manager = m]
              /\ UNCHANGED managers
           \/ /\ m \in {Absent, Lazy}
              /\ Resolve(content, t) # NoContext
              /\ managers' = [managers EXCEPT ![t] = version]
              /\ request' = [request EXCEPT ![r].at = "using",
                                            ![r].manager = version]
           \/ /\ m \in {Absent, Lazy}
              /\ Resolve(content, t) = NoContext
              /\ request' = [request EXCEPT ![r] = NoRequest]
              /\ UNCHANGED managers
    /\ UNCHANGED <<fileVars, defaultContext, loaded, since, mu, watchVars,
                   callback, local, advertised>>

Return(r) ==
    /\ request[r].at = "using"
    /\ request' = [request EXCEPT ![r] = NoRequest]
    /\ UNCHANGED <<fileVars, providerVars, mu, watchVars, callback, local,
                   advertised>>

-----------------------------------------------------------------------------
(* The callback of the kubeconfig watcher: reset, WatchTargets, reload.     *)

\* The debounce timer of instance i fires.
TimerFires(i, b) ==
    /\ armed[i]
    /\ callback[b] = "idle"
    /\ current + Cardinality({c \in Callback : callback[c] \in Resetting})
          < MaxResets
    /\ armed' = [armed EXCEPT ![i] = FALSE]
    /\ callback' = [callback EXCEPT ![b] = "reset"]
    /\ UNCHANGED <<fileVars, providerVars, mu, current, watcher, local,
                   advertised, request>>

\* The cluster watcher's callback only reloads.
ClusterCallback(b) ==
    /\ callback[b] = "idle"
    /\ callback' = [callback EXCEPT ![b] = "reload"]
    /\ UNCHANGED <<fileVars, providerVars, mu, watchVars, local, advertised,
                   request>>

\* reset, with p.mu: an unusable file leaves everything as it is ...
ResetFails(b) ==
    /\ callback[b] = "reset"
    /\ mu = Absent
    /\ Resolve(content, NoContext) = NoContext
    /\ callback' = [callback EXCEPT ![b] = "idle"]
    /\ UNCHANGED <<fileVars, providerVars, mu, watchVars, local, advertised,
                   request>>

\* ... and a usable one replaces the map.
ResetLoads(b) ==
    /\ callback[b] = "reset"
    /\ mu = Absent
    /\ Resolve(content, NoContext) # NoContext
    /\ mu' = b
    /\ managers' = Fresh(content, Resolve(content, NoContext), version)
    /\ loaded' = content
    /\ since' = version
    /\ callback' = [callback EXCEPT ![b] = "close"]
    /\ UNCHANGED <<fileVars, defaultContext, watchVars, local, advertised,
                   request>>

\* p.Close, up to the wait: the timer is stopped, unless the goroutine has
\* received an event and arms it again, and a started watcher is told to stop.
ResetCloses(b) ==
    /\ callback[b] = "close"
    /\ \E late \in BOOLEAN :
        armed' = [armed EXCEPT ![current] = @ /\ late]
    /\ LET w == watcher[current]
       IN  /\ watcher' = [watcher EXCEPT ![current] =
                              IF w = "running" THEN "stopping" ELSE w]
           /\ callback' = [callback EXCEPT ![b] =
                              IF w \in {"running", "deaf"} THEN "wait"
                              ELSE "install"]
    /\ UNCHANGED <<fileVars, providerVars, mu, current, local, advertised,
                   request>>

\* The goroutine of the instance that is being closed ends.
WatcherStops ==
    /\ watcher[current] = "stopping"
    /\ watcher' = [watcher EXCEPT ![current] = "stopped"]
    /\ UNCHANGED <<fileVars, providerVars, mu, current, armed, callback, local,
                   advertised, request>>

\* p.Close after the wait, with p.mu held all along.
ResetWaits(b) ==
    /\ callback[b] = "wait"
    /\ watcher[current] = "stopped"
    /\ watcher' = [watcher EXCEPT ![current] = "closed"]
    /\ callback' = [callback EXCEPT ![b] = "install"]
    /\ UNCHANGED <<fileVars, providerVars, mu, current, armed, local,
                   advertised, request>>

\* New watchers, the default context, and the deferred Unlock.
ResetInstalls(b) ==
    /\ callback[b] = "install"
    /\ current' = current + 1
    /\ watcher' = [watcher EXCEPT ![current + 1] = "new"]
    /\ defaultContext' = Resolve(loaded, NoContext)
    /\ mu' = Absent
    /\ callback' = [callback EXCEPT ![b] = "watch"]
    /\ UNCHANGED <<fileVars, managers, loaded, since, armed, local, advertised,
                   request>>

\* WatchTargets reads p.kubeconfigWatcher, without p.mu; it runs after reset
\* and again at the end of every reload.
WatchTargets(b) ==
    /\ callback[b] \in {"watch", "rewatch"}
    /\ local' = [local EXCEPT ![b] = current]
    /\ callback' = [callback EXCEPT ![b] =
                        IF @ = "watch" THEN "start" ELSE "restart"]
    /\ UNCHANGED <<fileVars, providerVars, mu, watchVars, advertised, request>>

\* Watch on the instance it read, which reset may have closed meanwhile.
StartWatcher(b) ==
    /\ callback[b] \in {"start", "restart"}
    /\ \E w \in Watched(watcher[local[b]]) :
            watcher' = [watcher EXCEPT ![local[b]] = w]
    /\ local' = [local EXCEPT ![b] = 0]
    /\ callback' = [callback EXCEPT ![b] =
                        IF @ = "start" THEN "reload" ELSE "idle"]
    /\ UNCHANGED <<fileVars, providerVars, mu, current, armed, advertised,
                   request>>

\* reload: the tools' schemas get the default target (applyToolsets, which
\* ends with another WatchTargets).
Reload(b) ==
    /\ callback[b] = "reload"
    /\ mu = Absent
    /\ advertised' = defaultContext
    /\ callback' = [callback EXCEPT ![b] = "rewatch"]
    /\ UNCHANGED <<fileVars, providerVars, mu, watchVars, local, request>>

-----------------------------------------------------------------------------
\* The file is written; every running instance gets an event, and one that is
\* stopping may still take it.
Write ==
    /\ version < MaxWrites
    /\ version' = version + 1
    /\ content' \in Content \cup {Broken}
    /\ \E W \in {{"running"}, {"running", "stopping"}} :
        armed' = [i \in Instance |-> armed[i] \/ watcher[i] \in W]
    /\ UNCHANGED <<providerVars, mu, current, watcher, callback, local,
                   advertised, request>>

RequestStep(r) == Lookup(r) \/ Create(r) \/ Return(r)

CallbackStep(b) ==
    \/ ResetFails(b) \/ ResetLoads(b) \/ ResetCloses(b) \/ ResetWaits(b)
    \/ ResetInstalls(b) \/ WatchTargets(b) \/ StartWatcher(b) \/ Reload(b)

Next == \/ \E r \in Request : Call(r) \/ RequestStep(r)
        \/ \E b \in Callback : \/ CallbackStep(b) \/ ClusterCallback(b)
                               \/ \E i \in Instance : TimerFires(i, b)
        \/ WatcherStops
        \/ Write

SafeSpec == Init /\ [][Next]_vars

\* Goroutines that can run do run (resets are bounded, so that p.mu is free in
\* the end and weak fairness is enough for those that wait for it).
Spec == /\ SafeSpec
        /\ \A b \in Callback : WF_vars(CallbackStep(b))
        /\ \A r \in Request : WF_vars(RequestStep(r))
        /\ WF_vars(WatcherStops)

-----------------------------------------------------------------------------
(* Properties.                                                              *)

\* The types of the provider's fields and of the goroutines' control states.
TypeOK ==
    /\ content \in Content \cup {Broken}
    /\ version \in Version
    /\ managers \in [Key -> Version \cup {Absent, Lazy}]
    /\ defaultContext \in Context
    /\ loaded \in Content
    /\ since \in Version
    /\ mu \in Callback \cup {Absent}
    /\ current \in Instance
    /\ watcher \in [Instance -> WatcherState]
    /\ armed \in [Instance -> BOOLEAN]
    /\ callback \in [Callback -> {"idle", "reset", "close", "wait", "install",
                                  "watch", "start", "reload", "rewatch", "restart"}]
    /\ local \in [Callback -> Instance]
    /\ advertised \in Context
    /\ request \in [Request -> [at : {"idle", "lookup", "miss", "using"},
                                target : Key,
                                manager : Version \cup {Absent}]]

\* managerForContext dereferences p.managers[p.defaultContext] without a nil
\* check: whenever p.mu is free the default context has a manager.
DefaultHasManager ==
    mu = Absent => managers[defaultContext] \in Version

\* Once reset has read a file, no lookup creates or keeps a manager built from
\* an older one, whatever calls were in the middle of managerForContext.
NoStaleManager == \A k \in Key : managers[k] \in Version => managers[k] >= since

\* Every context of the file that was loaded is a target, and a target is one
\* of them, the empty name, or a context a call has found in a newer file.
TargetsCoverContexts ==
    /\ loaded.contexts \subseteq Targets
    /\ \A k \in Targets \ (loaded.contexts \cup {NoContext}) :
            managers[k] > since

\* When no callback is running, the default target in the tools' schemas is
\* the one a call without a context argument is sent to.
AdvertisedDefault ==
    (\A b \in Callback : callback[b] = "idle") =>
        advertised = defaultContext

\* A reset waits, with p.mu held, for the goroutine of a watcher that has
\* none: Close of an instance whose Watch returned early.
WaitsForDeaf ==
    \E b \in Callback : callback[b] = "wait" /\ watcher[current] = "deaf"

\* Every callback finishes and every call returns: what reset waits for while
\* it holds p.mu does not need p.mu, whatever timers, writes, reloads and
\* lookups compete with it.  The exception is the early return of Watch; a
\* reset that meets such an instance blocks the provider for good.
NobodyIsStuck ==
    /\ \A b \in Callback :
            callback[b] # "idle" ~> (callback[b] = "idle" \/ WaitsForDeaf)
    /\ \A r \in Request :
            request[r].at # "idle" ~> (request[r].at = "idle" \/ WaitsForDeaf)

\* Without the exception: a reset always gets through.  The code does not keep
\* this.
ResetsEnd == \A b \in Callback : callback[b] = "wait" ~> callback[b] = "install"

\* "IsMultiTarget reports whether the provider is configured for multiple
\* targets": it agrees with the number of contexts in the kubeconfig.
\* It does not hold: a call with the empty context name adds an entry.
MultiTargetMatchesKubeconfig ==
    mu = Absent /\ content = loaded =>
        (IsMultiTarget <=> Cardinality(loaded.contexts) > 1)
=============================================================================
