---------------------- MODULE KubeconfigProviderProofs ----------------------
(***************************************************************************)
(* What tool calls may rely on while the kubeconfig provider is reset, for  *)
(* every set of contexts, files, calls and callbacks and every bound.       *)
(* The properties speak of the file the last reset read; IInv adds that     *)
(* nothing newer than the file is in the map, that an unchanged file is the *)
(* loaded one, and what holds between the steps of a reset.                 *)
(***************************************************************************)
EXTENDS KubeconfigProvider, TLAPS

\* The file and what reset read of it.
Read == /\ content \in Content \cup {Broken}
        /\ version \in Version
        /\ loaded \in Content
        /\ since \in Version /\ since <= version
        /\ since = version => content = loaded

\* The map: every manager was built from the loaded version or a newer one,
\* and the context the loaded file resolves to has one.
Map == /\ managers \in [Key -> Version \cup {Absent, Lazy}]
       /\ \A k \in Key : managers[k] \in Version =>
             since <= managers[k] /\ managers[k] <= version
       /\ Resolve(loaded, NoContext) \in loaded.contexts
       /\ managers[Resolve(loaded, NoContext)] \in Version

\* p.mu is held by the callback between ResetLoads and ResetInstalls, and the
\* default context is behind the map only in between.
Locked == /\ callback = [b \in Callback |-> callback[b]]
          /\ \A b \in Callback :
                callback[b] \in {"close", "wait", "install"} => mu = b
          /\ mu = Absent => defaultContext = Resolve(loaded, NoContext)

Calls == request \in [Request -> [at : {"idle", "lookup", "miss", "using"},
                                  target : Key,
                                  manager : Version \cup {Absent}]]

IInv == Read /\ Map /\ Locked /\ Calls /\ TargetsCoverContexts

\* Resolve finds a context of the file or none, and a given name only itself.
LEMMA ResolveFinds ==
    ASSUME NEW f, NEW n, Resolve(f, n) # NoContext
    PROVE  /\ f # Broken
           /\ Resolve(f, n) \in f.contexts
           /\ n # NoContext => Resolve(f, n) = n
BY DEF Resolve

\* The contexts of a file are contexts.
LEMMA FileContexts ==
    ASSUME NEW f \in Content
    PROVE  f.contexts \subseteq Context
BY ContentAssumption

\* The map reset installs satisfies what is asked of the map.
LEMMA FreshMap ==
    ASSUME NEW f \in Content, NEW d \in f.contexts, NEW v \in Version
    PROVE  /\ Fresh(f, d, v) \in [Key -> Version \cup {Absent, Lazy}]
           /\ Fresh(f, d, v)[d] = v
           /\ \A k \in Key : Fresh(f, d, v)[k] \in Version => Fresh(f, d, v)[k] = v
           /\ \A k \in Key : Fresh(f, d, v)[k] # Absent <=> k \in f.contexts
<1>1. d \in Key
  BY FileContexts DEF Key
<1> QED
  BY <1>1, NameAssumption DEF Fresh

\* IInv holds at the start.
LEMMA InitIInv == Init => IInv
<1> SUFFICES ASSUME Init
             PROVE  IInv
  OBVIOUS
<1> USE DEF Init
<1> DEFINE d == Resolve(content, NoContext)
<1>1. content \in Content /\ d \in content.contexts
  BY ResolveFinds
<1>2. 0 \in Version
  BY BoundAssumption DEF Version
<1>3. Read
  BY <1>1, <1>2 DEF Read, Version
<1>4. Map
  <2> HIDE DEF d
  <2>1. managers = Fresh(content, d, 0)
    BY DEF d
  <2>2. content.contexts \subseteq Key
    BY <1>1, FileContexts DEF Key
  <2>3. \A k \in Key : managers[k] \in Version => managers[k] = 0
    BY <2>1, <1>1, <1>2, FreshMap
  <2> QED
    BY <1>1, <1>2, <2>1, <2>3, FreshMap DEF Map, d, Version
<1>5. Locked
  BY DEF Locked
<1>6. Calls
  BY DEF Calls, NoRequest, Key
<1>7. TargetsCoverContexts
  <2> HIDE DEF d
  <2>1. managers = Fresh(content, d, 0)
    BY DEF d
  <2>2. content.contexts \subseteq Key
    BY <1>1, FileContexts DEF Key
  <2>3. Targets = content.contexts
    BY <1>1, <1>2, <2>1, <2>2, FreshMap DEF Targets
  <2> QED
    BY <2>3 DEF TargetsCoverContexts
<1> QED
  BY <1>3, <1>4, <1>5, <1>6, <1>7 DEF IInv

\* IInv is kept by every step.
LEMMA NextIInv == IInv /\ [Next]_vars => IInv'
<1> SUFFICES ASSUME IInv, [Next]_vars
             PROVE  IInv'
  OBVIOUS
<1> USE DEF IInv, fileVars, providerVars, watchVars
\* Steps of a call that leave the map alone.
<1>1. ASSUME NEW r \in Request, Call(r) \/ Lookup(r) \/ Return(r)
      PROVE  IInv'
  <2>1. Calls'
    <3>1. CASE Call(r)
      BY <3>1 DEF Call, Calls
    <3>2. CASE Lookup(r)
      <4> DEFINE m == managers[request[r].target]
                 a == IF m \in {Absent, Lazy} THEN "miss" ELSE "using"
                 g == IF m \in {Absent, Lazy} THEN Absent ELSE m
      <4>1. request[r].target \in Key
        BY DEF Calls
      <4>2. m \in Version \cup {Absent, Lazy}
        BY <4>1 DEF Map
      <4>3. a \in {"miss", "using"} /\ g \in Version \cup {Absent}
        BY <4>2
      <4>4. request' = [request EXCEPT ![r].at = a, ![r].manager = g]
        BY <3>2 DEF Lookup
      <4> HIDE DEF m, a, g
      <4> QED
        BY <4>3, <4>4 DEF Calls
    <3>3. CASE Return(r)
      BY <3>3 DEF Return, Calls, NoRequest, Key
    <3> QED
      BY <1>1, <3>1, <3>2, <3>3
  <2> QED
    BY <1>1, <2>1 DEF Call, Lookup, Return, Read, Map, Locked,
              TargetsCoverContexts, Targets
<1>2. ASSUME NEW r \in Request, Create(r)
      PROVE  IInv'
  <2> DEFINE t == request[r].target
  <2> USE <1>2
  <2>1. t \in Key /\ version \in Version /\ UNCHANGED <<content, version, loaded,
            since, mu, callback, defaultContext>>
    BY DEF Create, Calls, Read
  <2>2. CASE UNCHANGED managers
    <3>1. Calls'
      BY <2>1, <2>2, NameAssumption DEF Create, Calls, Map, NoRequest, Key
    <3> QED
      BY <2>1, <2>2, <3>1 DEF Read, Map, Locked, TargetsCoverContexts, Targets
  <2>3. CASE /\ managers[t] \in {Absent, Lazy}
             /\ Resolve(content, t) # NoContext
             /\ managers' = [managers EXCEPT ![t] = version]
             /\ request' = [request EXCEPT ![r].at = "using",
                                           ![r].manager = version]
    <3>1. Calls'
      BY <2>1, <2>3 DEF Calls
    <3>2. Map'
      <4>1. Resolve(loaded, NoContext) \in Key
        BY FileContexts DEF Map, Read, Key
      <4>2. managers' \in [Key -> Version \cup {Absent, Lazy}]
        BY <2>1, <2>3 DEF Map
      <4>3. \A k \in Key : managers'[k] = IF k = t THEN version ELSE managers[k]
        BY <2>1, <2>3 DEF Map
      <4>4. since <= version /\ version <= version
        BY DEF Read, Version
      <4> QED
        BY <2>1, <4>1, <4>2, <4>3, <4>4 DEF Map
    <3>3. TargetsCoverContexts'
      <4>1. Targets' = Targets \cup {t}
        BY <2>1, <2>3, NameAssumption DEF Targets, Map
      <4>2. t \notin loaded.contexts \cup {NoContext} => version > since
        <5>1. CASE since = version
          <6>1. content = loaded
            BY <5>1 DEF Read
          <6> QED
            BY <2>3, <6>1, ResolveFinds
        <5>2. CASE since # version
          BY <5>2 DEF Read, Version
        <5> QED
          BY <5>1, <5>2
      <4> QED
        BY <2>1, <2>3, <4>1, <4>2 DEF TargetsCoverContexts, Map, Targets
    <3> QED
      BY <2>1, <3>1, <3>2, <3>3 DEF Read, Locked
  <2> QED
    BY <2>2, <2>3 DEF Create
<1>3. ASSUME NEW b \in Callback, ResetLoads(b)
      PROVE  IInv'
  <2> DEFINE d == Resolve(content, NoContext)
  <2> USE <1>3
  <2>1. content \in Content /\ d \in content.contexts
    BY ResolveFinds DEF ResetLoads, Read
  <2>2. content.contexts \subseteq Key
    BY <2>1, FileContexts DEF Key
  <2>3. /\ managers' = Fresh(content, d, version)
        /\ loaded' = content /\ since' = version
        /\ UNCHANGED <<content, version, request>>
        /\ version \in Version
    BY DEF ResetLoads, Read
  <2>4. Read'
    BY <2>1, <2>3 DEF Read, Version
  <2> HIDE DEF d
  <2>5. \A k \in Key : managers'[k] \in Version => managers'[k] = version
    BY <2>1, <2>3, FreshMap
  <2>6. Map'
    BY <2>1, <2>2, <2>3, <2>5, FreshMap DEF Map, Version, d
  <2>7. Targets' = content.contexts
    BY <2>1, <2>2, <2>3, FreshMap DEF Targets
  <2>8. TargetsCoverContexts'
    BY <2>3, <2>7 DEF TargetsCoverContexts
  <2>9. Locked'
    BY NameAssumption DEF ResetLoads, Locked
  <2> QED
    BY <2>3, <2>4, <2>6, <2>8, <2>9 DEF Calls
<1>4. ASSUME NEW b \in Callback, ResetInstalls(b)
      PROVE  IInv'
  <2>1. Locked'
    BY <1>4 DEF ResetInstalls, Locked
  <2> QED
    BY <1>4, <2>1 DEF ResetInstalls, Read, Map, Calls, TargetsCoverContexts,
              Targets
\* Steps of a callback outside the critical section, and Close within it.
<1>5. ASSUME NEW b \in Callback,
             \/ ResetFails(b) \/ ResetCloses(b) \/ ResetWaits(b)
             \/ WatchTargets(b) \/ StartWatcher(b) \/ Reload(b) \/ ClusterCallback(b)
             \/ \E i \in Instance : TimerFires(i, b)
      PROVE  IInv'
  <2>1. Locked'
    BY <1>5 DEF ResetFails, ResetCloses, ResetWaits, WatchTargets,
              StartWatcher, Reload, ClusterCallback, TimerFires, Locked
  <2>2. UNCHANGED <<content, version, managers, loaded, since, request>>
    BY <1>5 DEF ResetFails, ResetCloses, ResetWaits, WatchTargets,
              StartWatcher, Reload, ClusterCallback, TimerFires
  <2>3. Read' /\ Calls'
    BY <2>2 DEF Read, Calls
  <2>4. Map'
    BY <2>2 DEF Map
  <2>5. TargetsCoverContexts'
    BY <2>2 DEF TargetsCoverContexts, Targets
  <2> QED
    BY <2>1, <2>3, <2>4, <2>5
<1>6. CASE Write
  <2>1. Read'
    BY <1>6, BoundAssumption DEF Write, Read, Version
  <2>2. Map'
    BY <1>6 DEF Write, Map, Read, Version
  <2> QED
    BY <1>6, <2>1, <2>2 DEF Write, Locked, Calls, TargetsCoverContexts, Targets
<1>7. CASE WatcherStops \/ UNCHANGED vars
  BY <1>7 DEF WatcherStops, vars, Read, Map, Locked, Calls, TargetsCoverContexts, Targets
<1> QED
  BY <1>1, <1>2, <1>3, <1>4, <1>5, <1>6, <1>7
     DEF Next, RequestStep, CallbackStep

\* IInv is an invariant of every behaviour.
LEMMA Invariant == SafeSpec => []IInv
BY InitIInv, NextIInv, PTL DEF SafeSpec

\* Whenever p.mu is free, managerForContext finds a manager for the default
\* context, which it dereferences without a nil check.
THEOREM DefaultManager == SafeSpec => []DefaultHasManager
<1>1. IInv => DefaultHasManager
  BY DEF IInv, Locked, Map, DefaultHasManager
<1> QED
  BY <1>1, Invariant, PTL

\* No call leaves a manager of an older file in the map after a reset.
THEOREM Fresher == SafeSpec => []NoStaleManager
<1>1. IInv => NoStaleManager
  BY DEF IInv, Map, Read, Version, NoStaleManager
<1> QED
  BY <1>1, Invariant, PTL

\* The targets are the loaded contexts, the empty name and contexts that were
\* found in a newer file.
THEOREM Covered == SafeSpec => []TargetsCoverContexts
BY Invariant, PTL DEF IInv

\* A reload that will tell the tools the default target is on its way.
Pending == advertised # defaultContext =>
             \E b \in Callback : callback[b] \in {"watch", "start", "reload"}

\* When all callbacks are idle, the tools' schemas name the context that a call
\* without a context argument is sent to, however resets and reloads overlap.
THEOREM Advertised == SafeSpec => []AdvertisedDefault
<1> USE DEF fileVars, providerVars, watchVars
<1>1. Init => Pending
  BY DEF Init, Pending
<1>2. IInv /\ Pending /\ [Next]_vars => Pending'
  <2> SUFFICES ASSUME IInv, Pending, [Next]_vars
               PROVE  Pending'
    OBVIOUS
  <2>1. callback = [b \in Callback |-> callback[b]]
    BY DEF IInv, Locked
  <2>2. ASSUME NEW r \in Request, Call(r) \/ RequestStep(r)
        PROVE  Pending'
    BY <2>2 DEF Pending, RequestStep, Call, Lookup, Create, Return
  <2>3. ASSUME NEW b \in Callback, ResetInstalls(b)
        PROVE  Pending'
    <3>1. callback'[b] = "watch"
      BY <2>1, <2>3 DEF ResetInstalls
    <3> QED
      BY <3>1 DEF Pending
  <2>4. ASSUME NEW b \in Callback, Reload(b)
        PROVE  Pending'
    BY <2>4 DEF Reload, Pending
  \* The callback that is on its way is not b, or b stays on its way.
  <2>5. ASSUME NEW b \in Callback,
               \/ ResetFails(b) \/ ResetLoads(b) \/ ResetCloses(b)
               \/ ResetWaits(b) \/ WatchTargets(b) \/ StartWatcher(b) \/ ClusterCallback(b)
               \/ \E i \in Instance : TimerFires(i, b)
        PROVE  Pending'
    <3>1. UNCHANGED <<advertised, defaultContext>>
      BY <2>5 DEF ResetFails, ResetLoads, ResetCloses, ResetWaits,
                WatchTargets, StartWatcher, ClusterCallback, TimerFires
    <3>2. \A c \in Callback : callback[c] \in {"watch", "start", "reload"} =>
                                callback'[c] \in {"watch", "start", "reload"}
      BY <2>1, <2>5 DEF ResetFails, ResetLoads, ResetCloses, ResetWaits,
                WatchTargets, StartWatcher, ClusterCallback, TimerFires
    <3> QED
      BY <3>1, <3>2 DEF Pending
  <2>6. CASE Write \/ WatcherStops \/ UNCHANGED vars
    BY <2>6 DEF Write, WatcherStops, vars, Pending
  <2> QED
    BY <2>2, <2>3, <2>4, <2>5, <2>6 DEF Next, CallbackStep
<1>3. Pending => AdvertisedDefault
  BY DEF Pending, AdvertisedDefault
<1> QED
  BY <1>1, <1>2, <1>3, Invariant, PTL DEF SafeSpec
=============================================================================
