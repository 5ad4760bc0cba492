------------------------ MODULE ToolsetReloadProofs ------------------------
(***************************************************************************)
(* Proofs about the reload protocol of ToolsetReload, for every set of      *)
(* configurations, provider states, names, callers and calls.               *)
(*                                                                         *)
(* None of the properties is inductive by itself.  The invariant IInv adds   *)
(* to the types: who holds reloadMu (Exclusion), what can have happened      *)
(* before the server serves (Startup), that the configuration being applied  *)
(* is the candidate or, for a re-apply, still the live one (Pinned), how far *)
(* the surface has been collected (Collected), and how far it has been       *)
(* moved into the SDK (Committed).                                           *)
(***************************************************************************)
EXTENDS ToolsetReload, TLAPS

\* A goroutine is between Lock and Unlock exactly when it holds reloadMu.
Exclusion == \A p \in Caller : pc[p] \in Critical <=> reloadMu = p

\* The server serves once NewServer's own call of applyToolsets returned.
Startup ==
    /\ server # "serving" => /\ ~ watching
                             /\ \A p \in Caller \ {Main} : pc[p] = Idle
                             /\ \A h \in Call : call[h].at = Idle
    /\ server # "starting" => pc[Main] = Idle
    /\ server = "starting" => candidate[Main] = configuration

Pinned ==
    \A p \in Caller :
        /\ pc[p] \in Critical =>
              cfg[p] = IF candidate[p] = Nil THEN configuration ELSE candidate[p]
        /\ pc[p] \in {"bookkeeping", "watch"} => cfg[p] = configuration
        /\ p \in Reloader /\ pc[p] # Idle => candidate[p] # Nil
        /\ p \in Watcher => candidate[p] = Nil

BuiltFrom(p, k, n) ==
    \E t \in Target : built[p][k][n] = Surface(cfg[p], t, k, n)

CollectedAt(p, k, n) ==
    /\ pc[p] = "collect" /\ (k < kind[p] \/ (k = kind[p] /\ n \notin todo[p]))
          => BuiltFrom(p, k, n)
    /\ pc[p] \in Critical \ {"collect"} => BuiltFrom(p, k, n)
    /\ pc[p] \in Critical \ {"collect", "convert"} => built[p][k][n] \notin Bad

Collected == \A p \in Caller, k \in Kind, n \in Name : CollectedAt(p, k, n)

\* The registry and the bookkeeping of kind k before it is committed.
Settled(k) ==
    /\ Names(sdk[k]) = enabled[k]
    /\ server = "serving" =>
          \A n \in Name : \E t \in Target :
              sdk[k][n] = Surface(configuration, t, k, n)

CommittedBy(p) ==
    /\ pc[p] \in BeforeCommit => \A k \in Kind : Settled(k)
    /\ pc[p] \in Committing => \A k \in Kind :
          /\ previous[p][k] = enabled[k]
          /\ k < kind[p] => sdk[k] = built[p][k]
          /\ k > kind[p] => Names(sdk[k]) = enabled[k]
    /\ pc[p] = "remove" => Names(sdk[kind[p]]) = enabled[kind[p]]
    /\ pc[p] = "add" => \A n \in Name \ todo[p] :
          sdk[kind[p]][n] = built[p][kind[p]][n]
    /\ pc[p] \in AfterCommit => \A k \in Kind : sdk[k] = built[p][k]
    /\ pc[p] = "watch" => \A k \in Kind : enabled[k] = Names(built[p][k])

Committed == /\ reloadMu = Nil => \A k \in Kind : Settled(k)
             /\ \A p \in Caller : CommittedBy(p)

\* The live configuration is warm whenever it can be read.
Warmed ==
    /\ server = "serving" => warm
    /\ \A p \in Caller : /\ pc[p] \in {"store", "bookkeeping", "watch"} => cfgWarm[p]
                         /\ pc[p] \in {"bookkeeping", "watch"} => warm
    /\ SnapshotsAreWarm

\* A call holds a snapshot exactly while it runs.
Holding == \A h \in Call : call[h].snapshot # Nil <=> call[h].at = "running"

IInv == /\ TypeOK /\ Exclusion /\ Startup /\ Pinned /\ Collected /\ Committed
        /\ NothingRefusedIsServed /\ Warmed /\ Holding

-----------------------------------------------------------------------------
\* NewServer's initial state has the right types.
LEMMA InitTypes == Init => TypeOK
<1> SUFFICES ASSUME Init PROVE TypeOK
  OBVIOUS
<1> USE DEF Init
<1>1. /\ sdk \in Registry /\ built \in [Caller -> Registry]
      /\ enabled \in [Kind -> SUBSET Name]
      /\ previous \in [Caller -> [Kind -> SUBSET Name]]
      /\ kind \in [Caller -> Kind] /\ todo \in [Caller -> SUBSET Name]
  BY DEF Registry, Empty, Kind, Tools, LastKind
<1>2. /\ pc \in [Caller -> {Idle, "lock"} \cup Critical]
      /\ candidate \in [Caller -> Config \cup {Nil}]
      /\ cfg \in [Caller -> Config \cup {Nil}]
      /\ configuration \in Config
  OBVIOUS
<1>3. /\ warm \in BOOLEAN /\ watching \in BOOLEAN
      /\ cfgWarm \in [Caller -> BOOLEAN]
  OBVIOUS
<1>4. call \in [Call -> CallRecord]
  BY DEF CallRecord, NoCall, Idle
<1> QED
  BY <1>1, <1>2, <1>3, <1>4 DEF TypeOK

\* Only Store needs more than the types: the configuration it publishes was
\* pinned under the lock.
LEMMA TypesStep == TypeOK /\ Pinned /\ [Next]_vars => TypeOK'
<1> SUFFICES ASSUME TypeOK, Pinned, [Next]_vars PROVE TypeOK'
  OBVIOUS
<1> USE DEF TypeOK
<1>1. ASSUME NEW p \in Reloader, ReloadConfiguration(p) PROVE TypeOK'
  BY <1>1 DEF ReloadConfiguration, Caller, serverVars, Idle
<1>2. ASSUME NEW p \in Watcher, ReapplyToolsets(p) PROVE TypeOK'
  BY <1>2 DEF ReapplyToolsets, Caller, serverVars, Idle
<1>3. ASSUME NEW p \in Caller, Lock(p) PROVE TypeOK'
  BY <1>3 DEF Lock, serverVars, Critical, BeforeCommit, Kind, Tools, LastKind
<1>4. ASSUME NEW p \in Caller, Collect(p) PROVE TypeOK'
  <2> PICK n \in todo[p] :
        built' = [built EXCEPT ![p][kind[p]][n] =
                                    Surface(cfg[p], target, kind[p], n)]
    BY <1>4 DEF Collect
  <2>1. cfg[p] \in Config
    BY <1>4 DEF Pinned, Collect, Critical, BeforeCommit
  <2>2. Surface(cfg[p], target, kind[p], n) \in Item \cup {Nil}
    BY <2>1, SurfaceAssumption
  <2>3. built' \in [Caller -> Registry]
    BY <2>2 DEF Registry
  <2> QED
    BY <1>4, <2>3 DEF Collect, serverVars
<1>5. ASSUME NEW p \in Caller, CollectNextKind(p) PROVE TypeOK'
  <2>1. CASE kind[p] < LastKind
    <3>1. kind[p] + 1 \in Kind
      BY <2>1 DEF Kind, Tools, LastKind
    <3>2. /\ kind' = [kind EXCEPT ![p] = kind[p] + 1]
          /\ todo' = [todo EXCEPT ![p] = Name]
          /\ pc' = pc
      BY <1>5, <2>1 DEF CollectNextKind
    <3>3. kind' \in [Caller -> Kind]
      BY <3>1, <3>2
    <3>4. todo' \in [Caller -> SUBSET Name]
      BY <3>2
    <3> QED
      BY <1>5, <3>2, <3>3, <3>4 DEF CollectNextKind, serverVars
  <2>2. CASE ~ (kind[p] < LastKind)
    BY <1>5, <2>2 DEF CollectNextKind, serverVars, Critical, BeforeCommit
  <2> QED
    BY <2>1, <2>2
<1>6. ASSUME NEW p \in Caller, ConvertFails(p) PROVE TypeOK'
  BY <1>6 DEF ConvertFails, Unlock, serverVars, Kind, Tools, LastKind,
     Registry, Empty, Idle
<1>7. ASSUME NEW p \in Caller, Convert(p) PROVE TypeOK'
  BY <1>7 DEF Convert, serverVars, localVars, Critical, BeforeCommit
<1>8. ASSUME NEW p \in Caller, ReadPrevious(p) PROVE TypeOK'
  BY <1>8 DEF ReadPrevious, serverVars, Critical, Committing, Kind, Tools,
     LastKind
<1>9. ASSUME NEW p \in Caller, CommitRemove(p) PROVE TypeOK'
  BY <1>9 DEF CommitRemove, serverVars, Critical, Committing, Registry, Names
<1>10. ASSUME NEW p \in Caller, CommitAdd(p) PROVE TypeOK'
  BY <1>10 DEF CommitAdd, Registry
<1>11. ASSUME NEW p \in Caller, CommitNextKind(p) PROVE TypeOK'
  <2>1. CASE kind[p] < LastKind
    <3>1. kind[p] + 1 \in Kind
      BY <2>1 DEF Kind, Tools, LastKind
    <3> QED
      BY <1>11, <2>1, <3>1 DEF CommitNextKind, serverVars, Critical, Committing
  <2>2. CASE ~ (kind[p] < LastKind)
    BY <1>11, <2>2 DEF CommitNextKind, serverVars, Critical, AfterCommit
  <2> QED
    BY <2>1, <2>2
<1>12. ASSUME NEW p \in Caller, WarmCaches(p) PROVE TypeOK'
  BY <1>12 DEF WarmCaches, serverVars, Critical, AfterCommit
<1>13. ASSUME NEW p \in Caller, Store(p) PROVE TypeOK'
  <2>1. cfg[p] \in Config
    BY <1>13 DEF Pinned, Store, Critical, AfterCommit
  <2> QED
    BY <1>13, <2>1 DEF Store, localVars, Critical, AfterCommit
<1>14. ASSUME NEW p \in Caller, Bookkeeping(p) PROVE TypeOK'
  BY <1>14 DEF Bookkeeping, localVars, Critical, AfterCommit, Names
<1>15. ASSUME NEW p \in Caller, WatchTargets(p) PROVE TypeOK'
  BY <1>15 DEF WatchTargets, Unlock, serverVars, Kind, Tools, LastKind,
     Registry, Empty, Idle
<1>16. ASSUME NEW h \in Call, Dispatch(h) PROVE TypeOK'
  <2> PICK n \in Names(sdk[Tools]) :
        call' = [call EXCEPT ![h].at = "dispatched", ![h].item = sdk[Tools][n]]
    BY <1>16 DEF Dispatch
  <2>1. sdk[Tools][n] \in Item \cup {Nil}
    BY DEF Registry, Names, Kind, Tools, LastKind
  <2>2. call' \in [Call -> CallRecord]
    BY <2>1 DEF CallRecord
  <2> QED
    BY <1>16, <2>2 DEF Dispatch, serverVars, localVars
<1>17. ASSUME NEW h \in Call, Snapshot(h) PROVE TypeOK'
  <2>1. call' \in [Call -> CallRecord]
    <3> DEFINE c == [call[h] EXCEPT !.at = "running", !.snapshot = configuration,
                                    !.warm = warm]
    <3>1. c \in CallRecord
      BY DEF CallRecord
    <3>2. call' = [call EXCEPT ![h] = c]
      BY <1>17 DEF Snapshot
    <3> QED
      BY <3>1, <3>2
  <2> QED
    BY <1>17, <2>1 DEF Snapshot, serverVars, localVars
<1>18. ASSUME NEW h \in Call, Return(h) PROVE TypeOK'
  BY <1>18 DEF Return, serverVars, localVars, CallRecord, NoCall, Idle
<1>19. CASE TargetChanges
  BY <1>19 DEF TargetChanges, serverVars, localVars
<1>20. CASE UNCHANGED vars
  BY <1>20 DEF vars
<1> QED
  BY <1>1, <1>2, <1>3, <1>4, <1>5, <1>6, <1>7, <1>8, <1>9, <1>10, <1>11,
     <1>12, <1>13, <1>14, <1>15, <1>16, <1>17, <1>18, <1>19, <1>20
     DEF Next, ApplyStep

\* The control part: the lock, the start-up and the pinned configuration.
LEMMA ControlStep ==
    TypeOK /\ Exclusion /\ Startup /\ Pinned /\ [Next]_vars
        => Exclusion' /\ Startup' /\ Pinned'
<1> SUFFICES ASSUME TypeOK, Exclusion, Startup, Pinned, [Next]_vars
             PROVE  Exclusion' /\ Startup' /\ Pinned'
  OBVIOUS
<1> USE NilAssumption, CallerAssumption
    DEF TypeOK, Exclusion, Startup, Pinned, Critical, BeforeCommit, Committing,
        AfterCommit, Idle
<1>1. ASSUME NEW p \in Reloader, ReloadConfiguration(p)
      PROVE  Exclusion' /\ Startup' /\ Pinned'
  BY <1>1 DEF ReloadConfiguration, Caller, serverVars
<1>2. ASSUME NEW p \in Watcher, ReapplyToolsets(p)
      PROVE  Exclusion' /\ Startup' /\ Pinned'
  BY <1>2 DEF ReapplyToolsets, Caller, serverVars
<1>3. ASSUME NEW p \in Caller, Lock(p)
      PROVE  Exclusion' /\ Startup' /\ Pinned'
  BY <1>3 DEF Lock, Caller, serverVars
<1>4. ASSUME NEW p \in Caller, Collect(p)
      PROVE  Exclusion' /\ Startup' /\ Pinned'
  BY <1>4 DEF Collect, Caller, serverVars
<1>5. ASSUME NEW p \in Caller, CollectNextKind(p)
      PROVE  Exclusion' /\ Startup' /\ Pinned'
  BY <1>5 DEF CollectNextKind, Caller, serverVars
<1>6. ASSUME NEW p \in Caller, ConvertFails(p)
      PROVE  Exclusion' /\ Startup' /\ Pinned'
  BY <1>6 DEF ConvertFails, Caller, serverVars, Unlock
<1>7. ASSUME NEW p \in Caller, Convert(p)
      PROVE  Exclusion' /\ Startup' /\ Pinned'
  BY <1>7 DEF Convert, Caller, serverVars, localVars
<1>8. ASSUME NEW p \in Caller, ReadPrevious(p)
      PROVE  Exclusion' /\ Startup' /\ Pinned'
  BY <1>8 DEF ReadPrevious, Caller, serverVars
<1>9. ASSUME NEW p \in Caller, CommitRemove(p)
      PROVE  Exclusion' /\ Startup' /\ Pinned'
  BY <1>9 DEF CommitRemove, Caller, serverVars
<1>10. ASSUME NEW p \in Caller, CommitAdd(p)
      PROVE  Exclusion' /\ Startup' /\ Pinned'
  BY <1>10 DEF CommitAdd, Caller, serverVars
<1>11. ASSUME NEW p \in Caller, CommitNextKind(p)
      PROVE  Exclusion' /\ Startup' /\ Pinned'
  BY <1>11 DEF CommitNextKind, Caller, serverVars
<1>12. ASSUME NEW p \in Caller, WarmCaches(p)
      PROVE  Exclusion' /\ Startup' /\ Pinned'
  BY <1>12 DEF WarmCaches, Caller, serverVars
<1>13. ASSUME NEW p \in Caller, Store(p)
      PROVE  Exclusion' /\ Startup' /\ Pinned'
  BY <1>13 DEF Store, Caller, serverVars, localVars
<1>14. ASSUME NEW p \in Caller, Bookkeeping(p)
      PROVE  Exclusion' /\ Startup' /\ Pinned'
  BY <1>14 DEF Bookkeeping, Caller, serverVars, localVars
<1>15. ASSUME NEW p \in Caller, WatchTargets(p)
      PROVE  Exclusion' /\ Startup' /\ Pinned'
  BY <1>15 DEF WatchTargets, Caller, serverVars, Unlock
<1>16. ASSUME NEW h \in Call, Dispatch(h)
      PROVE  Exclusion' /\ Startup' /\ Pinned'
  BY <1>16 DEF Dispatch, serverVars, localVars
<1>17. ASSUME NEW h \in Call, Snapshot(h)
      PROVE  Exclusion' /\ Startup' /\ Pinned'
  BY <1>17 DEF Snapshot, serverVars, localVars
<1>18. ASSUME NEW h \in Call, Return(h)
      PROVE  Exclusion' /\ Startup' /\ Pinned'
  BY <1>18 DEF Return, serverVars, localVars, NoCall
<1>19. CASE TargetChanges
  BY <1>19 DEF TargetChanges, serverVars, localVars
<1>20. CASE UNCHANGED vars
  BY <1>20 DEF vars
<1> QED
  BY <1>1, <1>2, <1>3, <1>4, <1>5, <1>6, <1>7, <1>8, <1>9, <1>10, <1>11, <1>12, <1>13, <1>14, <1>15, <1>16, <1>17, <1>18, <1>19, <1>20
     DEF Next, ApplyStep

\* What has been collected so far is the surface of the pinned configuration,
\* and once converted none of it is refused.
LEMMA CollectedStep ==
    TypeOK /\ Exclusion /\ Pinned /\ Collected /\ [Next]_vars
        => Collected'
<1> SUFFICES ASSUME TypeOK, Exclusion, Pinned, Collected, [Next]_vars
             PROVE  Collected'
  OBVIOUS
<1> USE NilAssumption, CallerAssumption
    DEF TypeOK, Exclusion, Pinned, CollectedAt, BuiltFrom, Critical,
        BeforeCommit, Committing, AfterCommit, Idle
<1>1. ASSUME NEW p \in Reloader, ReloadConfiguration(p)
      PROVE  Collected'
  BY <1>1 DEF Collected, ReloadConfiguration, Caller, serverVars
<1>2. ASSUME NEW p \in Watcher, ReapplyToolsets(p)
      PROVE  Collected'
  BY <1>2 DEF Collected, ReapplyToolsets, Caller, serverVars
<1>3. ASSUME NEW p \in Caller, Lock(p)
      PROVE  Collected'
  <2> SUFFICES ASSUME NEW q \in Caller, NEW k \in Kind, NEW n \in Name
               PROVE  CollectedAt(q, k, n)'
    BY DEF Collected
  <2>1. CASE q # p
    <3>1. pc'[q] = pc[q] /\ pc[q] \notin Critical
      BY <1>3, <2>1 DEF Lock
    <3> QED
      BY <3>1
  <2>2. CASE q = p
    <3>1. pc'[p] = "collect" /\ kind'[p] = 1 /\ todo'[p] = Name
      BY <1>3 DEF Lock, Tools
    <3>2. ~ (k < kind'[p])
      BY <3>1 DEF Kind, Tools, LastKind
    <3> QED
      BY <2>2, <3>1, <3>2
  <2> QED
    BY <2>1, <2>2
<1>4. ASSUME NEW p \in Caller, Collect(p)
      PROVE  Collected'
  <2> SUFFICES ASSUME NEW q \in Caller, NEW k \in Kind, NEW n \in Name
               PROVE  CollectedAt(q, k, n)'
    BY DEF Collected
  <2>1. CASE q # p
    <3>1. pc'[q] = pc[q] /\ pc[q] \notin Critical
      BY <1>4, <2>1 DEF Collect
    <3> QED
      BY <3>1
  <2>2. CASE q = p
    <3> PICK m \in todo[p] :
          /\ built' = [built EXCEPT ![p][kind[p]][m] =
                                      Surface(cfg[p], target, kind[p], m)]
          /\ todo' = [todo EXCEPT ![p] = @ \ {m}]
      BY <1>4 DEF Collect
    <3>1. /\ pc[p] = "collect" /\ pc' = pc /\ kind' = kind /\ cfg' = cfg
          /\ todo'[p] = todo[p] \ {m}
      BY <1>4 DEF Collect
    <3>2. CASE k = kind[p] /\ n = m
      <4>1. built'[p][k][n] = Surface(cfg[p], target, k, n)
        BY <3>2 DEF Registry
      <4> QED
        BY <2>2, <3>1, <4>1
    <3>3. CASE ~ (k = kind[p] /\ n = m)
      <4>1. built'[p][k][n] = built[p][k][n]
        BY <3>3 DEF Registry
      <4>2. CollectedAt(p, k, n)
        BY DEF Collected
      <4> QED
        BY <2>2, <3>1, <3>3, <4>1, <4>2
    <3> QED
      BY <3>2, <3>3
  <2> QED
    BY <2>1, <2>2
<1>5. ASSUME NEW p \in Caller, CollectNextKind(p)
      PROVE  Collected'
  <2> SUFFICES ASSUME NEW q \in Caller, NEW k \in Kind, NEW n \in Name
               PROVE  CollectedAt(q, k, n)'
    BY DEF Collected
  <2>1. CASE q # p
    <3>1. pc'[q] = pc[q] /\ pc[q] \notin Critical
      BY <1>5, <2>1 DEF CollectNextKind
    <3> QED
      BY <3>1
  <2>2. CASE q = p
    <3>1. CollectedAt(p, k, n) /\ built' = built /\ cfg' = cfg
      BY <1>5 DEF CollectNextKind, Collected
    <3>2. pc[p] = "collect" /\ todo[p] = {}
      BY <1>5 DEF CollectNextKind
    <3>3. CASE kind[p] < LastKind
      <4>1. pc'[p] = "collect" /\ kind'[p] = kind[p] + 1 /\ todo'[p] = Name
        BY <1>5, <3>3 DEF CollectNextKind
      <4>2. k < kind[p] + 1 => k < kind[p] \/ k = kind[p]
        BY DEF Kind, Tools, LastKind
      <4> QED
        BY <2>2, <3>1, <3>2, <4>1, <4>2
    <3>4. CASE ~ (kind[p] < LastKind)
      <4>1. pc'[p] = "convert"
        BY <1>5, <3>4 DEF CollectNextKind
      <4>2. k < kind[p] \/ k = kind[p]
        BY <3>4 DEF Kind, Tools, LastKind
      <4> QED
        BY <2>2, <3>1, <3>2, <4>1, <4>2
    <3> QED
      BY <3>3, <3>4
  <2> QED
    BY <2>1, <2>2
<1>6. ASSUME NEW p \in Caller, ConvertFails(p)
      PROVE  Collected'
  BY <1>6 DEF Collected, ConvertFails, Caller, serverVars, Unlock
<1>7. ASSUME NEW p \in Caller, Convert(p)
      PROVE  Collected'
  <2> SUFFICES ASSUME NEW q \in Caller, NEW k \in Kind, NEW n \in Name
               PROVE  CollectedAt(q, k, n)'
    BY DEF Collected
  <2>1. CASE q # p
    <3>1. pc'[q] = pc[q] /\ pc[q] \notin Critical
      BY <1>7, <2>1 DEF Convert
    <3> QED
      BY <3>1
  <2>2. CASE q = p
    <3>1. CollectedAt(p, k, n) /\ built' = built /\ cfg' = cfg
      BY <1>7 DEF Convert, Collected, localVars
    <3>2. built[p][k][n] \notin Bad
      BY <1>7 DEF Convert, Refused
    <3>3. pc[p] = "convert" /\ pc'[p] = "previous"
      BY <1>7 DEF Convert
    <3> QED
      BY <2>2, <3>1, <3>2, <3>3
  <2> QED
    BY <2>1, <2>2
<1>8. ASSUME NEW p \in Caller, ReadPrevious(p)
      PROVE  Collected'
  BY <1>8 DEF Collected, ReadPrevious, Caller, serverVars
<1>9. ASSUME NEW p \in Caller, CommitRemove(p)
      PROVE  Collected'
  BY <1>9 DEF Collected, CommitRemove, Caller, serverVars
<1>10. ASSUME NEW p \in Caller, CommitAdd(p)
      PROVE  Collected'
  BY <1>10 DEF Collected, CommitAdd, Caller, serverVars
<1>11. ASSUME NEW p \in Caller, CommitNextKind(p)
      PROVE  Collected'
  BY <1>11 DEF Collected, CommitNextKind, Caller, serverVars
<1>12. ASSUME NEW p \in Caller, WarmCaches(p)
      PROVE  Collected'
  BY <1>12 DEF Collected, WarmCaches, Caller, serverVars
<1>13. ASSUME NEW p \in Caller, Store(p)
      PROVE  Collected'
  BY <1>13 DEF Collected, Store, Caller, serverVars, localVars
<1>14. ASSUME NEW p \in Caller, Bookkeeping(p)
      PROVE  Collected'
  BY <1>14 DEF Collected, Bookkeeping, Caller, serverVars, localVars
<1>15. ASSUME NEW p \in Caller, WatchTargets(p)
      PROVE  Collected'
  BY <1>15 DEF Collected, WatchTargets, Caller, serverVars, Unlock
<1>16. ASSUME NEW h \in Call, Dispatch(h)
      PROVE  Collected'
  BY <1>16 DEF Collected, Dispatch, serverVars, localVars
<1>17. ASSUME NEW h \in Call, Snapshot(h)
      PROVE  Collected'
  BY <1>17 DEF Collected, Snapshot, serverVars, localVars
<1>18. ASSUME NEW h \in Call, Return(h)
      PROVE  Collected'
  BY <1>18 DEF Collected, Return, serverVars, localVars, NoCall
<1>19. CASE TargetChanges
  BY <1>19 DEF Collected, TargetChanges, serverVars, localVars
<1>20. CASE UNCHANGED vars
  BY <1>20 DEF Collected, vars
<1> QED
  BY <1>1, <1>2, <1>3, <1>4, <1>5, <1>6, <1>7, <1>8, <1>9, <1>10, <1>11, <1>12, <1>13, <1>14, <1>15, <1>16, <1>17, <1>18, <1>19, <1>20
     DEF Next, ApplyStep

\* The registry and the bookkeeping move together, kind by kind and name by name.
LEMMA CommittedStep ==
    TypeOK /\ Exclusion /\ Startup /\ Pinned /\ Collected /\ Committed /\ [Next]_vars
        => Committed'
<1> SUFFICES ASSUME TypeOK, Exclusion, Startup, Pinned, Collected, Committed, [Next]_vars
             PROVE  Committed'
  OBVIOUS
<1> USE NilAssumption, CallerAssumption DEF TypeOK, Exclusion
<1>1. ASSUME NEW p \in Reloader, ReloadConfiguration(p)
      PROVE  Committed'
  BY <1>1 DEF Committed, CommittedBy, Settled, Names, Critical,
     BeforeCommit, Committing, AfterCommit, Idle, Startup, ReloadConfiguration, Caller, serverVars
<1>2. ASSUME NEW p \in Watcher, ReapplyToolsets(p)
      PROVE  Committed'
  BY <1>2 DEF Committed, CommittedBy, Settled, Names, Critical,
     BeforeCommit, Committing, AfterCommit, Idle, Startup, ReapplyToolsets, Caller, serverVars
<1>3. ASSUME NEW p \in Caller, Lock(p)
      PROVE  Committed'
  BY <1>3 DEF Committed, CommittedBy, Settled, Names, Critical,
     BeforeCommit, Committing, AfterCommit, Idle, Startup, Lock, Caller, serverVars
<1>4. ASSUME NEW p \in Caller, Collect(p)
      PROVE  Committed'
  BY <1>4 DEF Committed, CommittedBy, Settled, Names, Critical,
     BeforeCommit, Committing, AfterCommit, Idle, Startup, Collect, Caller, serverVars
<1>5. ASSUME NEW p \in Caller, CollectNextKind(p)
      PROVE  Committed'
  BY <1>5 DEF Committed, CommittedBy, Settled, Names, Critical,
     BeforeCommit, Committing, AfterCommit, Idle, Startup, CollectNextKind, Caller, serverVars
<1>6. ASSUME NEW p \in Caller, ConvertFails(p)
      PROVE  Committed'
  BY <1>6 DEF Committed, CommittedBy, Settled, Names, Critical,
     BeforeCommit, Committing, AfterCommit, Idle, Startup, ConvertFails, Caller, serverVars, Unlock
<1>7. ASSUME NEW p \in Caller, Convert(p)
      PROVE  Committed'
  BY <1>7 DEF Committed, CommittedBy, Settled, Names, Critical,
     BeforeCommit, Committing, AfterCommit, Idle, Startup, Convert, Caller, serverVars, localVars
<1>8. ASSUME NEW p \in Caller, ReadPrevious(p)
      PROVE  Committed'
  <2>1. reloadMu' = p /\ \A q \in Caller \ {p} : pc'[q] \notin Critical
    BY <1>8 DEF ReadPrevious, serverVars, Critical, BeforeCommit, Committing, AfterCommit
  <2>2. SUFFICES CommittedBy(p)'
    BY <2>1 DEF Committed, CommittedBy, Critical, BeforeCommit, Committing,
       AfterCommit
  <2>3. /\ pc[p] = "previous" /\ pc'[p] = "remove" /\ kind'[p] = Tools
        /\ previous'[p] = enabled /\ enabled' = enabled /\ sdk' = sdk
    BY <1>8 DEF ReadPrevious, serverVars
  <2>4. \A k \in Kind : Names(sdk[k]) = enabled[k]
    BY <2>3 DEF Committed, CommittedBy, BeforeCommit, Settled
  <2>5. Tools \in Kind /\ \A k \in Kind : ~ (k < Tools)
    BY DEF Kind, Tools, LastKind
  <2> QED
    BY <2>3, <2>4, <2>5 DEF CommittedBy, BeforeCommit, Committing, AfterCommit,
       Names
<1>9. ASSUME NEW p \in Caller, CommitRemove(p)
      PROVE  Committed'
  <2>1. reloadMu' = p /\ \A q \in Caller \ {p} : pc'[q] \notin Critical
    BY <1>9 DEF CommitRemove, serverVars, Critical, BeforeCommit, Committing, AfterCommit
  <2>2. SUFFICES CommittedBy(p)'
    BY <2>1 DEF Committed, CommittedBy, Critical, BeforeCommit, Committing,
       AfterCommit
  <2> DEFINE k0 == kind[p]
             toRemove == previous[p][k0] \ Names(built[p][k0])
  <2>3. /\ pc[p] = "remove" /\ pc'[p] = "add" /\ kind' = kind /\ built' = built
        /\ previous' = previous /\ enabled' = enabled
        /\ todo'[p] = Names(built[p][k0])
    BY <1>9 DEF CommitRemove
  <2>4. sdk' = [sdk EXCEPT ![k0] = [n \in Name |-> IF n \in toRemove THEN Nil
                                                  ELSE sdk[k0][n]]]
    BY <1>9 DEF CommitRemove
  <2>5. CommittedBy(p)
    BY DEF Committed
  <2>6. ASSUME NEW n \in Name \ todo'[p] PROVE sdk'[k0][n] = built[p][k0][n]
    <3>1. built[p][k0][n] = Nil
      BY <2>3, <2>6 DEF Names
    <3>2. sdk[k0][n] # Nil => n \in previous[p][k0]
      BY <2>3, <2>5 DEF CommittedBy, Names, Committing
    <3>3. n \notin Names(built[p][k0])
      BY <3>1 DEF Names
    <3> QED
      BY <2>4, <3>1, <3>2, <3>3 DEF Registry
  <2>7. \A k \in Kind \ {k0} : sdk'[k] = sdk[k]
    BY <2>4 DEF Registry
  <2>8. ASSUME NEW k \in Kind
        PROVE  /\ previous[p][k] = enabled[k]
               /\ k < k0 => sdk'[k] = built[p][k]
               /\ k > k0 => Names(sdk'[k]) = enabled[k]
    <3>1. k < k0 \/ k > k0 => k # k0
      BY DEF Kind, Tools, LastKind
    <3> QED
      BY <2>3, <2>5, <2>7, <3>1 DEF CommittedBy, Committing
  <2> QED
    BY <2>3, <2>6, <2>8 DEF CommittedBy, BeforeCommit, Committing, AfterCommit,
       Names
<1>10. ASSUME NEW p \in Caller, CommitAdd(p)
      PROVE  Committed'
  <2>1. reloadMu' = p /\ \A q \in Caller \ {p} : pc'[q] \notin Critical
    BY <1>10 DEF CommitAdd, serverVars, Critical, BeforeCommit, Committing, AfterCommit
  <2>2. SUFFICES CommittedBy(p)'
    BY <2>1 DEF Committed, CommittedBy, Critical, BeforeCommit, Committing,
       AfterCommit
  <2> DEFINE k0 == kind[p]
  <2> PICK m \in todo[p] :
        /\ sdk' = [sdk EXCEPT ![k0][m] = built[p][k0][m]]
        /\ todo' = [todo EXCEPT ![p] = @ \ {m}]
    BY <1>10 DEF CommitAdd
  <2>3. /\ pc[p] = "add" /\ pc' = pc /\ kind' = kind /\ built' = built
        /\ previous' = previous /\ enabled' = enabled
        /\ todo'[p] = todo[p] \ {m}
    BY <1>10 DEF CommitAdd
  <2>4. CommittedBy(p)
    BY DEF Committed
  <2>5. ASSUME NEW n \in Name \ todo'[p] PROVE sdk'[k0][n] = built[p][k0][n]
    <3>1. CASE n = m
      BY <3>1 DEF Registry
    <3>2. CASE n # m
      <4>1. sdk'[k0][n] = sdk[k0][n]
        BY <3>2 DEF Registry
      <4> QED
        BY <2>3, <2>4, <2>5, <3>2, <4>1 DEF CommittedBy
    <3> QED
      BY <3>1, <3>2
  <2>6. \A k \in Kind \ {k0} : sdk'[k] = sdk[k]
    BY DEF Registry
  <2>7. ASSUME NEW k \in Kind
        PROVE  /\ previous[p][k] = enabled[k]
               /\ k < k0 => sdk'[k] = built[p][k]
               /\ k > k0 => Names(sdk'[k]) = enabled[k]
    <3>1. k < k0 \/ k > k0 => k # k0
      BY DEF Kind, Tools, LastKind
    <3> QED
      BY <2>3, <2>4, <2>6, <3>1 DEF CommittedBy, Committing
  <2> QED
    BY <2>3, <2>5, <2>7 DEF CommittedBy, BeforeCommit, Committing, AfterCommit,
       Names
<1>11. ASSUME NEW p \in Caller, CommitNextKind(p)
      PROVE  Committed'
  <2>1. reloadMu' = p /\ \A q \in Caller \ {p} : pc'[q] \notin Critical
    BY <1>11 DEF CommitNextKind, serverVars, Critical, BeforeCommit, Committing, AfterCommit
  <2>2. SUFFICES CommittedBy(p)'
    BY <2>1 DEF Committed, CommittedBy, Critical, BeforeCommit, Committing,
       AfterCommit
  <2> DEFINE k0 == kind[p]
  <2>3. /\ pc[p] = "add" /\ todo[p] = {} /\ built' = built /\ sdk' = sdk
        /\ previous' = previous /\ enabled' = enabled
    BY <1>11 DEF CommitNextKind, serverVars
  <2>4. CommittedBy(p)
    BY DEF Committed
  <2>5. sdk[k0] = built[p][k0]
    <3>1. \A n \in Name : sdk[k0][n] = built[p][k0][n]
      BY <2>3, <2>4 DEF CommittedBy
    <3>2. sdk[k0] \in [Name -> Item \cup {Nil}] /\ built[p][k0] \in [Name -> Item \cup {Nil}]
      BY DEF Registry
    <3> QED
      BY <3>1, <3>2
  <2>6. CASE kind[p] < LastKind
    <3>1. pc'[p] = "remove" /\ kind'[p] = k0 + 1
      BY <1>11, <2>6 DEF CommitNextKind
    <3>2. k0 + 1 \in Kind /\ k0 + 1 > k0
      BY <2>6 DEF Kind, Tools, LastKind
    <3>3. \A k \in Kind : /\ k < k0 + 1 => k < k0 \/ k = k0
                          /\ k > k0 + 1 => k > k0
      BY DEF Kind, Tools, LastKind
    <3> QED
      BY <2>3, <2>4, <2>5, <3>1, <3>2, <3>3
         DEF CommittedBy, BeforeCommit, Committing, AfterCommit, Names
  <2>7. CASE ~ (kind[p] < LastKind)
    <3>1. pc'[p] = "warm"
      BY <1>11, <2>7 DEF CommitNextKind
    <3>2. \A k \in Kind : k < k0 \/ k = k0
      BY <2>7 DEF Kind, Tools, LastKind
    <3> QED
      BY <2>3, <2>4, <2>5, <3>1, <3>2
         DEF CommittedBy, BeforeCommit, Committing, AfterCommit
  <2> QED
    BY <2>6, <2>7
<1>12. ASSUME NEW p \in Caller, WarmCaches(p)
      PROVE  Committed'
  BY <1>12 DEF Committed, CommittedBy, Settled, Names, Critical,
     BeforeCommit, Committing, AfterCommit, Idle, Startup, WarmCaches, Caller, serverVars
<1>13. ASSUME NEW p \in Caller, Store(p)
      PROVE  Committed'
  BY <1>13 DEF Committed, CommittedBy, Settled, Names, Critical,
     BeforeCommit, Committing, AfterCommit, Idle, Startup, Store, Caller, serverVars, localVars
<1>14. ASSUME NEW p \in Caller, Bookkeeping(p)
      PROVE  Committed'
  BY <1>14 DEF Committed, CommittedBy, Settled, Names, Critical,
     BeforeCommit, Committing, AfterCommit, Idle, Startup, Bookkeeping, Caller, serverVars, localVars
<1>15. ASSUME NEW p \in Caller, WatchTargets(p)
      PROVE  Committed'
  <2>1. pc[p] = "watch" /\ pc'[p] = Idle /\ sdk' = sdk /\ enabled' = enabled
        /\ configuration' = configuration
    BY <1>15 DEF WatchTargets, Unlock, serverVars
  <2>2. \A q \in Caller : pc'[q] \notin Critical
    BY <1>15 DEF WatchTargets, Unlock, Critical, BeforeCommit, Committing,
       AfterCommit, Idle
  <2>3. ASSUME NEW k \in Kind PROVE Settled(k)'
    <3>1. sdk[k] = built[p][k] /\ enabled[k] = Names(built[p][k])
      BY <2>1 DEF Committed, CommittedBy, AfterCommit
    <3>2. cfg[p] = configuration
      BY <2>1 DEF Pinned
    <3>3. ASSUME NEW n \in Name
          PROVE  \E t \in Target : sdk[k][n] = Surface(configuration, t, k, n)
      <4>1. CollectedAt(p, k, n)
        BY DEF Collected
      <4> QED
        BY <2>1, <3>1, <3>2, <4>1
           DEF CollectedAt, BuiltFrom, Critical, AfterCommit
    <3> QED
      BY <2>1, <3>1, <3>3 DEF Settled, Names
  <2> QED
    BY <2>2, <2>3 DEF Committed, CommittedBy, Critical, BeforeCommit, Committing,
       AfterCommit
<1>16. ASSUME NEW h \in Call, Dispatch(h)
      PROVE  Committed'
  BY <1>16 DEF Committed, CommittedBy, Settled, Names, Critical,
     BeforeCommit, Committing, AfterCommit, Idle, Startup, Dispatch, serverVars, localVars
<1>17. ASSUME NEW h \in Call, Snapshot(h)
      PROVE  Committed'
  BY <1>17 DEF Committed, CommittedBy, Settled, Names, Critical,
     BeforeCommit, Committing, AfterCommit, Idle, Startup, Snapshot, serverVars, localVars
<1>18. ASSUME NEW h \in Call, Return(h)
      PROVE  Committed'
  BY <1>18 DEF Committed, CommittedBy, Settled, Names, Critical,
     BeforeCommit, Committing, AfterCommit, Idle, Startup, Return, serverVars, localVars, NoCall
<1>19. CASE TargetChanges
  BY <1>19 DEF Committed, CommittedBy, Settled, Names, Critical,
     BeforeCommit, Committing, AfterCommit, Idle, Startup, TargetChanges, serverVars, localVars
<1>20. CASE UNCHANGED vars
  BY <1>20 DEF Committed, CommittedBy, Settled, Names, Critical,
     BeforeCommit, Committing, AfterCommit, Idle, Startup, vars
<1> QED
  BY <1>1, <1>2, <1>3, <1>4, <1>5, <1>6, <1>7, <1>8, <1>9, <1>10, <1>11, <1>12, <1>13, <1>14, <1>15, <1>16, <1>17, <1>18, <1>19, <1>20
     DEF Next, ApplyStep

\* Nothing refused enters the registry, and what is published is warm.
LEMMA ServedStep ==
    TypeOK /\ Exclusion /\ Startup /\ Pinned /\ Collected /\ NothingRefusedIsServed /\ Warmed /\ [Next]_vars
        => NothingRefusedIsServed' /\ Warmed'
<1> SUFFICES ASSUME TypeOK, Exclusion, Startup, Pinned, Collected, NothingRefusedIsServed, Warmed, [Next]_vars
             PROVE  NothingRefusedIsServed' /\ Warmed'
  OBVIOUS
<1> USE NilAssumption, CallerAssumption DEF TypeOK, Exclusion
<1>1. ASSUME NEW p \in Reloader, ReloadConfiguration(p)
      PROVE  NothingRefusedIsServed' /\ Warmed'
  BY <1>1 DEF NothingRefusedIsServed, Warmed, SnapshotsAreWarm, Critical,
     AfterCommit, BeforeCommit, Committing, Startup, Idle, ReloadConfiguration, Caller, serverVars
<1>2. ASSUME NEW p \in Watcher, ReapplyToolsets(p)
      PROVE  NothingRefusedIsServed' /\ Warmed'
  BY <1>2 DEF NothingRefusedIsServed, Warmed, SnapshotsAreWarm, Critical,
     AfterCommit, BeforeCommit, Committing, Startup, Idle, ReapplyToolsets, Caller, serverVars
<1>3. ASSUME NEW p \in Caller, Lock(p)
      PROVE  NothingRefusedIsServed' /\ Warmed'
  BY <1>3 DEF NothingRefusedIsServed, Warmed, SnapshotsAreWarm, Critical,
     AfterCommit, BeforeCommit, Committing, Startup, Idle, Lock, Caller, serverVars
<1>4. ASSUME NEW p \in Caller, Collect(p)
      PROVE  NothingRefusedIsServed' /\ Warmed'
  BY <1>4 DEF NothingRefusedIsServed, Warmed, SnapshotsAreWarm, Critical,
     AfterCommit, BeforeCommit, Committing, Startup, Idle, Collect, Caller, serverVars
<1>5. ASSUME NEW p \in Caller, CollectNextKind(p)
      PROVE  NothingRefusedIsServed' /\ Warmed'
  BY <1>5 DEF NothingRefusedIsServed, Warmed, SnapshotsAreWarm, Critical,
     AfterCommit, BeforeCommit, Committing, Startup, Idle, CollectNextKind, Caller, serverVars
<1>6. ASSUME NEW p \in Caller, ConvertFails(p)
      PROVE  NothingRefusedIsServed' /\ Warmed'
  BY <1>6 DEF NothingRefusedIsServed, Warmed, SnapshotsAreWarm, Critical,
     AfterCommit, BeforeCommit, Committing, Startup, Idle, ConvertFails, Caller, serverVars, Unlock
<1>7. ASSUME NEW p \in Caller, Convert(p)
      PROVE  NothingRefusedIsServed' /\ Warmed'
  BY <1>7 DEF NothingRefusedIsServed, Warmed, SnapshotsAreWarm, Critical,
     AfterCommit, BeforeCommit, Committing, Startup, Idle, Convert, Caller, serverVars, localVars
<1>8. ASSUME NEW p \in Caller, ReadPrevious(p)
      PROVE  NothingRefusedIsServed' /\ Warmed'
  BY <1>8 DEF NothingRefusedIsServed, Warmed, SnapshotsAreWarm, Critical,
     AfterCommit, BeforeCommit, Committing, Startup, Idle, ReadPrevious, Caller, serverVars
<1>9. ASSUME NEW p \in Caller, CommitRemove(p)
      PROVE  NothingRefusedIsServed' /\ Warmed'
  <2>1. ASSUME NEW k \in Kind, NEW n \in Name PROVE sdk'[k][n] \notin Bad
    <3>1. sdk'[k][n] \in {sdk[k][n], Nil}
      BY <1>9 DEF CommitRemove, Registry
    <3> QED
      BY <3>1, BadAssumption DEF NothingRefusedIsServed
  <2>2. Warmed'
    BY <1>9 DEF CommitRemove, Warmed, SnapshotsAreWarm
  <2> QED
    BY <2>1, <2>2 DEF NothingRefusedIsServed
<1>10. ASSUME NEW p \in Caller, CommitAdd(p)
      PROVE  NothingRefusedIsServed' /\ Warmed'
  <2>1. ASSUME NEW k \in Kind, NEW n \in Name PROVE sdk'[k][n] \notin Bad
    <3>1. sdk'[k][n] \in {sdk[k][n], built[p][k][n]}
      BY <1>10 DEF CommitAdd, Registry
    <3>2. built[p][k][n] \notin Bad
      BY <1>10 DEF CommitAdd, Collected, CollectedAt, Critical, Committing
    <3> QED
      BY <3>1, <3>2 DEF NothingRefusedIsServed
  <2>2. Warmed'
    BY <1>10 DEF CommitAdd, Warmed, SnapshotsAreWarm
  <2> QED
    BY <2>1, <2>2 DEF NothingRefusedIsServed
<1>11. ASSUME NEW p \in Caller, CommitNextKind(p)
      PROVE  NothingRefusedIsServed' /\ Warmed'
  BY <1>11 DEF NothingRefusedIsServed, Warmed, SnapshotsAreWarm, Critical,
     AfterCommit, BeforeCommit, Committing, Startup, Idle, CommitNextKind, Caller, serverVars
<1>12. ASSUME NEW p \in Caller, WarmCaches(p)
      PROVE  NothingRefusedIsServed' /\ Warmed'
  BY <1>12 DEF NothingRefusedIsServed, Warmed, SnapshotsAreWarm, Critical,
     AfterCommit, BeforeCommit, Committing, Startup, Idle, WarmCaches, Caller, serverVars
<1>13. ASSUME NEW p \in Caller, Store(p)
      PROVE  NothingRefusedIsServed' /\ Warmed'
  BY <1>13 DEF NothingRefusedIsServed, Warmed, SnapshotsAreWarm, Critical,
     AfterCommit, BeforeCommit, Committing, Startup, Idle, Store, Caller, serverVars, localVars
<1>14. ASSUME NEW p \in Caller, Bookkeeping(p)
      PROVE  NothingRefusedIsServed' /\ Warmed'
  BY <1>14 DEF NothingRefusedIsServed, Warmed, SnapshotsAreWarm, Critical,
     AfterCommit, BeforeCommit, Committing, Startup, Idle, Bookkeeping, Caller, serverVars, localVars
<1>15. ASSUME NEW p \in Caller, WatchTargets(p)
      PROVE  NothingRefusedIsServed' /\ Warmed'
  BY <1>15 DEF NothingRefusedIsServed, Warmed, SnapshotsAreWarm, Critical,
     AfterCommit, BeforeCommit, Committing, Startup, Idle, WatchTargets, Caller, serverVars, Unlock
<1>16. ASSUME NEW h \in Call, Dispatch(h)
      PROVE  NothingRefusedIsServed' /\ Warmed'
  BY <1>16 DEF NothingRefusedIsServed, Warmed, SnapshotsAreWarm, Critical,
     AfterCommit, BeforeCommit, Committing, Startup, Idle, Dispatch, serverVars, localVars
<1>17. ASSUME NEW h \in Call, Snapshot(h)
      PROVE  NothingRefusedIsServed' /\ Warmed'
  BY <1>17 DEF NothingRefusedIsServed, Warmed, SnapshotsAreWarm, Critical,
     AfterCommit, BeforeCommit, Committing, Startup, Idle, Snapshot, serverVars, localVars
<1>18. ASSUME NEW h \in Call, Return(h)
      PROVE  NothingRefusedIsServed' /\ Warmed'
  BY <1>18 DEF NothingRefusedIsServed, Warmed, SnapshotsAreWarm, Critical,
     AfterCommit, BeforeCommit, Committing, Startup, Idle, Return, serverVars, localVars, NoCall
<1>19. CASE TargetChanges
  BY <1>19 DEF NothingRefusedIsServed, Warmed, SnapshotsAreWarm, Critical,
     AfterCommit, BeforeCommit, Committing, Startup, Idle, TargetChanges, serverVars, localVars
<1>20. CASE UNCHANGED vars
  BY <1>20 DEF NothingRefusedIsServed, Warmed, SnapshotsAreWarm, Critical,
     AfterCommit, BeforeCommit, Committing, Startup, Idle, vars
<1> QED
  BY <1>1, <1>2, <1>3, <1>4, <1>5, <1>6, <1>7, <1>8, <1>9, <1>10, <1>11, <1>12, <1>13, <1>14, <1>15, <1>16, <1>17, <1>18, <1>19, <1>20
     DEF Next, ApplyStep

\* A call holds a configuration snapshot exactly while its handler runs.
LEMMA HoldingStep == TypeOK /\ Holding /\ [Next]_vars => Holding'
<1> SUFFICES ASSUME TypeOK, Holding, [Next]_vars PROVE Holding'
  OBVIOUS
<1>1. ASSUME NEW h \in Call, Dispatch(h) PROVE Holding'
  BY <1>1, NilAssumption DEF Holding, Dispatch, TypeOK, CallRecord, Idle
<1>2. ASSUME NEW h \in Call, Snapshot(h) PROVE Holding'
  BY <1>2, NilAssumption DEF Holding, Snapshot, TypeOK, CallRecord, Idle
<1>3. ASSUME NEW h \in Call, Return(h) PROVE Holding'
  BY <1>3, NilAssumption DEF Holding, Return, NoCall, TypeOK, CallRecord, Idle
<1>4. CASE UNCHANGED call
  BY <1>4 DEF Holding
<1>5. ASSUME NEW p \in Caller, Lock(p) \/ ApplyStep(p) PROVE UNCHANGED call
  BY <1>5 DEF Lock, ApplyStep, Collect, CollectNextKind, ConvertFails, Convert,
     ReadPrevious, CommitRemove, CommitAdd, CommitNextKind, WarmCaches, Store,
     Bookkeeping, WatchTargets
<1>6. ASSUME NEW p \in Caller, ReloadConfiguration(p) \/ ReapplyToolsets(p)
      PROVE UNCHANGED call
  BY <1>6 DEF ReloadConfiguration, ReapplyToolsets
<1>7. TargetChanges \/ UNCHANGED vars => UNCHANGED call
  BY DEF TargetChanges, vars
<1> QED
  BY <1>1, <1>2, <1>3, <1>4, <1>5, <1>6, <1>7 DEF Next, Caller

-----------------------------------------------------------------------------
\* The inductive invariant holds when NewServer starts its first apply.
LEMMA InitInvariant == Init => IInv
<1> SUFFICES ASSUME Init PROVE IInv
  OBVIOUS
<1>1. TypeOK
  BY InitTypes
<1>2. Exclusion /\ Startup
  BY NilAssumption, CallerAssumption
     DEF Init, Exclusion, Startup, Caller, Critical, BeforeCommit, Committing,
         AfterCommit, Idle, NoCall
<1>3. Pinned
  BY NilAssumption, CallerAssumption
     DEF Init, Pinned, Caller, Critical, BeforeCommit, Committing, AfterCommit,
         Idle
<1>4. Collected
  BY DEF Init, Collected, CollectedAt, Caller, Critical, BeforeCommit,
         Committing, AfterCommit, Idle
<1>5. Committed
  <2>1. \A k \in Kind : Settled(k)
    BY DEF Init, Settled, Names, Empty
  <2>2. \A p \in Caller : pc[p] \notin Critical
    BY DEF Init, Critical, BeforeCommit, Committing, AfterCommit, Idle
  <2> QED
    BY <2>1, <2>2 DEF Committed, CommittedBy, Critical, BeforeCommit,
       Committing, AfterCommit
<1>6. NothingRefusedIsServed
  BY NilAssumption, BadAssumption DEF Init, NothingRefusedIsServed, Empty
<1>7. Warmed
  BY DEF Init, Warmed, SnapshotsAreWarm, NoCall, Idle
<1>8. Holding
  BY DEF Init, Holding, NoCall, Idle
<1> QED
  BY <1>1, <1>2, <1>3, <1>4, <1>5, <1>6, <1>7, <1>8 DEF IInv

\* IInv is an invariant of the reload protocol.
THEOREM Invariant == SafeSpec => []IInv
<1>1. IInv /\ [Next]_vars => IInv'
  BY TypesStep, ControlStep, CollectedStep, CommittedStep, ServedStep,
     HoldingStep DEF IInv
<1> QED
  BY InitInvariant, <1>1, PTL DEF SafeSpec

\* The fields of the server and the locals of applyToolsets keep their types;
\* in particular a configuration is always installed (s.configuration.Load()
\* is dereferenced without a nil check everywhere).
THEOREM TypeCorrect == SafeSpec => []TypeOK
<1>1. IInv => TypeOK
  BY DEF IInv
<1> QED
  BY Invariant, <1>1, PTL

\* However many watch callbacks and reloads compete for reloadMu, and however
\* they fail, between two reloads the SDK's registries, the bookkeeping and
\* the live configuration agree.
THEOREM SurfaceConsistent == SafeSpec => []SurfaceMatchesConfiguration
<1>1. IInv => SurfaceMatchesConfiguration
  BY DEF IInv, Committed, Settled, SurfaceMatchesConfiguration
<1> QED
  BY Invariant, <1>1, PTL

\* No item the convert phase refuses is ever registered, not even in the
\* middle of a reload.
THEOREM NothingRefused == SafeSpec => []NothingRefusedIsServed
<1>1. IInv => NothingRefusedIsServed
  BY DEF IInv
<1> QED
  BY Invariant, <1>1, PTL

\* No call works from a configuration with unpopulated lazy caches.
THEOREM WarmSnapshots == SafeSpec => []SnapshotsAreWarm
<1>1. IInv => SnapshotsAreWarm
  BY DEF IInv, Warmed
<1> QED
  BY Invariant, <1>1, PTL

-----------------------------------------------------------------------------
(* ToolsetReload implements TransactionalReload.                            *)

\* NewServer's initial state is an initial state of the abstract reload:
\* nothing is submitted and no call holds a configuration.
LEMMA InitImplements == Init => TR!Init
BY CallerAssumption DEF Init, TR!Init, Caller, Pending, BeforeCommit,
   Committing, NoCall, Idle

Ask == [p \in Reloader |-> IF pc[p] \in Pending THEN candidate[p] ELSE Nil]
Seen == [h \in Call |-> call[h].snapshot]

\* A step that leaves the live configuration, the reloaders' pending
\* candidates and the calls' snapshots alone is a stuttering step.
LEMMA Stutters ==
    ASSUME UNCHANGED configuration, Ask' = Ask, Seen' = Seen
    PROVE  UNCHANGED TR!vars
BY DEF Ask, Seen, TR!vars

\* Each step of the protocol is one step of the abstract specification: the
\* store of a reloader accepts its candidate, a failed conversion rejects it,
\* a store made for a re-apply or by NewServer re-installs what is installed.
LEMMA StepImplements == IInv /\ [Next]_vars => [TR!Next]_TR!vars
<1> SUFFICES ASSUME IInv, [Next]_vars PROVE TR!Next \/ UNCHANGED TR!vars
  BY DEF TR!vars
<1> USE NilAssumption, CallerAssumption DEF IInv
<1>1. ASSUME NEW p \in Reloader, ReloadConfiguration(p) PROVE TR!Next
  <2>1. PICK c \in Config : candidate' = [candidate EXCEPT ![p] = c]
    BY <1>1 DEF ReloadConfiguration
  <2>2. Ask' = [Ask EXCEPT ![p] = c] /\ Ask[p] = Nil
    BY <1>1, <2>1 DEF ReloadConfiguration, Ask, TypeOK, Caller, Pending, Idle,
       BeforeCommit, Committing
  <2>3. TR!Submit(p)
    BY <1>1, <2>2 DEF TR!Submit, Ask, ReloadConfiguration, serverVars
  <2> QED
    BY <2>3 DEF TR!Next
<1>2. ASSUME NEW p \in Watcher, ReapplyToolsets(p) PROVE UNCHANGED TR!vars
  <2>1. Ask' = Ask
    BY <1>2 DEF ReapplyToolsets, Ask, TypeOK, Caller
  <2> QED
    BY <1>2, <2>1, Stutters DEF ReapplyToolsets, serverVars, Seen
<1>3. ASSUME NEW p \in Caller, Lock(p) PROVE UNCHANGED TR!vars
  <2>1. Ask' = Ask
    BY <1>3 DEF Lock, Ask, TypeOK, Caller, Pending, BeforeCommit
  <2> QED
    BY <1>3, <2>1, Stutters DEF Lock, serverVars, Seen
<1>4. ASSUME NEW p \in Caller,
             Collect(p) \/ CollectNextKind(p) \/ Convert(p) \/ ReadPrevious(p)
             \/ CommitRemove(p) \/ CommitAdd(p) \/ CommitNextKind(p)
             \/ WarmCaches(p)
      PROVE  UNCHANGED TR!vars
  <2>1. pc[p] \in Pending /\ \A q \in Caller : q # p => pc'[q] = pc[q]
    BY <1>4 DEF Collect, CollectNextKind, Convert, ReadPrevious, CommitRemove,
       CommitAdd, CommitNextKind, WarmCaches, Pending, BeforeCommit, Committing,
       TypeOK
  <2>2. pc'[p] \in Pending
    BY <1>4 DEF Collect, CollectNextKind, Convert, ReadPrevious, CommitRemove,
       CommitAdd, CommitNextKind, WarmCaches, Pending, BeforeCommit, Committing,
       TypeOK
  <2>3. UNCHANGED <<candidate, configuration, call>>
    BY <1>4 DEF Collect, CollectNextKind, Convert, ReadPrevious, CommitRemove,
       CommitAdd, CommitNextKind, WarmCaches, serverVars, localVars
  <2>4. Ask' = Ask
    BY <2>1, <2>2, <2>3 DEF Ask, Caller
  <2> QED
    BY <2>3, <2>4, Stutters DEF Seen
<1>5. ASSUME NEW p \in Caller, ConvertFails(p) PROVE TR!Next \/ UNCHANGED TR!vars
  <2>1. UNCHANGED configuration /\ Seen' = Seen
    BY <1>5 DEF ConvertFails, serverVars, Seen
  <2>2. CASE p \in Reloader
    <3>1. Ask' = [Ask EXCEPT ![p] = Nil] /\ Ask[p] # Nil
      BY <1>5, <2>2 DEF ConvertFails, Unlock, Ask, TypeOK, Pinned, Pending,
         BeforeCommit, Committing, Caller, Idle
    <3>2. TR!Reject(p)
      BY <2>1, <3>1 DEF TR!Reject, Ask, Seen
    <3> QED
      BY <2>2, <3>2 DEF TR!Next, TR!Answer
  <2>3. CASE p \notin Reloader
    <3>1. Ask' = Ask
      BY <1>5, <2>3 DEF ConvertFails, Unlock, Ask, TypeOK, Caller
    <3> QED
      BY <2>1, <3>1, Stutters
  <2> QED
    BY <2>2, <2>3
<1>6. ASSUME NEW p \in Caller, Store(p) PROVE TR!Next \/ UNCHANGED TR!vars
  <2>1. /\ pc[p] = "store" /\ configuration' = cfg[p] /\ Seen' = Seen
        /\ pc' = [pc EXCEPT ![p] = "bookkeeping"] /\ candidate' = candidate
    BY <1>6 DEF Store, localVars, Seen
  <2>2. cfg[p] = IF candidate[p] = Nil THEN configuration ELSE candidate[p]
    BY <2>1 DEF Pinned, Critical, AfterCommit
  <2>3. CASE p \in Reloader
    <3>1. candidate[p] # Nil /\ Ask[p] = candidate[p]
      BY <2>1, <2>3 DEF Pinned, Ask, Pending, Idle
    <3>2. Ask' = [Ask EXCEPT ![p] = Nil]
      BY <2>1, <2>3 DEF Ask, TypeOK, Caller, Pending, BeforeCommit, Committing
    <3>3. TR!Accept(p)
      BY <2>1, <2>2, <3>1, <3>2 DEF TR!Accept, Ask, Seen
    <3> QED
      BY <2>3, <3>3 DEF TR!Next, TR!Answer
  <2>4. CASE p \notin Reloader
    <3>1. Ask' = Ask
      BY <2>1, <2>4 DEF Ask, TypeOK, Caller
    <3>2. configuration' = configuration
      <4>1. CASE p = Main
        BY <2>1, <2>2, <4>1 DEF Startup, Idle, TypeOK
      <4>2. CASE p \in Watcher
        BY <2>1, <2>2, <4>2 DEF Pinned
      <4> QED
        BY <2>4, <4>1, <4>2 DEF Caller
    <3> QED
      BY <2>1, <3>1, <3>2, Stutters
  <2> QED
    BY <2>3, <2>4
<1>7. ASSUME NEW p \in Caller, Bookkeeping(p) \/ WatchTargets(p)
      PROVE  UNCHANGED TR!vars
  <2>1. Ask' = Ask
    BY <1>7 DEF Bookkeeping, WatchTargets, Unlock, localVars, Ask, TypeOK,
       Caller, Pending, BeforeCommit, Committing, Idle
  <2> QED
    BY <1>7, <2>1, Stutters DEF Bookkeeping, WatchTargets, serverVars, Seen
<1>8. ASSUME NEW h \in Call, Dispatch(h) PROVE UNCHANGED TR!vars
  <2>1. Seen' = Seen
    BY <1>8 DEF Dispatch, Seen, TypeOK, CallRecord
  <2> QED
    BY <1>8, <2>1, Stutters DEF Dispatch, serverVars, localVars, Ask
<1>9. ASSUME NEW h \in Call, Snapshot(h) PROVE TR!Next
  <2>1. Seen' = [Seen EXCEPT ![h] = configuration] /\ Seen[h] = Nil
    BY <1>9 DEF Snapshot, Seen, TypeOK, CallRecord, Holding
  <2>2. TR!Snapshot(h)
    BY <1>9, <2>1 DEF TR!Snapshot, Seen, Snapshot, serverVars, localVars
  <2> QED
    BY <2>2 DEF TR!Next
<1>10. ASSUME NEW h \in Call, Return(h) PROVE TR!Next
  <2>1. Seen' = [Seen EXCEPT ![h] = Nil] /\ Seen[h] # Nil
    BY <1>10 DEF Return, Seen, TypeOK, CallRecord, Holding, NoCall
  <2>2. TR!Return(h)
    BY <1>10, <2>1 DEF TR!Return, Seen, Return, serverVars, localVars
  <2> QED
    BY <2>2 DEF TR!Next
<1>11. CASE TargetChanges \/ UNCHANGED vars
  BY <1>11, Stutters DEF TargetChanges, vars, serverVars, localVars, Ask, Seen
<1> QED
  BY <1>1, <1>2, <1>3, <1>4, <1>5, <1>6, <1>7, <1>8, <1>9, <1>10, <1>11
     DEF Next, ApplyStep

\* ReloadConfiguration is transactional: every behaviour of the protocol is a
\* behaviour of TransactionalReload (the part of Transactional that is not
\* about fairness).
THEOREM Implements == SafeSpec => TR!SafeSpec
BY Invariant, InitImplements, StepImplements, PTL DEF SafeSpec, TR!SafeSpec

=============================================================================
