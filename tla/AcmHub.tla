------------------------------- MODULE AcmHub -------------------------------
(***************************************************************************)
(* The ACM provider (pkg/kubernetes/provider_acm_hub.go): the targets are   *)
(* the ManagedCluster objects of a hub, listed once and then followed by a  *)
(* watch that is restarted whenever it ends; the manager of a target is     *)
(* built when a call first names it.                                        *)
(*                                                                         *)
(* The hub's API server is its history: `log' holds what happened after the *)
(* list, and a resource version is a position in it.  Versions before       *)
(* `oldest' are compacted: no watch starts from them any more.              *)
(***************************************************************************)
EXTENDS Naturals, Sequences

CONSTANTS Clusters,
          Local,           \* the cluster labelled local-cluster
          LocalName,       \* the name local-cluster, of whichever cluster
          Callers,         \* tool calls that can be under way together
          Absent, Nil,     \* no entry in clusterManagers; an entry without manager
          Unset,           \* the empty resource version, the unknown hub name
          MaxEvents,       \* bounds the hub's history
          MaxManagers      \* bounds the managers built

ASSUME AcmAssumption ==
    /\ Local \in Clusters
    /\ Absent \notin Nat /\ Nil \notin Nat /\ Absent # Nil
    /\ Unset \notin Nat /\ Unset \notin Clusters
    /\ MaxEvents \in Nat /\ MaxManagers \in Nat

VARIABLES initial, log, oldest,        \* the hub
          listed,                      \* refreshClusters has succeeded
          clusterManagers, hubClusterName, watchStarted, cancelled,
          watch,                       \* the goroutine of watchManagedClusters
          announced,                   \* the targets of the last callback
          caller,                      \* calls of managerForCluster
          built,                       \* managers built so far
          restored                     \* deleted clusters that a call put back

hub == <<initial, log, oldest, listed>>
vars == <<initial, log, oldest, listed, clusterManagers, hubClusterName,
          watchStarted, cancelled, watch, announced, caller, built, restored>>

Event(type, cluster) == [type |-> type, cluster |-> cluster]

\* The clusters that exist after the first v events.
Present(v, c) ==
    \/ /\ c \in initial
       /\ \A j \in 1..v : log[j] # Event("DELETED", c)
    \/ \E i \in 1..v :
          /\ log[i] = Event("ADDED", c)
          /\ \A j \in (i + 1)..v : log[j] # Event("DELETED", c)

Managed == {c \in Clusters : Present(Len(log), c)}

\* GetTargets.
Targets == {c \in Clusters : clusterManagers[c] # Absent}

\* The version of an object is that of the last event about it.
VersionOf(v, c) ==
    /\ v > 0 => log[v].cluster = c
    /\ \A j \in (v + 1)..Len(log) : log[j].cluster # c

NoEvent == Event("NONE", Unset)

-----------------------------------------------------------------------------
(* Plausible mistakes, used to show that the properties notice them.        *)

\* The second look at the map, after the build, is forgotten.
StoresAlways(k, c) ==
    /\ clusterManagers' = [clusterManagers EXCEPT ![c] = built + 1]
    /\ caller' = [caller EXCEPT ![k].pc = "answer", ![k].manager = built + 1]
    /\ restored' = IF clusterManagers[c] = Absent THEN restored \cup {c}
                   ELSE restored

\* Every watch starts again from the version of the list.
ListVersion(rv) == IF rv = Unset THEN Unset ELSE 0

\* A watch that cannot be started ends the goroutine.
GivesUp == "done"

-----------------------------------------------------------------------------
(* The hub.                                                                *)

\* Clusters are imported, detached, and updated all the time.
HubEvent ==
    /\ Len(log) < MaxEvents
    /\ \E c \in Clusters :
          \E type \in IF c \in Managed THEN {"DELETED", "MODIFIED"} ELSE {"ADDED"} :
             log' = Append(log, Event(type, c))
    /\ UNCHANGED <<initial, oldest, listed, clusterManagers, hubClusterName,
                   watchStarted, cancelled, watch, announced, caller, built,
                   restored>>

Compact ==
    /\ oldest < Len(log)
    /\ oldest' = Len(log)
    /\ UNCHANGED <<initial, log, listed, clusterManagers, hubClusterName,
                   watchStarted, cancelled, watch, announced, caller, built,
                   restored>>

-----------------------------------------------------------------------------
(* newACMClusterProvider, WatchTargets, Close.                             *)

Idle == [pc |-> "idle", cluster |-> Unset, manager |-> Nil]

\* The entries after the list: names without manager.  A list that fails is
\* only logged, and the watch then starts without a version.
refreshClusters(ok, found) ==
    [c \in Clusters |-> IF ok /\ c \in found THEN Nil ELSE Absent]

Init ==
    /\ initial \in SUBSET Clusters
    /\ log = <<>> /\ oldest = 0
    /\ listed \in BOOLEAN
    /\ clusterManagers = refreshClusters(listed, initial)
    /\ hubClusterName = IF listed /\ Local \in initial THEN Local ELSE Unset
    /\ watchStarted = FALSE /\ cancelled = FALSE
    /\ watch = [pc |-> "none", rv |-> IF listed THEN 0 ELSE Unset,
                position |-> 0, news |-> {}, event |-> NoEvent]
    /\ announced = Targets
    /\ caller = [k \in Callers |-> Idle]
    /\ built = 0
    /\ restored = {}

\* Started once; after a Close the new goroutine sees the cancelled context
\* and returns.
WatchTargets ==
    /\ ~ watchStarted
    /\ watchStarted' = TRUE
    /\ watch' = IF watch.pc = "none"
                THEN [watch EXCEPT !.pc = IF cancelled THEN "done" ELSE "top"]
                ELSE watch
    /\ UNCHANGED <<hub, clusterManagers, hubClusterName, cancelled, announced,
                   caller, built, restored>>

Close ==
    /\ ~ cancelled
    /\ cancelled' = TRUE
    /\ watchStarted' = FALSE
    /\ UNCHANGED <<hub, clusterManagers, hubClusterName, watch, announced,
                   caller, built, restored>>

-----------------------------------------------------------------------------
(* watchManagedClusters.                                                   *)

WatchOnly ==
    UNCHANGED <<hub, clusterManagers, hubClusterName, watchStarted, cancelled,
                announced, caller, built, restored>>

WatchCancelled ==
    /\ watch.pc = "top" /\ cancelled
    /\ watch' = [watch EXCEPT !.pc = "done"]
    /\ WatchOnly

\* Where a watch starts.
StartVersion(rv) == rv

\* Without a version it first reports the objects there are, each as ADDED.
WatchStarts ==
    LET rv == StartVersion(watch.rv) IN
    /\ watch.pc = "top" /\ ~ cancelled
    /\ rv # Unset => rv >= oldest
    /\ watch' = [watch EXCEPT
                    !.pc = "open", !.rv = rv,
                    !.position = IF rv = Unset THEN Len(log) ELSE rv,
                    !.news = IF rv = Unset THEN Managed ELSE {}]
    /\ WatchOnly

AfterFailure == "sleep"

\* The request fails; a version that is gone always does (as an error, or as
\* a stream that ends after one error event).
WatchFails ==
    /\ watch.pc = "top" /\ ~ cancelled
    /\ watch' = [watch EXCEPT !.pc = AfterFailure]
    /\ WatchOnly

\* time.Sleep is not interrupted by Close.
BackoffEnds ==
    /\ watch.pc = "sleep"
    /\ watch' = [watch EXCEPT !.pc = "top"]
    /\ WatchOnly

ReceiveExisting ==
    /\ watch.pc = "open"
    /\ \E c \in watch.news, v \in 0..Len(log) :
          /\ VersionOf(v, c)
          /\ watch' = [watch EXCEPT !.pc = "apply", !.event = Event("ADDED", c),
                                    !.rv = v, !.news = @ \ {c}]
    /\ WatchOnly

\* The version is kept before the event is applied.
Receive ==
    /\ watch.pc = "open" /\ watch.news = {}
    /\ watch.position < Len(log)
    /\ watch' = [watch EXCEPT !.pc = "apply", !.position = @ + 1,
                              !.rv = watch.position + 1,
                              !.event = log[watch.position + 1]]
    /\ WatchOnly

\* The server ends every watch after a while, and Close ends this one.
StreamEnds ==
    /\ watch.pc = "open"
    /\ watch' = [watch EXCEPT !.pc = "top", !.news = {}]
    /\ WatchOnly

addCluster(entry) == IF entry = Absent THEN Nil ELSE entry
removeCluster(entry) == Absent

\* A modified cluster changes nothing.
Apply ==
    LET c == watch.event.cluster
        type == watch.event.type
    IN
    /\ watch.pc = "apply"
    /\ clusterManagers' =
          [clusterManagers EXCEPT
              ![c] = CASE type = "ADDED" -> addCluster(@)
                       [] type = "DELETED" -> removeCluster(@)
                       [] OTHER -> @]
    /\ restored' = IF type = "MODIFIED" THEN restored ELSE restored \ {c}
    /\ watch' = [watch EXCEPT
                    !.pc = CASE type = "ADDED" /\ c = Local -> "hub"
                             [] type = "MODIFIED" -> "open"
                             [] OTHER -> "callback"]
    /\ UNCHANGED <<hub, hubClusterName, watchStarted, cancelled, announced,
                   caller, built>>

setHubClusterName ==
    /\ watch.pc = "hub"
    /\ hubClusterName' = watch.event.cluster
    /\ watch' = [watch EXCEPT !.pc = "callback"]
    /\ UNCHANGED <<hub, clusterManagers, watchStarted, cancelled, announced,
                   caller, built, restored>>

\* The server's reload reads the targets; its errors are only logged.
Callback ==
    /\ watch.pc = "callback"
    /\ announced' = Targets
    /\ watch' = [watch EXCEPT !.pc = "open"]
    /\ UNCHANGED <<hub, clusterManagers, hubClusterName, watchStarted,
                   cancelled, caller, built, restored>>

Watch ==
    \/ WatchCancelled \/ WatchStarts \/ BackoffEnds \/ ReceiveExisting
    \/ Receive \/ Apply \/ setHubClusterName \/ Callback

-----------------------------------------------------------------------------
(* GetDerivedKubernetes and managerForCluster.                             *)

\* A fixed name as long as the hub is not known; the labelled cluster may well
\* be called otherwise.
GetDefaultTarget ==
    IF hubClusterName = Unset THEN LocalName ELSE hubClusterName

CallerOnly ==
    UNCHANGED <<hub, hubClusterName, watchStarted, cancelled, watch, announced>>

\* A cluster without manager needs one.  The other answers change nothing:
\* the hub has its own manager, an entry with a manager is used as it is, and
\* a cluster without entry is an error.
Lookup(k, c) ==
    /\ caller[k].pc = "idle"
    /\ c # GetDefaultTarget
    /\ clusterManagers[c] = Nil
    /\ caller' = [caller EXCEPT ![k] = [Idle EXCEPT !.pc = "build", !.cluster = c]]
    /\ CallerOnly /\ UNCHANGED <<clusterManagers, built, restored>>

\* NewManager fails: no entry changes.
BuildFails(k) ==
    /\ caller[k].pc = "build"
    /\ caller' = [caller EXCEPT ![k].pc = "answer", ![k].manager = Absent]
    /\ CallerOnly /\ UNCHANGED <<clusterManagers, built, restored>>

\* The manager of another call, if it was faster.  A cluster deleted in the
\* meantime gets its entry back.
Store(k, c) ==
    IF clusterManagers[c] \notin {Absent, Nil}
    THEN /\ caller' = [caller EXCEPT ![k].pc = "answer",
                                     ![k].manager = clusterManagers[c]]
         /\ UNCHANGED <<clusterManagers, restored>>
    ELSE /\ clusterManagers' = [clusterManagers EXCEPT ![c] = built + 1]
         /\ caller' = [caller EXCEPT ![k].pc = "answer",
                                     ![k].manager = built + 1]
         /\ restored' = IF clusterManagers[c] = Absent THEN restored \cup {c}
                        ELSE restored

Build(k) ==
    /\ caller[k].pc = "build"
    /\ built < MaxManagers
    /\ built' = built + 1
    /\ Store(k, caller[k].cluster)
    /\ CallerOnly

Answer(k) ==
    /\ caller[k].pc = "answer"
    /\ caller' = [caller EXCEPT ![k] = Idle]
    /\ CallerOnly /\ UNCHANGED <<clusterManagers, built, restored>>

Next ==
    \/ HubEvent \/ Compact
    \/ WatchTargets \/ Close
    \/ Watch \/ WatchFails \/ StreamEnds
    \/ \E k \in Callers :
          \/ \E c \in Clusters : Lookup(k, c)
          \/ Build(k) \/ BuildFails(k) \/ Answer(k)

\* The server calls WatchTargets, the goroutine goes on, and the API server
\* neither refuses every watch nor ends every stream before its next event.
Fairness ==
    /\ WF_vars(WatchTargets)
    /\ WF_vars(WatchCancelled \/ BackoffEnds \/ Apply \/ setHubClusterName
               \/ Callback)
    /\ SF_vars(WatchStarts)
    /\ SF_vars(Receive \/ ReceiveExisting)

Spec == Init /\ [][Next]_vars /\ Fairness

-----------------------------------------------------------------------------
(* Properties.                                                             *)

TypeOK ==
    /\ initial \subseteq Clusters
    /\ log \in Seq([type : {"ADDED", "DELETED", "MODIFIED"}, cluster : Clusters])
    /\ oldest \in 0..Len(log)
    /\ listed \in BOOLEAN /\ watchStarted \in BOOLEAN /\ cancelled \in BOOLEAN
    /\ clusterManagers \in [Clusters -> Nat \cup {Absent, Nil}]
    /\ hubClusterName \in Clusters \cup {Unset}
    /\ watch \in [pc : {"none", "top", "sleep", "open", "apply", "hub",
                        "callback", "done"},
                  rv : Nat \cup {Unset}, position : Nat,
                  news : SUBSET Clusters,
                  event : [type : {"ADDED", "DELETED", "MODIFIED", "NONE"},
                           cluster : Clusters \cup {Unset}]]
    /\ announced \subseteq Clusters
    /\ caller \in [Callers -> [pc : {"idle", "build", "answer"},
                               cluster : Clusters \cup {Unset},
                               manager : Nat \cup {Absent, Nil}]]
    /\ built \in Nat /\ restored \subseteq Clusters

\* What the provider has applied: everything up to the version it holds.
Applied == IF watch.pc = "apply" THEN watch.rv - 1 ELSE watch.rv

\* No event is lost, applied twice or out of order, however often the watch
\* is restarted: once the list has succeeded, the targets are the clusters of
\* the hub as of the version the goroutine holds, and those that a call put
\* back.
TargetsAreHistory ==
    listed =>
        /\ restored \subseteq Targets
        /\ \A c \in Clusters \ restored : c \in Targets <=> Present(Applied, c)

\* Calls that race to build a manager share one: as long as a cluster is not
\* deleted its manager is never replaced, and no call is given another.
ManagersAreShared ==
    [][\A c \in Clusters :
          clusterManagers[c] \notin {Absent, Nil} =>
              /\ clusterManagers'[c] \in {clusterManagers[c], Absent}
              /\ \A k \in Callers :
                    (caller[k].pc = "build" /\ caller[k].cluster = c
                       /\ caller'[k].pc = "answer") =>
                        caller'[k].manager \in {clusterManagers[c], Absent}]_vars

\* The version the goroutine would start from is gone, and it never lists.
Expired == watch.pc \in {"top", "sleep"} /\ watch.rv # Unset /\ watch.rv < oldest

\* When the hub comes to rest the provider does: it knows every cluster and
\* the server was told, unless the version was compacted in a pause of the
\* watch or the first list had failed.
TargetsFollowHub ==
    <>[](\/ cancelled \/ ~ listed \/ Expired
         \/ /\ Targets = Managed \cup restored
            /\ announced \ restored = Managed \ restored)
=============================================================================
