---------------------------- MODULE AcmHubProofs ----------------------------
(***************************************************************************)
(* For any clusters, calls and length of the hub's history: the targets     *)
(* follow the history event by event, and racing calls share managers.      *)
(***************************************************************************)
EXTENDS AcmHub, TLAPS

Evt == [type : {"ADDED", "DELETED", "MODIFIED"}, cluster : Clusters]

\* A call builds a manager for a cluster it found.
BuildersKnow ==
    \A k \in Callers : caller[k].pc = "build" => caller[k].cluster \in Clusters

\* Where the watch is: never past the log, at the version it holds while the
\* stream is open, and about to apply the event of that version.
Position ==
    listed =>
        /\ watch.rv \in 0..Len(log)
        /\ watch.news = {}
        /\ watch.pc \in {"open", "apply", "hub", "callback"} =>
              watch.position = watch.rv
        /\ watch.pc = "apply" => watch.rv > 0 /\ watch.event = log[watch.rv]

IInv == TypeOK /\ BuildersKnow /\ Position /\ TargetsAreHistory

-----------------------------------------------------------------------------
(* What one event does to the clusters there are.                          *)

\* An added cluster is there.
LEMMA PresentAdded ==
    ASSUME NEW v \in Nat \ {0}, NEW c, log[v] = Event("ADDED", c)
    PROVE  Present(v, c)
  <1>1. v \in 1..v /\ \A j \in (v + 1)..v : log[j] # Event("DELETED", c)
    OBVIOUS
  <1> QED BY <1>1 DEF Present

\* A deleted one is not.
LEMMA PresentDeleted ==
    ASSUME NEW v \in Nat \ {0}, NEW c, log[v] = Event("DELETED", c)
    PROVE  ~ Present(v, c)
  <1>1. v \in 1..v
    OBVIOUS
  <1>2. ASSUME NEW i \in 1..v, log[i] = Event("ADDED", c),
               \A j \in (i + 1)..v : log[j] # Event("DELETED", c)
        PROVE  FALSE
    <2>1. i # v
      BY <1>2 DEF Event
    <2>2. v \in (i + 1)..v
      BY <2>1
    <2> QED BY <1>2, <2>2
  <1> QED BY <1>1, <1>2 DEF Present

\* Other clusters are where they were.
LEMMA PresentSame ==
    ASSUME NEW v \in Nat \ {0}, NEW c,
           log[v] # Event("ADDED", c), log[v] # Event("DELETED", c)
    PROVE  Present(v, c) <=> Present(v - 1, c)
  <1>1. ASSUME NEW i \in 1..v, log[i] = Event("ADDED", c) PROVE i \in 1..(v - 1)
    BY <1>1
  <1>2. \A i \in 0..v : (\A j \in (i + 1)..v : log[j] # Event("DELETED", c))
                   <=> (\A j \in (i + 1)..(v - 1) : log[j] # Event("DELETED", c))
    <2> SUFFICES ASSUME NEW i \in 0..v,
                        \A j \in (i + 1)..(v - 1) : log[j] # Event("DELETED", c),
                        NEW j \in (i + 1)..v
                 PROVE  log[j] # Event("DELETED", c)
      OBVIOUS
    <2>1. j = v \/ j \in (i + 1)..(v - 1)
      OBVIOUS
    <2> QED BY <2>1
  <1>3. (\A j \in 1..v : log[j] # Event("DELETED", c))
         <=> (\A j \in 1..(v - 1) : log[j] # Event("DELETED", c))
    <2> SUFFICES ASSUME \A j \in 1..(v - 1) : log[j] # Event("DELETED", c),
                        NEW j \in 1..v
                 PROVE  log[j] # Event("DELETED", c)
      OBVIOUS
    <2>1. j = v \/ j \in 1..(v - 1)
      OBVIOUS
    <2> QED BY <2>1
  <1>4. \A i \in 1..(v - 1) : i \in 1..v /\ i \in 0..v
    OBVIOUS
  <1>5. \A i \in 1..v : i \in 0..v
    OBVIOUS
  <1> QED BY <1>1, <1>2, <1>3, <1>4, <1>5 DEF Present

\* New events leave the past as it was.
LEMMA PresentStable ==
    ASSUME TypeOK, NEW e \in Evt, log' = Append(log, e), initial' = initial,
           NEW v \in 0..Len(log), NEW c
    PROVE  Present(v, c)' <=> Present(v, c)
  <1>1. log \in Seq(Evt)
    BY DEF TypeOK, Evt
  <1>2. \A i \in 1..Len(log) : log'[i] = log[i]
    BY <1>1
  <1>3. \A i \in 1..v : log'[i] = log[i]
    BY <1>1, <1>2
  <1>4. \A i \in 1..v : \A j \in (i + 1)..v : log'[j] = log[j]
    BY <1>3
  <1>5. Len(log) \in Nat
    BY <1>1
  <1> QED BY <1>3, <1>4, <1>5 DEF Present, Event

-----------------------------------------------------------------------------
(* The invariant.                                                          *)

\* IInv holds at the start.
LEMMA InitInv == Init => IInv
  <1> SUFFICES ASSUME Init PROVE IInv
    OBVIOUS
  <1>1. TypeOK
    <2>1. log \in Seq([type : {"ADDED", "DELETED", "MODIFIED"}, cluster : Clusters])
          /\ Len(log) = 0
      BY DEF Init
    <2>2. clusterManagers \in [Clusters -> Nat \cup {Absent, Nil}]
      BY DEF Init, refreshClusters
    <2>3. watch \in [pc : {"none", "top", "sleep", "open", "apply", "hub",
                          "callback", "done"},
                    rv : Nat \cup {Unset}, position : Nat,
                    news : SUBSET Clusters,
                    event : [type : {"ADDED", "DELETED", "MODIFIED", "NONE"},
                             cluster : Clusters \cup {Unset}]]
      BY DEF Init, NoEvent, Event
    <2>4. announced \subseteq Clusters
      BY DEF Init, Targets
    <2>5. caller \in [Callers -> [pc : {"idle", "build", "answer"},
                                 cluster : Clusters \cup {Unset},
                                 manager : Nat \cup {Absent, Nil}]]
      BY DEF Init, Idle
    <2>6. oldest \in 0..Len(log) /\ built \in Nat
      BY <2>1 DEF Init
    <2>7. initial \subseteq Clusters /\ restored \subseteq Clusters
          /\ hubClusterName \in Clusters \cup {Unset}
      BY AcmAssumption DEF Init
    <2>8. listed \in BOOLEAN /\ watchStarted \in BOOLEAN /\ cancelled \in BOOLEAN
      BY Zenon DEF Init
    <2> QED BY <2>1, <2>2, <2>3, <2>4, <2>5, <2>6, <2>7, <2>8 DEF TypeOK
  <1>2. BuildersKnow
    BY DEF Init, BuildersKnow, Idle
  <1>3. Position
    BY DEF Init, Position
  <1>4. TargetsAreHistory
    <2> SUFFICES ASSUME listed PROVE TargetsAreHistory
      BY DEF TargetsAreHistory
    <2>1. Applied = 0
      BY DEF Init, Applied
    <2>2. \A c \in Clusters : Present(0, c) <=> c \in initial
      BY DEF Present
    <2>3. \A c \in Clusters : c \in Targets <=> c \in initial
      BY AcmAssumption DEF Init, Targets, refreshClusters
    <2> QED BY <2>1, <2>2, <2>3 DEF TargetsAreHistory, Init
  <1> QED BY <1>1, <1>2, <1>3, <1>4 DEF IInv

\* The steps that touch neither the entries nor the version applied.
LEMMA HistoryKept ==
    ASSUME TargetsAreHistory, UNCHANGED <<initial, log, listed, clusterManagers,
                                          restored>>,
           listed => Applied' = Applied
    PROVE  TargetsAreHistory'
  <1>1. Targets' = Targets
    BY DEF Targets
  <1>2. \A v, c : Present(v, c)' <=> Present(v, c)
    BY DEF Present
  <1> QED BY <1>1, <1>2 DEF TargetsAreHistory

\* The steps of the hub, of a Close and of calls leave the goroutine alone.
LEMMA StepInv == IInv /\ [Next]_vars => IInv'
  <1> SUFFICES ASSUME IInv, [Next]_vars PROVE IInv'
    OBVIOUS
  <1> USE DEF IInv
  <1>1. CASE HubEvent
    <2>1. PICK e \in Evt : log' = Append(log, e)
      BY <1>1 DEF HubEvent, Evt, Event
    <2>2. log \in Seq(Evt) /\ log' \in Seq(Evt) /\ Len(log') = Len(log) + 1
          /\ Len(log) \in Nat /\ \A i \in 1..Len(log) : log'[i] = log[i]
      BY <2>1 DEF TypeOK, Evt
    <2>3. TypeOK'
      BY <1>1, <2>2 DEF TypeOK, HubEvent, Evt
    <2>4. BuildersKnow'
      BY <1>1 DEF BuildersKnow, HubEvent
    <2>5. Position'
      BY <1>1, <2>2 DEF Position, HubEvent, TypeOK
    <2>6. TargetsAreHistory'
      <3> SUFFICES ASSUME listed PROVE TargetsAreHistory'
        BY <1>1 DEF TargetsAreHistory, HubEvent
      <3>1. Applied \in 0..Len(log) /\ Applied' = Applied
        BY <1>1, <2>2 DEF Applied, Position, HubEvent
      <3>2. \A c \in Clusters : Present(Applied, c)' <=> Present(Applied, c)
        BY <1>1, <2>1, <3>1, PresentStable DEF HubEvent
      <3> QED BY <1>1, <3>1, <3>2 DEF TargetsAreHistory, HubEvent, Targets
    <2> QED BY <2>3, <2>4, <2>5, <2>6
  <1>2. CASE Compact
    <2>1. TypeOK'
      BY <1>2 DEF Compact, TypeOK
    <2>2. BuildersKnow' /\ Position'
      BY <1>2 DEF Compact, BuildersKnow, Position
    <2>3. TargetsAreHistory'
      BY <1>2, HistoryKept DEF Compact, Applied
    <2> QED BY <2>1, <2>2, <2>3
  <1>3. CASE WatchTargets
    <2>1. watch' \in {watch, [watch EXCEPT !.pc = "done"], [watch EXCEPT !.pc = "top"]}
          /\ (watch' = watch \/ watch.pc = "none")
      BY <1>3 DEF WatchTargets
    <2>2. TypeOK'
      BY <1>3, <2>1 DEF WatchTargets, TypeOK, hub
    <2>3. BuildersKnow'
      BY <1>3 DEF WatchTargets, BuildersKnow
    <2>4. Position'
      BY <1>3, <2>1 DEF WatchTargets, Position, hub, TypeOK
    <2>5. TargetsAreHistory'
      BY <1>3, <2>1, HistoryKept DEF WatchTargets, Applied, hub, TypeOK
    <2> QED BY <2>2, <2>3, <2>4, <2>5
  <1>4. CASE Close
    <2>1. TypeOK'
      BY <1>4 DEF Close, TypeOK, hub
    <2>2. BuildersKnow' /\ Position'
      BY <1>4 DEF Close, BuildersKnow, Position, hub
    <2>3. TargetsAreHistory'
      BY <1>4, HistoryKept DEF Close, Applied, hub
    <2> QED BY <2>1, <2>2, <2>3
  <1>5. CASE WatchOnly /\ (WatchCancelled \/ WatchFails \/ BackoffEnds \/ StreamEnds)
    <2>1. watch.pc \notin {"apply", "hub", "callback"}
          /\ \E pc \in {"done", "sleep", "top"} :
                watch' \in {[watch EXCEPT !.pc = pc],
                           [watch EXCEPT !.pc = pc, !.news = {}]}
      BY <1>5 DEF WatchCancelled, WatchFails, BackoffEnds, StreamEnds, AfterFailure,
                  TypeOK
    <2>2. TypeOK'
      BY <1>5, <2>1 DEF WatchOnly, TypeOK, hub
    <2>3. BuildersKnow'
      BY <1>5 DEF WatchOnly, BuildersKnow
    <2>4. Position'
      BY <1>5, <2>1 DEF WatchOnly, Position, hub, TypeOK
    <2>5. TargetsAreHistory'
      BY <1>5, <2>1, HistoryKept DEF WatchOnly, Applied, hub, TypeOK
    <2> QED BY <2>2, <2>3, <2>4, <2>5
  <1>6. CASE WatchStarts
    <2>1. TypeOK'
      <3>1. Len(log) \in Nat /\ Managed \subseteq Clusters
        BY DEF TypeOK, Managed
      <3>2. watch' \in [pc : {"open"}, rv : Nat \cup {Unset}, position : Nat,
                       news : SUBSET Clusters,
                       event : [type : {"ADDED", "DELETED", "MODIFIED", "NONE"},
                                cluster : Clusters \cup {Unset}]]
        BY <1>6, <3>1, AcmAssumption DEF WatchStarts, TypeOK, StartVersion
      <3> QED BY <1>6, <3>2 DEF WatchStarts, WatchOnly, TypeOK, hub
    <2>2. BuildersKnow'
      BY <1>6 DEF WatchStarts, WatchOnly, BuildersKnow
    <2>3. Position'
      BY <1>6, AcmAssumption DEF WatchStarts, WatchOnly, Position, hub, TypeOK,
                                 StartVersion
    <2>4. TargetsAreHistory'
      BY <1>6, HistoryKept DEF WatchStarts, WatchOnly, Applied, hub, TypeOK,
                               StartVersion
    <2> QED BY <2>1, <2>2, <2>3, <2>4
  <1>7. CASE ReceiveExisting
    <2>1. PICK c \in watch.news, v \in 0..Len(log) :
             watch' = [watch EXCEPT !.pc = "apply", !.event = Event("ADDED", c),
                                    !.rv = v, !.news = @ \ {c}]
      BY <1>7 DEF ReceiveExisting
    <2>2. ~ listed
      BY <2>1 DEF Position
    <2>3. TypeOK'
      <3>1. c \in Clusters /\ v \in Nat
        BY <2>1 DEF TypeOK
      <3>2. Event("ADDED", c) \in [type : {"ADDED", "DELETED", "MODIFIED", "NONE"},
                                  cluster : Clusters \cup {Unset}]
        BY <3>1 DEF Event
      <3> QED BY <1>7, <2>1, <3>1, <3>2 DEF ReceiveExisting, WatchOnly, TypeOK, hub
    <2>4. BuildersKnow' /\ Position' /\ TargetsAreHistory'
      BY <1>7, <2>2 DEF ReceiveExisting, WatchOnly, BuildersKnow, Position,
                        TargetsAreHistory, hub
    <2> QED BY <2>3, <2>4
  <1>8. CASE Receive
    <2>1. log \in Seq(Evt) /\ Len(log) \in Nat /\ watch.position + 1 \in 1..Len(log)
          /\ log[watch.position + 1] \in Evt
      <3>1. log \in Seq(Evt) /\ Len(log) \in Nat
        BY DEF TypeOK, Evt
      <3>2. watch.position + 1 \in 1..Len(log)
        BY <1>8, <3>1 DEF Receive, TypeOK
      <3> QED BY <3>1, <3>2
    <2>2. TypeOK'
      <3>1. log[watch.position + 1] \in [type : {"ADDED", "DELETED", "MODIFIED", "NONE"},
                                        cluster : Clusters \cup {Unset}]
        BY <2>1 DEF Evt
      <3>2. watch.position + 1 \in Nat
        BY DEF TypeOK
      <3> QED BY <1>8, <3>1, <3>2 DEF Receive, WatchOnly, TypeOK, hub
    <2>3. BuildersKnow'
      BY <1>8 DEF Receive, WatchOnly, BuildersKnow
    <2>4. Position'
      BY <1>8, <2>1 DEF Receive, WatchOnly, Position, hub, TypeOK
    <2>5. listed => Applied' = Applied
      BY <1>8, <2>1 DEF Receive, Applied, Position, TypeOK
    <2>6. TargetsAreHistory'
      BY <1>8, <2>5, HistoryKept DEF Receive, WatchOnly, hub
    <2> QED BY <2>2, <2>3, <2>4, <2>6
  <1>9. CASE Apply
    <2> DEFINE c == watch.event.cluster
               type == watch.event.type
    <2>1. clusterManagers' \in [Clusters -> Nat \cup {Absent, Nil}]
          /\ \A d \in Clusters : clusterManagers'[d] =
                IF d # c THEN clusterManagers[d]
                ELSE IF type = "ADDED" THEN addCluster(clusterManagers[d])
                ELSE IF type = "DELETED" THEN Absent ELSE clusterManagers[d]
      BY <1>9 DEF Apply, TypeOK, addCluster, removeCluster
    <2>2. watch' = [watch EXCEPT !.pc = watch'.pc]
          /\ watch'.pc \in {"hub", "open", "callback"}
      BY <1>9 DEF Apply, TypeOK
    <2>3. TypeOK'
      BY <1>9, <2>1, <2>2 DEF Apply, TypeOK, hub
    <2>4. BuildersKnow'
      BY <1>9 DEF Apply, BuildersKnow
    <2>5. Position'
      BY <1>9, <2>2 DEF Apply, Position, hub, TypeOK
    <2>6. TargetsAreHistory'
      <3> SUFFICES ASSUME listed PROVE TargetsAreHistory'
        BY <1>9 DEF TargetsAreHistory, Apply, hub
      <3>1. log \in Seq(Evt) /\ Len(log) \in Nat
        BY DEF TypeOK, Evt
      <3>2. watch.rv \in 1..Len(log) /\ watch.event = log[watch.rv]
            /\ watch.event \in Evt
        BY <1>9, <3>1 DEF Apply, Position
      <3>3. watch.rv \in Nat \ {0} /\ Applied = watch.rv - 1 /\ Applied' = watch.rv
        BY <1>9, <2>2, <3>2 DEF Apply, Applied, TypeOK
      <3>4. \A d \in Clusters : Present(Applied, d)' <=> Present(watch.rv, d)
        BY <1>9, <3>3 DEF Present, Apply, hub
      <3>5. \A d \in Clusters : d \in Targets' <=> clusterManagers'[d] # Absent
        BY DEF Targets
      <3>6. \A d \in Clusters : d \in Targets <=> clusterManagers[d] # Absent
        BY DEF Targets
      <3>7. /\ restored' = IF type = "MODIFIED" THEN restored ELSE restored \ {c}
            /\ restored \subseteq Clusters
        BY <1>9 DEF Apply, TypeOK
      <3>8. ASSUME NEW d \in Clusters, d # c \/ type = "MODIFIED"
            PROVE  /\ clusterManagers'[d] = clusterManagers[d]
                   /\ Present(watch.rv, d) <=> Present(watch.rv - 1, d)
        <4>1. log[watch.rv] # Event("ADDED", d) /\ log[watch.rv] # Event("DELETED", d)
          BY <3>2, <3>8 DEF Event
        <4>2. Present(watch.rv, d) <=> Present(watch.rv - 1, d)
          BY <3>3, <4>1, PresentSame
        <4>3. clusterManagers'[d] = clusterManagers[d]
          BY <2>1, <3>8
        <4> QED BY <4>2, <4>3
      <3>9. CASE type = "ADDED"
        <4>1. log[watch.rv] = Event("ADDED", c) /\ c \in Clusters
          BY <3>2, <3>9 DEF Event, Evt
        <4>2. Present(watch.rv, c)
          BY <3>3, <4>1, PresentAdded
        <4>3. clusterManagers'[c] # Absent
          BY <2>1, <3>9, <4>1, AcmAssumption DEF addCluster
        <4> QED BY <3>3, <3>4, <3>5, <3>6, <3>7, <3>8, <3>9, <4>1, <4>2, <4>3
                DEF TargetsAreHistory
      <3>10. CASE type = "DELETED"
        <4>1. log[watch.rv] = Event("DELETED", c) /\ c \in Clusters
          BY <3>2, <3>10 DEF Event, Evt
        <4>2. ~ Present(watch.rv, c)
          BY <3>3, <4>1, PresentDeleted
        <4>3. clusterManagers'[c] = Absent
          BY <2>1, <3>10, <4>1
        <4> QED BY <3>3, <3>4, <3>5, <3>6, <3>7, <3>8, <3>10, <4>1, <4>2, <4>3
                DEF TargetsAreHistory
      <3>11. CASE type = "MODIFIED"
        BY <3>3, <3>4, <3>5, <3>6, <3>7, <3>8, <3>11 DEF TargetsAreHistory
      <3> QED BY <3>2, <3>9, <3>10, <3>11 DEF Evt
    <2> QED BY <2>3, <2>4, <2>5, <2>6
  <1>10. CASE setHubClusterName
    <2>1. TypeOK'
      BY <1>10 DEF setHubClusterName, TypeOK, hub
    <2>2. BuildersKnow'
      BY <1>10 DEF setHubClusterName, BuildersKnow
    <2>3. Position'
      BY <1>10 DEF setHubClusterName, Position, hub, TypeOK
    <2>4. TargetsAreHistory'
      BY <1>10, HistoryKept DEF setHubClusterName, Applied, hub, TypeOK
    <2> QED BY <2>1, <2>2, <2>3, <2>4
  <1>11. CASE Callback
    <2>1. TypeOK'
      BY <1>11 DEF Callback, TypeOK, hub, Targets
    <2>2. BuildersKnow'
      BY <1>11 DEF Callback, BuildersKnow
    <2>3. Position'
      BY <1>11 DEF Callback, Position, hub, TypeOK
    <2>4. TargetsAreHistory'
      BY <1>11, HistoryKept DEF Callback, Applied, hub, TypeOK
    <2> QED BY <2>1, <2>2, <2>3, <2>4
  <1>12. ASSUME NEW k \in Callers, NEW c \in Clusters, Lookup(k, c) PROVE IInv'
    <2>1. TypeOK'
      BY <1>12 DEF Lookup, CallerOnly, TypeOK, hub, Idle
    <2>2. BuildersKnow'
      BY <1>12 DEF Lookup, BuildersKnow, Idle, TypeOK
    <2>3. Position'
      BY <1>12 DEF Lookup, CallerOnly, Position, hub
    <2>4. TargetsAreHistory'
      BY <1>12, HistoryKept DEF Lookup, CallerOnly, Applied, hub
    <2> QED BY <2>1, <2>2, <2>3, <2>4
  <1>13. ASSUME NEW k \in Callers, BuildFails(k) \/ Answer(k) PROVE IInv'
    <2>1. TypeOK'
      BY <1>13 DEF BuildFails, Answer, CallerOnly, TypeOK, hub, Idle
    <2>2. BuildersKnow'
      BY <1>13 DEF BuildFails, Answer, BuildersKnow, Idle, TypeOK
    <2>3. Position'
      BY <1>13 DEF BuildFails, Answer, CallerOnly, Position, hub
    <2>4. TargetsAreHistory'
      BY <1>13, HistoryKept DEF BuildFails, Answer, CallerOnly, Applied, hub
    <2> QED BY <2>1, <2>2, <2>3, <2>4
  <1>14. ASSUME NEW k \in Callers, Build(k) PROVE IInv'
    <2> DEFINE c == caller[k].cluster
    <2>1. c \in Clusters /\ built + 1 \in Nat
      BY <1>14 DEF Build, BuildersKnow, TypeOK
    <2>2. TypeOK'
      BY <1>14, <2>1 DEF Build, Store, CallerOnly, TypeOK, hub
    <2>3. BuildersKnow'
      BY <1>14 DEF Build, Store, BuildersKnow, TypeOK
    <2>4. Position'
      BY <1>14 DEF Build, CallerOnly, Position, hub
    <2>5. TargetsAreHistory'
      <3>1. CASE clusterManagers[c] \notin {Absent, Nil}
        BY <1>14, <3>1, HistoryKept DEF Build, Store, CallerOnly, Applied, hub
      <3>2. CASE clusterManagers[c] \in {Absent, Nil}
        <4>1. \A d \in Clusters : d \in Targets' <=> d \in Targets \/ d = c
          BY <1>14, <2>1, <3>2, AcmAssumption DEF Build, Store, Targets, TypeOK
        <4>2. restored' = IF c \in Targets THEN restored ELSE restored \cup {c}
          BY <1>14, <2>1, <3>2 DEF Build, Store, Targets
        <4>3. Applied' = Applied /\ listed' = listed
          BY <1>14 DEF Build, CallerOnly, Applied, hub
        <4>4. \A d \in Clusters : Present(Applied, d)' <=> Present(Applied, d)
          BY <1>14, <4>3 DEF Present, Build, CallerOnly, hub
        <4>5. restored \subseteq Clusters
          BY DEF TypeOK
        <4> QED BY <2>1, <4>1, <4>2, <4>3, <4>4, <4>5 DEF TargetsAreHistory
      <3> QED BY <3>1, <3>2
    <2> QED BY <2>2, <2>3, <2>4, <2>5
  <1>15. CASE UNCHANGED vars
    <2>1. TypeOK'
      BY <1>15 DEF vars, TypeOK
    <2>2. BuildersKnow' /\ Position'
      BY <1>15 DEF vars, BuildersKnow, Position
    <2>3. TargetsAreHistory'
      BY <1>15, HistoryKept DEF vars, Applied
    <2> QED BY <2>1, <2>2, <2>3
  <1> QED BY <1>1, <1>2, <1>3, <1>4, <1>5, <1>6, <1>7, <1>8, <1>9, <1>10, <1>11,
             <1>12, <1>13, <1>14, <1>15
          DEF Next, Watch, WatchCancelled, WatchFails, BackoffEnds, StreamEnds

\* Along every behaviour, whatever the hub does and however often the watch
\* is restarted, the targets of the provider are the hub's clusters as of the
\* version its goroutine holds (watchManagedClusters, addCluster,
\* removeCluster), and those a call of managerForCluster put back.
THEOREM HistoryTheorem == Spec => []TargetsAreHistory
  <1>1. IInv => TargetsAreHistory
    BY DEF IInv
  <1> QED BY InitInv, StepInv, <1>1, PTL DEF Spec

\* No call is given another manager than the one the map has, and none is
\* replaced while its cluster is managed: managerForCluster looks a second
\* time after it has built one.
THEOREM SharedTheorem == Spec => ManagersAreShared
  <1> DEFINE Shared ==
        \A c \in Clusters :
          clusterManagers[c] \notin {Absent, Nil} =>
              /\ clusterManagers'[c] \in {clusterManagers[c], Absent}
              /\ \A k \in Callers :
                    (caller[k].pc = "build" /\ caller[k].cluster = c
                       /\ caller'[k].pc = "answer") =>
                        caller'[k].manager \in {clusterManagers[c], Absent}
  <1>1. ASSUME IInv, [Next]_vars PROVE [Shared]_vars
    <2> SUFFICES ASSUME Next PROVE Shared
      BY <1>1
    <2>0. TypeOK
      BY <1>1 DEF IInv
    <2>1. CASE UNCHANGED <<clusterManagers, caller>>
      BY <2>1
    <2>2. CASE Apply
      BY <2>0, <2>2 DEF Apply, TypeOK, addCluster, removeCluster
    <2>3. ASSUME NEW j \in Callers, NEW d \in Clusters, Lookup(j, d) PROVE Shared
      BY <2>0, <2>3 DEF Lookup, Idle, TypeOK
    <2>4. ASSUME NEW j \in Callers, BuildFails(j) \/ Answer(j) PROVE Shared
      BY <2>0, <2>4 DEF BuildFails, Answer, Idle, TypeOK
    <2>5. ASSUME NEW j \in Callers, Build(j) PROVE Shared
      <3>1. CASE clusterManagers[caller[j].cluster] \notin {Absent, Nil}
        BY <2>0, <2>5, <3>1 DEF Build, Store, TypeOK
      <3>2. CASE clusterManagers[caller[j].cluster] \in {Absent, Nil}
        BY <2>0, <2>5, <3>2 DEF Build, Store, TypeOK
      <3> QED BY <3>1, <3>2
    <2> QED BY <2>1, <2>2, <2>3, <2>4, <2>5
            DEF Next, Watch, HubEvent, Compact, WatchTargets, Close, WatchOnly,
                WatchCancelled, WatchStarts, BackoffEnds, ReceiveExisting,
                Receive, setHubClusterName, Callback, WatchFails, StreamEnds
  <1>2. ManagersAreShared <=> [][Shared]_vars
    BY DEF ManagersAreShared
  <1> QED BY InitInv, StepInv, <1>1, <1>2, PTL DEF Spec
=============================================================================
