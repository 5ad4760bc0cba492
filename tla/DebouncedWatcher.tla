-------------------------- MODULE DebouncedWatcher --------------------------
(***************************************************************************)
(* One instance of the watchers under pkg/kubernetes/watcher: Kubeconfig,   *)
(* which is told of file changes by fsnotify, and ClusterState, which polls *)
(* the API groups through the memory-cached discovery client it shares with *)
(* the tool filters.  Both run one goroutine between Watch and Close, both  *)
(* debounce what they notice with a time.AfterFunc timer, and the timer's   *)
(* callback reloads the server.                                             *)
(*                                                                         *)
(* Each critical section of w.mu is one action: nothing blocks inside one   *)
(* and all the watcher's own fields are accessed under w.mu.  The discovery *)
(* cache, the world and the channels are not.                               *)
(***************************************************************************)
EXTENDS Naturals

CONSTANTS WatcherKind,  \* a subset of {"Kubeconfig", "ClusterState"}
          State,        \* what a kubeconfig file or a cluster can look like
          Down,         \* the API server does not answer
          Callback,     \* timer callbacks that can run at the same time
          Closer,       \* goroutines that call Close
          MaxChanges,   \* bound: how often the world changes
          MaxFailures,  \* bound: how often a reload fails
          ReloadsArePrompt, \* a reload ends before the next poll is due
          Nil           \* no value

ASSUME KindAssumption == WatcherKind \subseteq {"Kubeconfig", "ClusterState"}
ASSUME StateAssumption == Nil \notin State /\ Down \in State
ASSUME BoundAssumption == MaxChanges \in Nat /\ MaxFailures \in Nat
ASSUME FlagAssumption == ReloadsArePrompt \in BOOLEAN

VARIABLES
    kind,         \* which of the two watchers this is
    world,        \* the kubeconfig file, or the cluster's API groups
    cache,        \* what the discovery cache holds, or Nil
    applied,      \* what the last successful reload saw
    lastKnown,    \* w.lastKnownState (ClusterState)
    started,      \* w.started
    stopCh,       \* TRUE: w.stopCh is closed
    stoppedCh,    \* TRUE: w.stoppedCh is closed
    starting,     \* Watch has set started and not yet reached its go statement
    loop,         \* the goroutine: "none", "select" or "triggered"
    event,        \* an fsnotify event waits to be received
    armed,        \* w.debounceTimer is running
    callback,     \* per callback: "idle", "reload" or "record"
    closer,       \* per closer: "idle" or "waiting" (on stoppedCh)
    closing,      \* Close has been called (history)
    changes, failures  \* how often the bounded things happened

watcherVars == <<kind, started, stopCh, stoppedCh, starting, closing>>
vars == <<kind, world, cache, applied, lastKnown, started, stopCh, stoppedCh,
          starting, loop, event, armed, callback, closer, closing, changes,
          failures>>

Polls == kind = "ClusterState"

\* A cluster may be unreachable; a file that cannot be loaded is not a state
\* of its own but a reload that fails.
Possible(s) == Polls \/ s # Down

Init == /\ kind \in WatcherKind
        /\ world \in State
        /\ Possible(world)
        /\ cache = IF Polls /\ world # Down THEN world ELSE Nil
        /\ applied = world
        /\ lastKnown = Nil
        /\ started = FALSE
        /\ stopCh = FALSE
        /\ stoppedCh = FALSE
        /\ starting = FALSE
        /\ loop = "none"
        /\ event = FALSE
        /\ armed = FALSE
        /\ callback = [b \in Callback |-> "idle"]
        /\ closer = [c \in Closer |-> "idle"]
        /\ closing = FALSE
        /\ changes = 0
        /\ failures = 0

-----------------------------------------------------------------------------
(* The discovery cache: a read is answered from the cache, an empty cache   *)
(* is filled by the read, an error is not cached, so the next read asks the *)
(* cluster again.  An error is no failure for its readers: captureState     *)
(* takes it for a cluster without API groups, and so do the tool filters.   *)
(* A kubeconfig file is read directly.                                      *)

View == IF cache # Nil THEN cache ELSE world

Refresh == cache' = IF Polls /\ View # Down THEN View ELSE cache

-----------------------------------------------------------------------------
(* Plausible mistakes in this code, used to show that the properties below  *)
(* notice them.                                                             *)

\* A failed reload is recorded like a successful one.
FailureIsRecorded(b) ==
    /\ callback[b] = "reload"
    /\ failures < MaxFailures
    /\ failures' = failures + 1
    /\ callback' = [callback EXCEPT ![b] = IF Polls THEN "record" ELSE "idle"]
    /\ UNCHANGED <<watcherVars, world, cache, applied, lastKnown, loop, event,
                   armed, closer, changes>>

\* The early return for a closed stopCh is missing: two callers wait.
ClosesTwice(c) ==
    /\ closer[c] = "idle"
    /\ armed' = FALSE
    /\ closing' = TRUE
    /\ IF started
       THEN stopCh' = TRUE /\ closer' = [closer EXCEPT ![c] = "waiting"]
       ELSE UNCHANGED <<stopCh, closer>>
    /\ UNCHANGED <<kind, world, cache, applied, lastKnown, started, stoppedCh,
                   starting, loop, event, callback, changes, failures>>

\* The channels are recreated and started is reset without waiting for the
\* goroutine.
DoesNotWait(c) ==
    /\ closer[c] = "waiting"
    /\ started' = FALSE
    /\ stopCh' = FALSE
    /\ stoppedCh' = FALSE
    /\ closer' = [closer EXCEPT ![c] = "idle"]
    /\ UNCHANGED <<kind, world, cache, applied, lastKnown, starting, loop,
                   event, armed, callback, closing, changes, failures>>

\* Stopping leaves the event loop without closing stoppedCh.
StopsSilently ==
    /\ loop = "select"
    /\ stopCh
    /\ loop' = "none"
    /\ event' = FALSE
    /\ UNCHANGED <<watcherVars, world, cache, applied, lastKnown, armed,
                   callback, closer, changes, failures>>

\* The reload works on the kubeconfig that was parsed at start-up.
ReloadsParsedFile(b) ==
    /\ callback[b] = "reload"
    /\ applied' = IF Polls THEN View ELSE applied
    /\ Refresh
    /\ callback' = [callback EXCEPT ![b] = IF Polls THEN "record" ELSE "idle"]
    /\ UNCHANGED <<watcherVars, world, lastKnown, loop, event, armed, closer,
                   changes, failures>>

-----------------------------------------------------------------------------
(* Watch.                                                                   *)

\* The critical section of Watch; a second call finds started and returns.
Watch ==
    /\ ~ started
    /\ started' = TRUE
    /\ starting' = TRUE
    /\ lastKnown' = IF Polls THEN View ELSE lastKnown
    /\ Refresh
    /\ UNCHANGED <<kind, world, applied, stopCh, stoppedCh, loop, event, armed,
                   callback, closer, closing, changes, failures>>

\* The rest of Watch: the files are added to fsnotify, the goroutine starts.
StartLoop ==
    /\ starting
    /\ starting' = FALSE
    /\ loop' = "select"
    /\ UNCHANGED <<kind, world, cache, applied, lastKnown, started, stopCh,
                   stoppedCh, event, armed, callback, closer, closing,
                   changes, failures>>

\* Kubeconfig.Watch returns early: no files to watch, or fsnotify.NewWatcher
\* failed.
StartFails ==
    /\ starting
    /\ ~ Polls
    /\ starting' = FALSE
    /\ UNCHANGED <<kind, world, cache, applied, lastKnown, started, stopCh,
                   stoppedCh, loop, event, armed, callback, closer, closing,
                   changes, failures>>

-----------------------------------------------------------------------------
(* The goroutine's select loop.                                             *)

LoopStops ==
    /\ loop = "select"
    /\ stopCh
    /\ loop' = "none"
    /\ stoppedCh' = TRUE
    /\ event' = FALSE
    /\ UNCHANGED <<kind, world, cache, applied, lastKnown, started, stopCh,
                   starting, armed, callback, closer, closing, changes,
                   failures>>

Quiet == ~ armed /\ \A b \in Callback : callback[b] = "idle"

\* An event is received, or the ticker ticks and the discovery cache is
\* invalidated, both before w.mu is taken.
Trigger ==
    /\ loop = "select"
    /\ Polls \/ event
    /\ Polls /\ ReloadsArePrompt => Quiet
    /\ loop' = "triggered"
    /\ event' = FALSE
    /\ cache' = IF Polls THEN Nil ELSE cache
    /\ UNCHANGED <<watcherVars, world, applied, lastKnown, armed, callback,
                   closer, changes, failures>>

\* The critical section: compare (ClusterState), stop the old timer, start a
\* new one.
Debounce ==
    /\ loop = "triggered"
    /\ loop' = "select"
    /\ armed' = (armed \/ ~ Polls \/ View # lastKnown)
    /\ Refresh
    /\ UNCHANGED <<watcherVars, world, applied, lastKnown, event, callback,
                   closer, changes, failures>>

-----------------------------------------------------------------------------
(* The timer's callback.                                                    *)

TimerFires(b) ==
    /\ armed
    /\ callback[b] = "idle"
    /\ armed' = FALSE
    /\ callback' = [callback EXCEPT ![b] = "reload"]
    /\ UNCHANGED <<watcherVars, world, cache, applied, lastKnown, loop, event,
                   closer, changes, failures>>

\* onChange succeeds: what it read is what is now applied.
Reload(b) ==
    /\ callback[b] = "reload"
    /\ applied' = View
    /\ Refresh
    /\ callback' = [callback EXCEPT ![b] = IF Polls THEN "record" ELSE "idle"]
    /\ UNCHANGED <<watcherVars, world, lastKnown, loop, event, armed, closer,
                   changes, failures>>

\* onChange fails: logged, and lastKnownState keeps its value.
ReloadFails(b) ==
    /\ callback[b] = "reload"
    /\ failures < MaxFailures
    /\ failures' = failures + 1
    /\ callback' = [callback EXCEPT ![b] = "idle"]
    /\ UNCHANGED <<watcherVars, world, cache, applied, lastKnown, loop, event,
                   armed, closer, changes>>

\* ClusterState records what it takes to be the state it reloaded for.
Record(b) ==
    /\ callback[b] = "record"
    /\ lastKnown' = View
    /\ Refresh
    /\ callback' = [callback EXCEPT ![b] = "idle"]
    /\ UNCHANGED <<watcherVars, world, applied, loop, event, armed, closer,
                   changes, failures>>

-----------------------------------------------------------------------------
(* Close.                                                                   *)

\* Up to the wait: the timer is stopped, and stopCh is closed unless there is
\* nothing to stop or another Close has closed it.
CloseBegins(c) ==
    /\ closer[c] = "idle"
    /\ armed' = FALSE
    /\ closing' = TRUE
    /\ IF started /\ ~ stopCh
       THEN stopCh' = TRUE /\ closer' = [closer EXCEPT ![c] = "waiting"]
       ELSE UNCHANGED <<stopCh, closer>>
    /\ UNCHANGED <<kind, world, cache, applied, lastKnown, started, stoppedCh,
                   starting, loop, event, callback, changes, failures>>

\* After the wait: the channels are recreated for a restart.
CloseEnds(c) ==
    /\ closer[c] = "waiting"
    /\ stoppedCh
    /\ started' = FALSE
    /\ stopCh' = FALSE
    /\ stoppedCh' = FALSE
    /\ closer' = [closer EXCEPT ![c] = "idle"]
    /\ UNCHANGED <<kind, world, cache, applied, lastKnown, starting, loop,
                   event, armed, callback, closing, changes, failures>>

-----------------------------------------------------------------------------
\* The file is written or the cluster's API groups change.  fsnotify only
\* reports what happens while the file is watched.
WorldChanges ==
    /\ changes < MaxChanges
    /\ changes' = changes + 1
    /\ world' \in State \ {world}
    /\ Possible(world')
    /\ event' = (event \/ (~ Polls /\ loop # "none"))
    /\ UNCHANGED <<watcherVars, cache, applied, lastKnown, loop, armed,
                   callback, closer, failures>>

Next == \/ Watch \/ StartLoop \/ StartFails
        \/ LoopStops \/ Trigger \/ Debounce
        \/ \E b \in Callback : \/ TimerFires(b) \/ Reload(b)
                               \/ ReloadFails(b) \/ Record(b)
        \/ \E c \in Closer : CloseBegins(c) \/ CloseEnds(c)
        \/ WorldChanges

SafeSpec == Init /\ [][Next]_vars

\* NewServer calls Watch.  Goroutines that can run do run, a running timer fires and the ticker keeps
\* ticking.  select chooses among ready cases at random, so a closed stopCh
\* is not passed over for ever (strong fairness for LoopStops).  Nothing
\* obliges anyone to call Close, and nothing makes a reload fail.
Fairness ==
    /\ WF_vars(Watch /\ ~ closing) /\ WF_vars(StartLoop \/ StartFails)
    /\ SF_vars(LoopStops) /\ WF_vars(Trigger) /\ WF_vars(Debounce)
    /\ WF_vars(\E b \in Callback : TimerFires(b))
    /\ \A b \in Callback : /\ WF_vars(Reload(b) \/ ReloadFails(b))
                           /\ WF_vars(Record(b))
    /\ \A c \in Closer : WF_vars(CloseEnds(c))

Spec == SafeSpec /\ Fairness

-----------------------------------------------------------------------------
(* Properties.                                                              *)

\* The types of the watcher's fields and of its goroutines' control states.
TypeOK ==
    /\ kind \in WatcherKind
    /\ world \in State
    /\ cache \in State \cup {Nil}
    /\ applied \in State
    /\ lastKnown \in State \cup {Nil}
    /\ started \in BOOLEAN
    /\ stopCh \in BOOLEAN
    /\ stoppedCh \in BOOLEAN
    /\ starting \in BOOLEAN
    /\ loop \in {"none", "select", "triggered"}
    /\ event \in BOOLEAN
    /\ armed \in BOOLEAN
    /\ callback \in [Callback -> {"idle", "reload", "record"}]
    /\ closer \in [Closer -> {"idle", "waiting"}]
    /\ closing \in BOOLEAN
    /\ changes \in 0 .. MaxChanges
    /\ failures \in 0 .. MaxFailures

\* At most one Close waits for the goroutine at a time, however many run
\* concurrently and however often the watcher is restarted: stopCh, which
\* each waiting Close has closed, is never closed twice (which would panic).
OneCloseWaits ==
    \A c, d \in Closer :
        closer[c] = "waiting" /\ closer[d] = "waiting" => c = d

\* Close returns with the goroutine gone: a watcher that is not started has no
\* goroutine, so Watch after Close never runs two of them on one set of
\* channels (the second would close stoppedCh twice, which panics).
ClosedMeansStopped == ~ started => loop = "none" /\ ~ starting /\ ~ stoppedCh

\* A Close that stops a running goroutine returns, whatever events, ticks and
\* callbacks compete with it.
CloseOfRunningReturns ==
    \A c \in Closer :
        (closer[c] = "waiting" /\ loop # "none") ~> closer[c] = "idle"

\* "Close stops the kubeconfig watcher": every Close returns.
CloseReturns == \A c \in Closer : closer[c] = "waiting" ~> closer[c] = "idle"

\* The state the server answers for is not the cluster's and the watcher does
\* not know: the cluster was unreachable when the reload read it and reachable
\* again when the state was recorded, an error not being cached in between.
TookOutageForState == applied = Down /\ lastKnown = world

\* WatchTargets "calls the provided McpReload function when changes are
\* detected": once the cluster settles, reachable or not, the last successful
\* reload has seen the state it settled in, whatever failed before, unless
\* the watcher is closed.  The one way to miss it is an API server that comes
\* back between the reload's read and the one that is recorded.
ChangesAreApplied ==
    \A s \in State :
        (<>[](world = s) /\ []~ closing /\ []Polls)
            => <>[](applied = s \/ TookOutageForState)

\* Without that exception: the tools computed during an outage are replaced
\* once the cluster answers again.  The code does not keep this.
RecoveryIsApplied ==
    \A s \in State :
        (<>[](world = s) /\ []~ closing /\ []Polls) => <>[](applied = s)

\* Every file event that is received while the watcher is open leads to a
\* reload attempt that sees that content or a newer one.
EventsAreReloaded ==
    \A s \in State :
        (event /\ world = s)
            ~> (applied = s \/ world # s \/ failures > 0 \/ closing)
=============================================================================
