----------------------- MODULE DebouncedWatcherProofs -----------------------
(***************************************************************************)
(* Proofs about DebouncedWatcher, for any number of closers and callbacks,  *)
(* any restarts, and with an fsnotify that may fail to start.               *)
(***************************************************************************)
EXTENDS DebouncedWatcher, TLAPS

\* The channels, the started flag and the goroutine agree: a goroutine (or a
\* Watch about to start it) exists only between Watch and the end of Close,
\* stoppedCh is closed only after stopCh, and stopCh is closed exactly while
\* a Close waits.
Channels ==
    /\ starting \/ loop # "none" \/ stopCh => started
    /\ starting => loop = "none"
    /\ stoppedCh => stopCh /\ loop = "none" /\ ~ starting
    /\ \A c \in Closer : closer[c] = "waiting" => stopCh

IInv == TypeOK /\ Channels /\ OneCloseWaits

-----------------------------------------------------------------------------
\* A new watcher has the right types.
LEMMA InitTypes == Init => TypeOK
  <1> SUFFICES ASSUME Init PROVE TypeOK
    OBVIOUS
  <1>1. /\ kind \in WatcherKind /\ world \in State
        /\ cache \in State \cup {Nil} /\ applied \in State
        /\ lastKnown \in State \cup {Nil}
    BY DEF Init
  <1>2. /\ callback \in [Callback -> {"idle", "reload", "record"}]
        /\ closer \in [Closer -> {"idle", "waiting"}]
    BY DEF Init
  <1>3. changes \in 0 .. MaxChanges /\ failures \in 0 .. MaxFailures
    BY BoundAssumption DEF Init
  <1> QED
    BY <1>1, <1>2, <1>3 DEF Init, TypeOK

\* Every action keeps the types.
LEMMA TypesStep == TypeOK /\ [Next]_vars => TypeOK'
  <1> SUFFICES ASSUME TypeOK, [Next]_vars PROVE TypeOK'
    OBVIOUS
  <1> USE DEF TypeOK
  <1>1. CASE Watch
    BY <1>1 DEF Watch, Refresh, View
  <1>2. CASE StartLoop \/ StartFails
    BY <1>2 DEF StartLoop, StartFails
  <1>3. CASE LoopStops
    BY <1>3 DEF LoopStops
  <1>4. CASE Trigger
    BY <1>4 DEF Trigger, watcherVars
  <1>5. CASE Debounce
    BY <1>5 DEF Debounce, Refresh, View, watcherVars
  <1>6. ASSUME NEW b \in Callback, TimerFires(b) PROVE TypeOK'
    BY <1>6 DEF TimerFires, watcherVars
  <1>7. ASSUME NEW b \in Callback, Reload(b) PROVE TypeOK'
    BY <1>7 DEF Reload, Refresh, View, watcherVars
  <1>8. ASSUME NEW b \in Callback, ReloadFails(b) PROVE TypeOK'
    BY <1>8, BoundAssumption DEF ReloadFails, watcherVars
  <1>9. ASSUME NEW b \in Callback, Record(b) PROVE TypeOK'
    BY <1>9 DEF Record, Refresh, View, watcherVars
  <1>10. ASSUME NEW c \in Closer, CloseBegins(c) PROVE TypeOK'
    BY <1>10 DEF CloseBegins
  <1>11. ASSUME NEW c \in Closer, CloseEnds(c) PROVE TypeOK'
    BY <1>11 DEF CloseEnds
  <1>12. CASE WorldChanges
    BY <1>12, BoundAssumption DEF WorldChanges, watcherVars
  <1>13. CASE UNCHANGED vars
    BY <1>13 DEF vars
  <1> QED
    BY <1>1, <1>2, <1>3, <1>4, <1>5, <1>6, <1>7, <1>8, <1>9, <1>10, <1>11,
       <1>12, <1>13 DEF Next

\* Closing stopCh only when it is open and recreating it only after the
\* goroutine is gone keeps at most one Close waiting and the channels in step
\* with the goroutine.
LEMMA ChannelsStep == IInv /\ [Next]_vars => Channels' /\ OneCloseWaits'
  <1> SUFFICES ASSUME IInv, [Next]_vars PROVE Channels' /\ OneCloseWaits'
    OBVIOUS
  <1> USE DEF IInv, TypeOK, Channels, OneCloseWaits
  <1>1. CASE Watch
    BY <1>1 DEF Watch
  <1>2. CASE StartLoop \/ StartFails
    BY <1>2 DEF StartLoop, StartFails
  <1>3. CASE LoopStops
    BY <1>3 DEF LoopStops
  <1>4. CASE Trigger \/ Debounce
    BY <1>4 DEF Trigger, Debounce, watcherVars
  <1>5. ASSUME NEW b \in Callback,
               TimerFires(b) \/ Reload(b) \/ ReloadFails(b) \/ Record(b)
        PROVE Channels' /\ OneCloseWaits'
    BY <1>5 DEF TimerFires, Reload, ReloadFails, Record, watcherVars
  <1>6. ASSUME NEW c \in Closer, CloseBegins(c)
        PROVE Channels' /\ OneCloseWaits'
    <2>1. CASE started /\ ~ stopCh
      BY <1>6, <2>1 DEF CloseBegins
    <2>2. CASE ~ (started /\ ~ stopCh)
      BY <1>6, <2>2 DEF CloseBegins
    <2> QED
      BY <2>1, <2>2
  <1>7. ASSUME NEW c \in Closer, CloseEnds(c)
        PROVE Channels' /\ OneCloseWaits'
    BY <1>7 DEF CloseEnds
  <1>8. CASE WorldChanges
    BY <1>8 DEF WorldChanges, watcherVars
  <1>9. CASE UNCHANGED vars
    BY <1>9 DEF vars
  <1> QED
    BY <1>1, <1>2, <1>3, <1>4, <1>5, <1>6, <1>7, <1>8, <1>9 DEF Next

\* IInv is an invariant of the watchers.
THEOREM Invariant == SafeSpec => []IInv
  <1>1. Init => IInv
    BY InitTypes DEF Init, IInv, Channels, OneCloseWaits
  <1>2. IInv /\ [Next]_vars => IInv'
    BY TypesStep, ChannelsStep DEF IInv
  <1> QED
    BY <1>1, <1>2, PTL DEF SafeSpec

\* The fields of a watcher and the control states of its goroutines keep
\* their types.
THEOREM TypeCorrect == SafeSpec => []TypeOK
  <1>1. IInv => TypeOK
    BY DEF IInv
  <1> QED
    BY <1>1, Invariant, PTL

\* stopCh is never closed twice: of any number of concurrent Close calls at
\* most one closes it and waits.
THEOREM CloseOnce == SafeSpec => []OneCloseWaits
  <1>1. IInv => OneCloseWaits
    BY DEF IInv
  <1> QED
    BY <1>1, Invariant, PTL

\* A closed watcher has no goroutine and fresh channels, so a restart runs one
\* goroutine and stoppedCh is never closed twice.
THEOREM Stopped == SafeSpec => []ClosedMeansStopped
  <1>1. IInv => ClosedMeansStopped
    BY DEF IInv, TypeOK, Channels, ClosedMeansStopped
  <1> QED
    BY <1>1, Invariant, PTL
=============================================================================
