SPECIFICATION Spec
CONSTANTS
    WatcherKind = {"Kubeconfig", "ClusterState"}
    State = {s1, s2, s3, down}
    Down = down
    Callback = {b1, b2}
    Closer = {c1, c2}
    MaxChanges = 3
    MaxFailures = 2
    ReloadsArePrompt = TRUE
    Nil = Nil
INVARIANTS
    OneCloseWaits
    ClosedMeansStopped
PROPERTIES
    CloseOfRunningReturns
    ChangesAreApplied
    EventsAreReloaded
