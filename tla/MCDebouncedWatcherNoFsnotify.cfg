SPECIFICATION Spec
CONSTANTS
    WatcherKind = {"Kubeconfig"}
    State = {s1, s2, down}
    Down = down
    Callback = {b1}
    Closer = {c1}
    MaxChanges = 2
    MaxFailures = 1
    ReloadsArePrompt = TRUE
    Nil = Nil
PROPERTY
    CloseReturns
CHECK_DEADLOCK FALSE
