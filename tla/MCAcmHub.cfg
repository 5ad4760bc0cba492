CONSTANTS
    Clusters = {local, spoke}
    Local = local
    LocalName = local
    Callers = {k1, k2}
    Absent = Absent
    Nil = Nil
    Unset = Unset
    MaxEvents = 2
    MaxManagers = 2
SPECIFICATION Spec
INVARIANTS
    TargetsAreHistory
PROPERTIES
    ManagersAreShared
    TargetsFollowHub
CHECK_DEADLOCK FALSE
