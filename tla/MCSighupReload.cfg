SPECIFICATION Spec
CONSTANTS
    readOnlyFlag = FALSE
    File <- MCFile
    Rejected <- MCRejected
    Unreadable = unreadable
    Flags <- MCFlags
    Token <- MCToken
    Request = {q1}
    Nil = Nil
INVARIANTS
    SnapshotIsWhole
    ReloadedTogether
    NeverMisconfigured
    SinkOutlivesHandler
PROPERTIES
    LastSignalWins
    StopReturns
