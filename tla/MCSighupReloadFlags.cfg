SPECIFICATION Spec
CONSTANTS
    readOnlyFlag = TRUE
    File <- MCFile
    Rejected <- MCRejected
    Unreadable = unreadable
    Flags <- MCFlags
    Token <- MCToken
    Request = {q1}
    Nil = Nil
INVARIANT
    FlagsWin
