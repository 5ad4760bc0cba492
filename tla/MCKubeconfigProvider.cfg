SPECIFICATION Spec
CONSTANTS
    Context = {"c1", "c2"}
    NoContext = ""
    Content <- MCContent
    Broken = Broken
    Request = {r1}
    Callback = {main, timer}
    Main = main
    MaxWrites = 2
    MaxResets = 2
    Absent = Absent
    Lazy = Lazy
INVARIANTS
    DefaultHasManager
    NoStaleManager
    TargetsCoverContexts
    AdvertisedDefault
PROPERTY
    NobodyIsStuck
CHECK_DEADLOCK FALSE
