SPECIFICATION Spec
CONSTANTS
    Nil = Nil
    NoList = NoList
    Main = main
    Reloader = {sighup}
    Watcher = {watch}
    Call = {call}
    Toolset <- MCToolset
    Config <- MCConfig
    Target <- MCTarget
    Name <- MCName
    Item <- MCItem
    Bad <- MCBad
    Valid <- MCValid
    Surface <- MCSurface
INVARIANTS
    SurfaceMatchesConfiguration
    NothingRefusedIsServed
    SnapshotsAreWarm
PROPERTIES
    Transactional
    AppliesFinish
