SPECIFICATION Spec
CONSTANTS
    NoList = NoList
    None = None
    Toolset <- MCToolset
    Kinds <- MCKinds
    RawOnly <- MCRawOnly
    Configs <- MCConfigs
    Default <- MCDefault
    Providers <- MCProviders
    FirstProvider <- MCFirstProvider
    Requests <- MCRequests
    Tails <- MCTails
    MaxLines = 7
INVARIANTS
    DistinctToolNames
    OneTargetList
    PathsAreUnderstood
    DeniedPathsRefused
    GrepKeepsLastMatches
PROPERTY
    TighteningOnlyRemoves
CHECK_DEADLOCK FALSE
