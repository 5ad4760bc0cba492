CONSTANTS
    Tools <- AllTools
    Prompts <- AllPrompts
    Settings <- MCSettings
    Services <- AllServices
    NoList = NoList
    None = None
SPECIFICATION Spec
INVARIANTS
    ConfirmedBeforeSent
    TemporaryObjectsRemoved
    ReadOnlyLeavesNothing
    DestructiveDisabledDeletesNothing
    FailedCallsChangedNothing
    PromptsAreBestEffort
