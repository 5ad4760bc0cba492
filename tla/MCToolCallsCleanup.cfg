CONSTANTS
    Tools <- AllTools
    Prompts <- AllPrompts
    Settings <- ConfirmDeletes
    Services <- AllServices
    NoList = NoList
    None = None
SPECIFICATION Spec
INVARIANT
    TemporaryObjectsRemoved
