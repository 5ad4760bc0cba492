CONSTANTS
    Tools <- AllTools
    Prompts <- AllPrompts
    Settings <- ReadOnly
    Services <- AllServices
    NoList = NoList
    None = None
SPECIFICATION Spec
INVARIANT
    ReadOnlySendsNoWrites
