\* Five workspaces, discovered in every order, and three writes in each.
SPECIFICATION RegistrySpec
CONSTANTS
    Worlds <- MCWorlds
    NameOrder <- MCNameOrder
    None = None
    MaxWrites = 3
INVARIANTS
    AllDiscovered
    DependencyJustified
    OneInput
    OpenAgreesWithLoad
    MapsCurrent
    PanicsNarrow
CHECK_DEADLOCK FALSE
