\* Clashing definitions, nested scopes, overloads, inheritance, using and two files
SPECIFICATION AnalysisSpec
CONSTANTS
    Trees <- MCTrees
    Programs <- MCPrograms
INVARIANTS
    IdsUnique
    DefsMatchScopes
    LocalsLexical
    OverloadCheapest
    DotItemsResolve
    BuildPanicsNarrow
    HoverAgrees
    OfferedIsMeant
PROPERTY
    RequestSpec
\* A panic ends the server.
CHECK_DEADLOCK FALSE
