\* Five contracts; the server asks about the last, and about one of its bases.
CONSTANTS
    A = A
    B = B
    C = C
    D = D
    X = X
    Lib = Lib
    Contract = {A, B, C, D, X}
    Other = {Lib}
    Unresolved = Unresolved
    Hierarchies <- MCHierarchies
    Asked = {B, X}
    None = None
SPECIFICATION Spec
INVARIANTS Linear KeepsOrder NotGivenUp PanicsNarrow
PROPERTY Answered
CHECK_DEADLOCK FALSE
