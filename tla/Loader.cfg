\* Up to five messages through a channel of two.
CONSTANTS
    p = p
    q = q
    r = r
    Path = {p, q, r}
    Layouts <- MCLayouts
    Capacity = 2

    None = None
SPECIFICATION Spec
INVARIANTS TypeOK FlowInOrder WholeResult
PROPERTIES AtomicLoad Loaded
CHECK_DEADLOCK FALSE
