\* Three files of the root with up to two imports each, and four files of which
\* one has two.
CONSTANTS
    f1 = f1
    f2 = f2
    f3 = f3
    f4 = f4
    foreign = foreign
    File = {f1, f2, f3, f4}
    Foreign = {foreign}
    Missing = Missing
    Graphs <- MCGraphs
SPECIFICATION Spec
INVARIANTS TypeOK Sound Complete NamesFound PanicsNarrow
PROPERTY Terminates
CHECK_DEADLOCK FALSE
