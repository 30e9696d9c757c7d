\* One file, every text of up to 4 bytes over a letter and a line feed.
CONSTANTS
    Byte = {a, n}
    NL = n
    Dirty = dirty
    File = {f1}
    MaxLen = 4
    MaxIns = 2
    NoTree = NoTree
    NoAnswer = NoAnswer
SPECIFICATION Spec
INVARIANTS CacheInSync ExtentInSync MemoInSync
PROPERTY ServiceSpec
