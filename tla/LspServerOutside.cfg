\* The editor opens a file outside every source root and asks about it.
CONSTANTS
    a = a
    accent = accent
    emoji = emoji
    lf = lf
    disk = disk
    added = added
    outside = outside
    Char = {a, accent, emoji, lf}
    LF = lf
    ByteLen <- MCByteLen
    Utf16Len <- MCUtf16Len
    File = {disk, outside}
    Rooted = {disk}
    Disk <- MCDisk
    OpenTexts <- MCOpenTexts
    Inserts <- MCInserts
    MaxDoc = 2
    MaxChanges = 2
    MaxSent = 2
    Dirty = Dirty
    NoTree = NoTree
    NoAnswer = NoAnswer
    NoReply = NoReply
    Whole = Whole
    None = None
SPECIFICATION Spec
INVARIANT ConvertKnowsFile
CHECK_DEADLOCK FALSE
