\* A file loaded at start and one outside every source root; the editor sends
\* four messages with two changes between them.
CONSTANTS
    a = a
    accent = accent
    emoji = emoji
    lf = lf
    disk = disk
    added = added
    outside = outside
    Char = {a, accent, emoji, lf}
    LF = lf
    ByteLen <- MCByteLen
    Utf16Len <- MCUtf16Len
    File = {disk, outside}
    Rooted = {disk}
    Disk <- MCDisk
    OpenTexts <- MCOpenTexts
    Inserts <- MCInserts
    MaxDoc = 2
    MaxChanges = 2
    MaxSent = 4
    Dirty = Dirty
    NoTree = NoTree
    NoAnswer = NoAnswer
    NoReply = NoReply
    Whole = Whole
    None = None
SPECIFICATION Spec
INVARIANTS Mirror AnswersAsked
PROPERTIES PanicsOutsideOnly SyntaxSpec
CHECK_DEADLOCK FALSE
