\* A file loaded at start and one the server first hears of from the editor.
CONSTANTS
    a = a
    accent = accent
    emoji = emoji
    lf = lf
    disk = disk
    added = added
    outside = outside
    Char = {a, accent, emoji, lf}
    LF = lf
    ByteLen <- MCByteLen
    Utf16Len <- MCUtf16Len
    File = {disk, added}
    Rooted = {disk, added}
    Disk <- MCDisk
    OpenTexts <- MCOpenTexts
    Inserts <- MCInserts
    MaxDoc = 2
    MaxChanges = 2
    MaxSent = 3
    Dirty = Dirty
    NoTree = NoTree
    NoAnswer = NoAnswer
    NoReply = NoReply
    Whole = Whole
    None = None
SPECIFICATION Spec
PROPERTY Converges
CHECK_DEADLOCK FALSE
