\* Any calls in any order: three names for two directory entries, so that the
\* directory fills up before the inode table does.
CONSTANTS
    n1 = n1
    n2 = n2
    n3 = n3
    long = long
    b1 = b1
    b2 = b2
    NoName = NoName
    Unwritten = Unwritten
    Closed = Closed
    Names <- ThreeNames
    LongNames <- TooLong
    Bytes <- OneByte
    InodeCount = 4
    BlockCount = 3
    BlockSize = 2
    OpenFiles = 2
    DirEntries = 2
    WordSize = 16
    MaxIO = 2
    MaxOffset = 3
SYMMETRY ThreeNameSymmetry
SPECIFICATION Spec
INVARIANTS
    TypeOK
    DirectoryConsistent
    ClearsTheEntryFound
    BlockOwnership
PROPERTIES
    DiesOnlyPastEnd
    StrandedOnlyByEmptying
CHECK_DEADLOCK FALSE
