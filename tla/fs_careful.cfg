\* Coordinated calls, also against the abstract file system: two names, and
\* two bytes, so that contents can be told apart.
CONSTANTS
    n1 = n1
    n2 = n2
    n3 = n3
    long = long
    b1 = b1
    b2 = b2
    NoName = NoName
    Unwritten = Unwritten
    Closed = Closed
    Names <- TwoNames
    LongNames <- TooLong
    Bytes <- TwoBytes
    InodeCount = 3
    BlockCount = 3
    BlockSize = 2
    OpenFiles = 2
    DirEntries = 2
    WordSize = 16
    MaxIO = 2
    MaxOffset = 3
SYMMETRY NameAndByteSymmetry
SPECIFICATION CarefulSpec
INVARIANTS
    NoBlockLeaks
    OffsetsWithinFile
    StaysAlive
PROPERTY ImplementsFiles
