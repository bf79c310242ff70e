SPECIFICATION Spec
CONSTANTS
    Byte <- MCByte
    BinarySync <- MCBinarySync
    Newline = 10
    CarriageReturn = 13
    LineStart <- MCLineStart
    HeaderSize = 3
    CrcSize = 1
    LengthAt = 3
    LengthOf <- MCLengthOf
    Crc <- MCCrc
    Options <- MCOptions
    binary_max_frame_size = 5
    Chunk <- MCChunk
    MaxReceived = 8
INVARIANTS
    TypeOK
    BufferIsStreamSuffix
    CandidatesAccounted
    FramesAreGenuine
    EventsDisjoint
    ResidueIsPartial
    FramesIndependentOfReads
    LinesIndependentOfReads
PROPERTY
    DrainReturns
