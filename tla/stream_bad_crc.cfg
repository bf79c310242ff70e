SPECIFICATION StreamSpec
CONSTANTS
    Byte <- MCByte
    BinarySync <- MCBinarySync
    Newline = 10
    CarriageReturn = 13
    LineStart <- MCLineStart
    HeaderSize = 3
    CrcSize = 1
    LengthAt = 3
    LengthOf <- MCLengthOf
    Crc <- MCCrc
    Options <- MCOptions
    binary_max_frame_size = 8
    Chunk <- NoMessage
    MaxReceived = 0
    Message <- FramesOnly
    Damaged <- BadCrc
    MaxMessages = 1
    MaxDamaged = 1
INVARIANT OneResyncPerBadCrc
CHECK_DEADLOCK FALSE
