SPECIFICATION Spec
CONSTANTS
    MaxBuffer = 1
    ReadSize = 2
    RtcmSize <- MCRtcmSize
    RxCap = 2
    TxCap = 1
    HistorySize = 1
    MaxPlugs = 2
    MaxBytes = 3
    MaxMessages = 3
INVARIANTS
    TypeOK
    OneDescriptor
    BufferFromOneOpen
    CutMessageEndsSession
    CountsMatchLine
PROPERTIES
    CallbacksReturn
    ClosedPortReopens
    HungUpPortClosed
