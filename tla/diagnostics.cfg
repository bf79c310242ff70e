CONSTANTS
    None = None
    DataTimeout = 1
    BinaryNavTimeout = 2
    Old = 3
    RecentLimit = 1
    RtcmTimeout = 1
    SatelliteTimeout = 2
    RfTimeout = 2
    RawTimeout = 2
    BestnavFloor = 2
    Window = 2
    HistorySize = 2
    Backends <- MCBackends
    Profiles <- MCProfiles
    Content <- MCContent
    Setups <- MCSetups
SPECIFICATION DSpec
INVARIANTS
    TypeOK
    StatusIsOwn
    DTypeOK
    OkMeansEvidence
    LostBackendNotOK
    LossIsError
PROPERTIES
    ImplementsPreference
    RegressionOnlyOnLostFix
    SilenceReported
