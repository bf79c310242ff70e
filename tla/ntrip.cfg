SPECIFICATION Spec
CONSTANTS
    Param <- MCParam
    Value <- MCValue
    Initial <- MCInitial
    Refused <- MCRefused
    Batch <- MCBatch
    DesiredCount = 2
    MaxFix = 2
    MaxSets = 3
INVARIANTS
    TypeOK
    SnapshotIsWhole
    AcceptedParamsInForce
    HeaderNotFreedInUse
    FailedRequestBacksOff
PROPERTIES
    ReconfigureHappens
    GgaEventuallyForwarded
    ShutdownCompletes
