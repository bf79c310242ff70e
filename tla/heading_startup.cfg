CONSTANTS
    None = None
    DataTimeout = 1
    BinaryNavTimeout = 2
    Old = 3
    RecentLimit = 2
    Backends <- MCBackends
    Profiles <- MCProfiles
    Content <- MCContent
SPECIFICATION Spec
INVARIANT NoZeroedHeading
