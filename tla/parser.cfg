\* Lines and frames of all logs, whole and cut, and the status of the parsers.
SPECIFICATION Spec
CONSTANTS
    None = None
    Scenes <- MCScenes
    Sent <- MCSent
    RecentUnknownIdsLimit = 2
    MaxCount = 4
INVARIANT DecodedAsSent
PROPERTY AnomaliesReportedOnce
