CONSTANTS
    Platform = "windows"
    IntervalAvailable = TRUE
    MayHang = {}
    MaxSessions = 2
SPECIFICATION LiveSpec
INVARIANTS
    TypeOK
    OneProducer
    IdleIsQuiet
    UnknownErrorMeansExit
    RunningHasFormat
    StatusAtWorstStopping
PROPERTIES
    ReportNotLost
    WorkersKeepContract
    TargetExitEndsCapture
