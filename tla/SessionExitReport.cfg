CONSTANTS
    Platform = "windows"
    IntervalAvailable = TRUE
    MayHang = {}
    MaxSessions = 2
SPECIFICATION Spec
INVARIANTS
    ExitReportedAsExit
