CONSTANTS
    Platform = "linux"
    IntervalAvailable = TRUE
    MayHang = {}
    MaxSessions = 2
SPECIFICATION LiveSpec
PROPERTIES
    TargetExitEndsCapture
