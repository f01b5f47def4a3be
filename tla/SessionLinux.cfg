CONSTANTS
    Platform = "linux"
    IntervalAvailable = TRUE
    MayHang = {2}
    MaxSessions = 2
SPECIFICATION LiveSpec
PROPERTIES
    StoppingEnds
    StartingEnds
    CapturesLive
INVARIANT
    UnaskedIsMuted
