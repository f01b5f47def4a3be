CONSTANTS
    Platform = "windows"
    IntervalAvailable = FALSE
    MayHang = {}
    MaxSessions = 2
    Fade = 3
    RingCap = 3
    Backlog = 2
    Chunks <- ChunksMC
    Frames <- FramesMC
SPECIFICATION MLiveSpec
INVARIANTS
    MTypeOK
    StopsWithinFade
PROPERTIES
    OnlyTheNewest
    FadeSettles
    EngagesByItself
