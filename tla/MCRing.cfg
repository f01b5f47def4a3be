CONSTANTS
    Cap = 4
    Word = 8
    Backlog = 2
    Chunks <- ChunksMC
    Frames <- FramesMC
    MaxOffered = 10
SPECIFICATION Spec
INVARIANTS
    TypeOK
    NoSlotConflict
    CountersAgree
PROPERTIES
    HeardInOrder
    LatencyBoundedWithoutLoss
    QueueSpec
