CONSTANTS
    Cap = 4
    Word = 8
    Backlog = 2
    Chunks <- ChunksMC
    Frames <- FramesMC
    MaxOffered = 10
SPECIFICATION Spec
PROPERTIES
    LatencyBounded
