CONSTANTS
    Parts = {"linux"}
    MaxPackets = 3
    Clients = {"c1", "c2"}
    MaxNodes = 2
    MaxSessions = 2
    To = 4
    Half = 2
    Rates = {1, 2, 3, 5, 6, 7, 8, 9, 11, 12, 13, 17}
    Chunks = {0, 1, 2, 3, 5}
    MaxFed = 40
SPECIFICATION MCSpec
INVARIANTS MostTrustworthyFirst
CHECK_DEADLOCK FALSE
