CONSTANTS
    MaxSessions = 2
SPECIFICATION Spec
INVARIANTS
    RacingStartConverges
\* Two captures, and then there is nothing left to do.
CHECK_DEADLOCK FALSE
