\* Two programs, one adapter that works and one whose code throws.
SPECIFICATION Spec
CONSTANTS
    Adapters = {good, bad}
    Broken = {bad}
    Runners = {r1, r2}
    MaxRetries = 1
    MaxTurns = 2
INVARIANTS
    LitTypeOK
    OwnOutputsInOrder
    TurnsAreComplete
PROPERTIES
    OwnOutputsKept
    TurnsEnd
CHECK_DEADLOCK FALSE
