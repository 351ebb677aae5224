SPECIFICATION Spec
CONSTANTS
    Launches = {l1, l2}
    Nobody = Nobody
    OnWindows = FALSE
    MaxCrashes = 2
INVARIANTS
    RestartIsReal
CHECK_DEADLOCK FALSE
