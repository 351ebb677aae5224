SPECIFICATION Spec
CONSTANTS
    RestartPhase = TRUE
    MaxDeaths = 2
    MaxOutages = 2
INVARIANTS
    DeathIsReported
CHECK_DEADLOCK FALSE
