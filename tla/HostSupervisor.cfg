SPECIFICATION HsFairSpec
CONSTANTS
    AutoRestartOnce = TRUE
    MaxManual = 2
INVARIANTS
    HsTypeOK NothingLeft SignalsOwn
PROPERTIES RestartOnce HealthyKept CrashAnswered
CHECK_DEADLOCK FALSE
