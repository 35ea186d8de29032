SPECIFICATION PjFairSpec
CONSTANTS
    Names <- TwoNames
    MaxMutations = 3
    MaxCrashes = 2
    MaxFaults = 3
INVARIANTS PjTypeOK Detectable HealthyAgrees OutcomeKept
PROPERTIES IncompleteUntouched RecoveryCompletes
CHECK_DEADLOCK FALSE
