SPECIFICATION Spec
CONSTANTS
    t1 = t1
    t2 = t2
    Threads = {t1, t2}
    MaxRunning = 1
    Retries = 1
    Lease = 1
    RetryDelay = 1
    Cooldown = 1
    Delay = 1
    MaxClaims = 3
    MaxTime = 3
    MaxVersion = 2
INVARIANTS
    IInv
    LeaseHolderOwnsJob
    RunningCap
    SuccessMatchesOutput
    SelectedWasConsolidated
PROPERTIES
    SuccessNeverRegresses
CHECK_DEADLOCK FALSE
SYMMETRY Symmetry
