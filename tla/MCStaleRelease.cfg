\* A goroutine that wakes up in the next session gives back its claim.
CONSTANTS
    c1 = c1
    c2 = c2
    Ops = {t1, t2}
    Conns <- OneConns
    Publishers <- OneConns
    Callers <- OneConnCallers
    Targets = {30}
    MaxEpoch = 9
    MaxPublish = 2
    InitialDelay = 0
    Lingering = TRUE
SPECIFICATION SessionSpec
INVARIANTS
    WorkingIsPending
