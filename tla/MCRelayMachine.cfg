\* Two operations at a time, one session goroutine.
CONSTANTS
    Ops = {t1, t2}
    Callers = {c1}
    Targets = {30}
    MaxEpoch = 1
SPECIFICATION FairSpec
INVARIANTS
    TypeOK
    ConnectionFlags
    NoOrphanPending
    NoOrphanSlate
PROPERTIES
    PendingEnds
    WorkEnds
