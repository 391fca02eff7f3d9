\* One connection that publishes twice; the old session's goroutines are gone
\* when the platform accepts the new one.
CONSTANTS
    c1 = c1
    c2 = c2
    Ops = {t1, t2}
    Conns <- OneConns
    Publishers <- OneConns
    Callers <- OneConnCallers
    Targets = {30}
    MaxEpoch = 9
    MaxPublish = 2
    InitialDelay = 0
    Lingering = FALSE
SPECIFICATION SessionSpec
SYMMETRY Symmetry
INVARIANTS
    SessionTypeOK
    DelayedMeansDelayed
    RealtimeMeansLive
    DelayedHasTarget
    ErrorHasMessage
    WorkingIsPending
PROPERTIES
    EndedNeverMoves
    MachineSpec
