\* One connection that publishes twice; sleeping goroutines of the first session
\* are still there in the second.
CONSTANTS
    c1 = c1
    c2 = c2
    Ops = {t1, t2}
    Conns <- OneConns
    Publishers <- OneConns
    Callers <- OneConnCallers
    Targets = {30}
    MaxEpoch = 9
    MaxPublish = 2
    InitialDelay = 0
    Lingering = TRUE
SPECIFICATION SessionSpec
SYMMETRY Symmetry
PROPERTIES
    StaleNeverSteers
