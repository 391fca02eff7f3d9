\* A second connection that opens and closes without publishing.
CONSTANTS
    c1 = c1
    c2 = c2
    Ops = {t1}
    Conns <- TwoConns
    Publishers <- OneConns
    Callers <- TwoConnCallers
    Targets = {30}
    MaxEpoch = 9
    MaxPublish = 1
    InitialDelay = 0
    Lingering = FALSE
SPECIFICATION SessionSpec
INVARIANTS
    DelayedMeansDelayed
