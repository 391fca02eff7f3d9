\* A publishing connection and another one; one session.
CONSTANTS
    c1 = c1
    c2 = c2
    Ops = {t1}
    Conns <- TwoConns
    Publishers <- OneConns
    Callers <- TwoConnCallers
    Targets = {30}
    MaxEpoch = 9
    MaxPublish = 1
    InitialDelay = 30
    Lingering = TRUE
SPECIFICATION FairSessionSpec
PROPERTIES
    HandlerReturns
