SPECIFICATION Spec
CONSTANTS
    Scenes = {sceneA, sceneB}
    EnableScene = slateE
    ReturnScene = slateR
    Slots = {1, 2}
    Budgets <- MCBudgets
CHECK_DEADLOCK FALSE
INVARIANTS
    DockTypeOK
    SlateHome
    ConnectedRuns
    AutoOnce
    GuardSpares
PROPERTIES
    DockCatchesUp
    BlockedStreamEnds
