SPECIFICATION Spec
CONSTANTS
    Keys = {k1, k2}
    Urls = {u1}
    Collections = {c1, c2}
    None = None
    Missing = Missing
    MaxEvents = 4
CHECK_DEADLOCK FALSE
INVARIANTS
    SettingsTypeOK
    SupervisorSound
    DockFollows
    RelayUsesSaved
    SetupSurvives
PROPERTIES
    LifeSteps
    RegisterSteps
    ServiceFixedOnAir
    RestartEnds
