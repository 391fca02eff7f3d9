SPECIFICATION FairControllerSpec
CONSTANTS
    Capacity = 3
    KeyBytes = 2
    Delay = 1
    MaxLag = 1
    MaxGop = 1
    Initial = TRUE
INVARIANTS ControllerTypeOK Accounted LiveAfterBuffer RealtimeIsEmpty
PROPERTIES NeverEarly NoSilentGap StartsAtKeyframe OperationEnds
