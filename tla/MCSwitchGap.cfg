SPECIFICATION ControllerSpec
CONSTANTS
    Capacity = 3
    KeyBytes = 2
    Delay = 1
    MaxLag = 1
    MaxGop = 1
    Initial = FALSE
PROPERTY SlateInputBuffered
