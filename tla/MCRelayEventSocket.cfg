SPECIFICATION Spec
CONSTANTS
    MaxWire = 3
    MaxBreaks = 2
PROPERTY EventsHeard
