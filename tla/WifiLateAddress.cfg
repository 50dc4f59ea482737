SPECIFICATION Spec
CONSTANTS
    ImageSize = 2
    MaxRetry = 1
    ApPresent = TRUE
    Faults = {"outage"}
    MaxFaults = 2
PROPERTY ConnectedOrTrying
