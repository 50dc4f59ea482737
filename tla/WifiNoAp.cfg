SPECIFICATION FairSpec
CONSTANTS
    ImageSize = 2
    MaxRetry = 1
    ApPresent = FALSE
    Faults = {}
    MaxFaults = 0
PROPERTY StopsTrying
