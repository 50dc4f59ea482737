SPECIFICATION FairSpec
CONSTANTS
    ImageSize = 2
    MaxRetry = 1
    ApPresent = TRUE
    Faults = {"outage", "http", "split", "flash", "driver", "powerCycle"}
    MaxFaults = 4
INVARIANT TypeOK
INVARIANT GaveUpForGood
INVARIANT SemaphoreAlive
PROPERTY NewerOnly
PROPERTY WaitEnds
PROPERTY Updated
