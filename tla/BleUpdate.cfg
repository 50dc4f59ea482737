SPECIFICATION FairSpec
CONSTANTS
    ImageSize = 10
    SectorSize = 4
    PacketSize = 3
    RingSize = 8
    StopMayClear = TRUE
    MaxUploads = 3
    Faults = {"interrupt", "powerCycle", "flash", "stack"}
    MaxFaults = 2
CHECK_DEADLOCK FALSE
INVARIANT TypeOK
INVARIANT BootImageIntact
INVARIANT SectorWhole
INVARIANT PacketsFit
INVARIANT GivesUpOnlyCutShort
PROPERTY SafeUpdateSpec
PROPERTY StreamSpec
PROPERTY HostGetsOn
PROPERTY DoneMeansUpdated
