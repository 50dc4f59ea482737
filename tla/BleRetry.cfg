SPECIFICATION FairSpec
CONSTANTS
    ImageSize = 10
    SectorSize = 4
    PacketSize = 3
    RingSize = 8
    StopMayClear = FALSE
    MaxUploads = 2
    Faults = {"interrupt"}
    MaxFaults = 1
CHECK_DEADLOCK FALSE
PROPERTY UploadInstalled
