SPECIFICATION FairSpec
CONSTANTS
    c1 = c1
    c2 = c2
    f1 = f1
    Clients = {c1}
    Foreign = {}
    ImageSize = 3
    FirstBlock = 1
    BlockSize = 2
    Modulus = 4
    Faults = {"loss", "timeout", "clientRestart", "serverRestart", "flash", "garbled"}
    MaxFaults = 2
INVARIANT OffsetInImage
PROPERTY SessionEnds
