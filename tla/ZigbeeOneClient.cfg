SPECIFICATION FairSpec
CONSTANTS
    c1 = c1
    c2 = c2
    f1 = f1
    Clients = {c1}
    Foreign = {f1}
    ImageSize = 3
    FirstBlock = 1
    BlockSize = 2
    Modulus = 8
    Faults = {"clientRestart"}
    MaxFaults = 3
INVARIANT BlocksInStep
INVARIANT CheckedImageIsIntact
INVARIANT CompleteDownloadAccepted
PROPERTY FinishRestarts
PROPERTY Updated
