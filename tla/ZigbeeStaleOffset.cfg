SPECIFICATION Spec
CONSTANTS
    c1 = c1
    c2 = c2
    f1 = f1
    Clients = {c1}
    Foreign = {}
    ImageSize = 3
    FirstBlock = 1
    BlockSize = 2
    Modulus = 8
    Faults = {"loss"}
    MaxFaults = 1
INVARIANT CompleteDownloadAccepted
