SPECIFICATION FairSpec
CONSTANTS
    Server = server
    Clients = {c1, c2}
    OpenTime = 10
    FormRetryTime = 1
    JoinRetryTime = 2
    ScanTime = 1
    MAX_CHILDREN = 2
    Faults = {"init", "radio", "serverRestart", "clientRestart"}
    MaxFaults = 2
INVARIANT TypeOK
INVARIANT TryingOnce
PROPERTY NetworkUp
PROPERTY JoinedInWindow
PROPERTY Reconnected
