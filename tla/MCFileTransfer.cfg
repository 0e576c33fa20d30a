SPECIFICATION FairSpec
CONSTANTS
    Clients = {c1, c2}
    FileLen = 5
    BUFFER_SIZE = 2
    MaxSend = 3
    MaxConns = 4
    MaxFaults = 1
INVARIANTS MessagesFit InStep
PROPERTIES CopiesFile TransferEnds
CHECK_DEADLOCK FALSE
