CONSTANTS
    Sockets = {1, 2}
    MaxRequests = 1
    MaxPackets = 2

SPECIFICATION FairSpec
CHECK_DEADLOCK FALSE

PROPERTY RefusedOnlyBehindData
