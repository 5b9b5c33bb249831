CONSTANTS
    Setups <- AdvanceSetups
    MaxClauses = 2
    MaxRequests = 1
    MaxPackets = 1

SPECIFICATION Spec

INVARIANT ListsAgree
