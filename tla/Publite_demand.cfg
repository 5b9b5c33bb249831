CONSTANTS
    GameTypes <- MCTypes
    Capacity <- MCCapacity
    ServerLimit = 1
    RetryCalls = 1
    MaxServers = 3
    Bounds <- MCBounds

SPECIFICATION FairSpec
CHECK_DEADLOCK FALSE

INVARIANT OffersAreTrue
INVARIANT LimitKept
INVARIANT NoForkBomb
PROPERTY GamesBecomeKnown
PROPERTY ServersComeFree
