CONSTANTS
    Setups <- ConsistentSetups
    MaxClauses = 2
    MaxRequests = 1
    MaxPackets = 1

SPECIFICATION Spec

INVARIANT MeetingsAgree
INVARIANT ListsAgree
INVARIANT ThumbsAgree
