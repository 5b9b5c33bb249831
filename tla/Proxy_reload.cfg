CONSTANTS
    Sockets = {1, 2}
    MaxRequests = 1
    MaxPackets = 2

SPECIFICATION FairSpec
CHECK_DEADLOCK FALSE

INVARIANT RequestsInOrder
INVARIANT PacketsInOrder
INVARIANT EntriesOfOpenSockets
PROPERTY RefusedOnlyBehindRequests
PROPERTY LeavesNothing
PROPERTY QueuedIsSent
