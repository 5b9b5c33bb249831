CONSTANTS
    Players = {1, 2}
    Cities = {1}
    Settings <- MCSettings
    EndTurn = 2
    Owners = {1, 2}
    MaxIncidents = 2

SPECIFICATION FairSpec
CHECK_DEADLOCK FALSE

INVARIANT CopyFollows
INVARIANT ThreadWhileNeeded
PROPERTY NobodyCutShort
PROPERTY WhoeverIsLastEndsTheTurn
PROPERTY MessagesHeard
PROPERTY TurnsEnd
