CONSTANTS
    Players = {1, 2}
    Cities = {1}
    Settings <- MCNoTimeout
    EndTurn = 2
    Owners = {2}
    MaxIncidents = 1

SPECIFICATION FairSpec
CHECK_DEADLOCK FALSE

PROPERTY DoneTurnsEnd
