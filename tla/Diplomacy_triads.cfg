CONSTANTS
    N = 3
    Team <- EveryoneAlone
    NoDiplomacy = {}
    Unborn = {}
    TurnsLeft = 2
    Senators = {1, 2}
    Grievances <- NoGrievances

SPECIFICATION Spec
VIEW WithoutMaxState

INVARIANT NoLoveLoveHate
PROPERTY PairsFollowLadder
PROPERTY SenatesKeepPeace
