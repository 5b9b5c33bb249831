CONSTANTS
    N = 3
    Team <- EveryoneAlone
    NoDiplomacy = {3}
    Unborn = {2, 3}
    TurnsLeft = 2
    Senators = {1}
    Grievances <- OneAgainstTwo

SPECIFICATION FairSpec

INVARIANT IInv
INVARIANT SidesAgree
INVARIANT ClocksAgree
INVARIANT MaxStateSane
PROPERTY DeadKeepPacts
PROPERTY CeasefireEnds
PROPERTY ArmisticeEnds
