CONSTANTS
    N = 3
    Team <- FirstTwoTogether
    NoDiplomacy = {}
    Unborn = {}
    TurnsLeft = 2
    Senators = {2}
    Grievances <- NoGrievances

SPECIFICATION Spec

INVARIANT NoLoveLoveHate
