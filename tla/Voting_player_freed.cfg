CONSTANTS
    Conns = {1, 2, 3}
    Percent = 50
    MaxVotes = 2
    Demoted = {}
    Targets = {1, 2, 3}

SPECIFICATION Spec

INVARIANT NoPlayerFreedInUse
