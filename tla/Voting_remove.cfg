CONSTANTS
    Conns = {1, 2, 3, 4}
    Percent = 50
    MaxVotes = 2
    Demoted = {}
    Targets = {1, 2, 3, 4}

SPECIFICATION Spec

INVARIANT LoopsStayOnList
