CONSTANTS
    Conns = {1, 2, 3}
    Percent = 50
    MaxVotes = 2
    Demoted = {2}
    Targets = {2}

SPECIFICATION FairSpec

INVARIANT VotesOfThePresent
PROPERTY RemovedByMajority
PROPERTY FailsOnlyWhenLost
PROPERTY VotesEnd
