\* Two threads of the application, two workers.
SPECIFICATION FairSpec
CONSTANTS
    p1 = p1
    p2 = p2
    Apps <- TwoApps
    NumWorkers = 2
    None = None
PROPERTY StopEnds
CHECK_DEADLOCK FALSE
