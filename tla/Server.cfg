\* Two threads of the application, three workers.
SPECIFICATION FairSpec
CONSTANTS
    p1 = p1
    p2 = p2
    Apps <- TwoApps
    NumWorkers = 3
    None = None
INVARIANTS
    WorkersJoined
    StopServed
    JoinSafe
PROPERTIES
    StopReturns
    RefinesServerLife
CHECK_DEADLOCK FALSE
