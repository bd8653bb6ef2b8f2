\* Three calls on a table of two entries: one call meets a full table unless
\* an earlier one has left it.
SPECIFICATION CacheSpec
CONSTANTS
    c1 = c1
    c2 = c2
    c3 = c3
    Calls <- ThreeCalls
    NoCall = NoCall
    MaxEntries = 2
    MaxId = 3
SYMMETRY CallSymmetry
INVARIANTS
    OwnAnswer
    NoLostWakeup
    SuccessErases
    NoAnswerDropped
PROPERTY RefinesRpcCall
CHECK_DEADLOCK FALSE
