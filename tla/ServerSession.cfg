\* A queue of three messages and four messages in all: the queue overflows, and
\* drains, while broadcasts and responses compete.  Two pings may be pending.
SPECIFICATION FairSpec
CONSTANTS
    QueueMax = 3
    MaxMsgs = 4
    MaxPings = 2
INVARIANTS
    OneWrite
    Delivery
    CloseOnce
    EndServed
PROPERTIES
    SessionEnds
    SilentPeerRemoved
CHECK_DEADLOCK FALSE
