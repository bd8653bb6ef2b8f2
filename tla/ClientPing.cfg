\* Three calls of ping(), each of which may time out.
SPECIFICATION FairSpec
CONSTANT MaxPings = 3
INVARIANTS
    OnePing
    FreshPong
    NoLostPong
PROPERTY PongEndsPing
CHECK_DEADLOCK FALSE
