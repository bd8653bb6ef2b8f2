\* The pong arrives between the post and the reset of m_pong.
SPECIFICATION Spec
CONSTANT MaxPings = 1
INVARIANT PongReported
CHECK_DEADLOCK FALSE
