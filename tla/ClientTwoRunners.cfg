\* Two threads, two attempts.
SPECIFICATION Spec
CONSTANTS
    t1 = t1
    t2 = t2
    Callers <- TwoCallers
    Attempts = 2
    None = None
INVARIANT SingleThreaded
CHECK_DEADLOCK FALSE
