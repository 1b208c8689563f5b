SPECIFICATION Spec
CONSTANTS
    Threads = {t1, t2}
    MaxCalls = 2
    MaxFaults = 2
CHECK_DEADLOCK FALSE
SYMMETRY Symmetry
INVARIANT ErrorsAreRaised
