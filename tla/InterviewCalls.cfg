\* A candidate and two administrators, three sockets, two negotiations of two attempts, one fault or
\* retry.
SPECIFICATION Spec
CONSTANTS
    None = None
    Candidate = c
    Interviewers = {i1, i2}
    MaxAttempts = 2
    MaxSockets = 2
    MaxConnects = 3
    MaxOffers = 2
    MaxTroubles = 1
SYMMETRY AdminSymmetry
INVARIANT
    CallSettles
CHECK_DEADLOCK FALSE
