\* One attempt, runs and submissions with retried keys: the limits of concurrent requests.  One
\* question's code in two windows or on two visits.
SPECIFICATION CodingSpec
CONSTANTS
    None = None
    Attempts = {a1}
    Questions = {q1, q2, q3}
    Clients = {c1, c2}
    Workers = {w1}
    Keys = {k1}
    MaxInFlight = 2
    MaxRuns = 1
    MaxSubmissions = 1
    RunRate = 1
    SubmitRate = 1
    RateWindow = 0
    QueueCap = 3
    Lease = 1
    MaxClaims = 1
    ClaimTries = 1
    Duration = 2
    EvalWait = 1
    MaxJobs = 3
    MaxFaults = 0
    Pages = {p1, p2}
    MaxEdits = 3
    MaxSaves = 4
    MaxFailures = 1
SYMMETRY CodingSymmetry
INVARIANTS
    LimitsHold
    SavedIsStored
PROPERTY
    NothingUnseenReplaced
CHECK_DEADLOCK FALSE
