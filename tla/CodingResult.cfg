\* One attempt, two submissions, two runners: leases, the finish race and the evaluation wait.
\* Two submissions of two weighted tests, and what they are worth.
SPECIFICATION ResultSpec
CONSTANTS
    None = None
    Attempts = {a1}
    Questions = {q1, q2}
    Clients = {c1, c2}
    Workers = {w1, w2}
    Keys = {}
    MaxInFlight = 2
    MaxRuns = 0
    MaxSubmissions = 1
    RunRate = 0
    SubmitRate = 2
    RateWindow = 0
    QueueCap = 3
    Lease = 1
    MaxClaims = 2
    ClaimTries = 2
    Duration = 1
    EvalWait = 1
    MaxJobs = 2
    MaxFaults = 1
    NumTests = 2
    Weights = {1, 2}
    Marks = {2}
    Options = {o1, o2}
    MaxJudged = 2
SYMMETRY ResultSymmetry
INVARIANTS
    ReportedByHolder
    ResultWaits
    JudgedIsCounted
    ScoredByDefinition
