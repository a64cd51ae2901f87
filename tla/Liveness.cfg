\* Two submissions, one runner and one fault; two requests of an exam and one crash; an
\* interview of one question and its follow-up.
SPECIFICATION LiveSpec
CONSTANTS
    None = None
    Requests = {r1, r2}
    Runners = {r1}
    Attempts = {a1}
    Questions = {q1, q2}
    Clients = {c1}
    Workers = {w1}
    Keys = {}
    MaxInFlight = 2
    MaxRuns = 0
    MaxSubmissions = 1
    RunRate = 0
    SubmitRate = 2
    RateWindow = 0
    QueueCap = 3
    Lease = 1
    MaxClaims = 2
    ClaimTries = 2
    Duration = 1
    EvalWait = 1
    MaxJobs = 2
    MaxFaults = 1
PROPERTIES
    ResultProduced
    JobsFinish
    ExpiredIsFinished
    MovesOn
CHECK_DEADLOCK FALSE
