\* An interview with up to two questions and one candidate, two requests at once; and two questions of an adaptive interview,
\* one request and one run at a time, one fault.
SPECIFICATION InterviewSpec
CONSTANTS
    None = None
    Bank <- TwoQuestions
    QuestionCount = 2
    FollowUpsEnabled = TRUE
    MaxFollowUps = 1
    Adaptive = TRUE
    MinLevel = 1
    StartLevel = 2
    MaxLevel = 3
    Configured = TRUE
    Signals <- SomeSignals
    MaxRuns = 1
    Windows = {w1}
    Runners = {r1}
    MaxQueued = 1
    MaxFaults = 1
    Candidates = {c1}
    Topics = {t1, t2}
    Requests = {a1, a2}
    Numbers = {1, 2}
    Counts = {1, 2}
    MaxEdits = 2
INVARIANTS
    AskedOnEvidence
    OnePaper
CHECK_DEADLOCK FALSE
