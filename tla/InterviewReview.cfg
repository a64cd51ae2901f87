\* One question with its follow-up, two runs at a time; an administrator with an old page.
SPECIFICATION ReviewSpec
CONSTANTS
    None = None
    Bank <- OneQuestion
    QuestionCount = 1
    FollowUpsEnabled = TRUE
    MaxFollowUps = 1
    Adaptive = FALSE
    MinLevel = 1
    StartLevel = 2
    MaxLevel = 2
    Configured = TRUE
    Signals <- SomeSignals
    MaxRuns = 1
    Windows = {w1}
    Runners = {r1, r2}
    MaxQueued = 1
    MaxFaults = 0
    Admins = {a1}
    Outcomes = {o1, o2}
    Marks = {agree}
    MaxDecisions = 2
INVARIANTS
    BasisStands
    DecisionsSeen
SYMMETRY ReviewSymmetry
CHECK_DEADLOCK FALSE
