\* Two administrators at work on a review; one or both of them on an exam of up to three questions
\* and one candidate.
\* One coding problem with two versions, two requests at once.
SPECIFICATION AdministrationSpec
CONSTANTS
    None = None
    Writers = {w1, w2}
    Content <- Records
    Outcomes = {cleared, flagged}
    MaxEvents = 2
    MaxRecords = 6
    Candidates = {c1}
    Ids = {q1, q2, q3}
    Problems = {p1}
    Texts = {t1, t2}
    Marked = {1}
    Totals = {1, 2}
    MaxShared = 1
    Solutions = {s1, s2}
    Inputs = {1}
    Outputs = {1, 2}
    MaxVersions = 2
    MaxJobs = 1
    MaxEdits = 2
    MaxOpen = 2
SYMMETRY PeopleSymmetry
INVARIANTS
    ChainHolds
    DecidedInTurn
    TrailTells
    PaperWellFormed
    ValidatedAsItStands
PROPERTY
    PaperSettles
    PublishedStands
CHECK_DEADLOCK FALSE
