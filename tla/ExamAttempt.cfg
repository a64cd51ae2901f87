\* Three concurrent requests, two focus reports against a limit of one, one save, one crash,
\* the clock up to the deadline (time stands still after it).
SPECIFICATION Spec
CONSTANTS
    None = None
    q1 = q1
    o1 = o1
    o2 = o2
    Requests = {r1, r2, r3}
    EventIds = {e1, e2}
    Questions <- MCQuestions
    SingleAnswer <- MCQuestions
    Options <- MCOptions
    Key <- MCKey
    Duration = 1
    TabSwitchLimit = 1
    MaxTime = 1
    MaxSaves = 1
    MaxCrashes = 1
SYMMETRY IdSymmetry
INVARIANTS
    FinishIsWhole
PROPERTY
    RefinesLifecycle
