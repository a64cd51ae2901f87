\* Two events that make clips, two requests and a crash; three reports of focus, face and clipboard,
\* a queue of two, one broken connection or restart, the deadline at tick 2.
SPECIFICATION EvidenceSpec
CONSTANTS
    None = None
    Scenes = {"clips", "events"}
    Events = {e1, e2}
    Requests = {r1, r2}
    Post = 1
    Grace = 0
    Cooldown = 2
    MaxClips = 2
    MaxUploads = 1
    Retention = 1
    AttemptKept = 1
    MaxTime = 2
    MaxCrashes = 1
    Kinds = {"focus", "face", "paste"}
    Deadline = 2
    RepeatWindow = 1
    DedupeWindow = 1
    MaxRows = 3
    MaxReports = 3
    MaxPending = 2
    MaxBreaks = 1
    MaxRestarts = 1
SYMMETRY ClipSymmetry
INVARIANTS
    VideosNamed
    ClipsSpaced
    EventsInOrder
    RiskByDefinition
PROPERTIES
    HoldKept
    EvidenceStands
CHECK_DEADLOCK FALSE
