\* A departure, a return and a departure again, queued while the connection is down.
SPECIFICATION EvidenceSpec
CONSTANTS
    None = None
    Scenes = {"events"}
    Events = {e1, e2}
    Requests = {r1, r2}
    Post = 1
    Grace = 0
    Cooldown = 2
    MaxClips = 2
    MaxUploads = 1
    Retention = 1
    AttemptKept = 1
    MaxTime = 2
    MaxCrashes = 1
    Kinds = {"focus"}
    Deadline = 2
    RepeatWindow = 1
    DedupeWindow = 1
    MaxRows = 3
    MaxReports = 3
    MaxPending = 3
    MaxBreaks = 1
    MaxRestarts = 0
SYMMETRY ClipSymmetry
INVARIANT
    NothingLost
CHECK_DEADLOCK FALSE
