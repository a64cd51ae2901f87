\* Two requests of the page at a time, two selections, one failure; two sockets a side, one view
\* and one failure of the connection.
SPECIFICATION AppSpec
CONSTANTS
    None = None
    MaxCalls = 2
    MaxEdits = 2
    MaxHolds = 1
    MaxFailures = 1
    MaxRetries = 1
    MaxConnects = 2
    MaxViews = 1
    MaxOffers = 2
    MaxFaults = 1
INVARIANTS
    AnswerIsStored
    EndIsShown
    VideoResumes
    CameraFreed
    PresenceHonest
CHECK_DEADLOCK FALSE
