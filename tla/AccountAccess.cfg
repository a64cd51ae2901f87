\* Two concurrent requests of two sign-ins, two attempts that expire, go silent and are submitted.
\* Two reset codes and a change of the password, three connections for two slots, two events about
\* two subjects.
SPECIFICATION AccessSpec
CONSTANTS
    None = None
    Requests = {r1, r2}
    Sessions = {s1, s2}
    MaxAttempts = 2
    Duration = 2
    TakeoverAfter = 1
    SeenInterval = 1
    MaxTime = 2
    Codes = {c1, c2}
    MaxPasswords = 2
    Sockets = {k1, k2, k3}
    MaxSockets = 2
    Recheck = 2
    Subjects = {u1, u2}
    Admins = {a1, a2}
    MaxAge = 1
    Keep = 2
    MaxEvents = 2
    MaxHours = 3
SYMMETRY RequestSymmetry
INVARIANTS
    OneOpenAttempt
    AccessFollows
    AlertsAnswerEvents
PROPERTY
    NeverReopened
CHECK_DEADLOCK FALSE
