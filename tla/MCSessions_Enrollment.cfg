SPECIFICATION SessionSpec
CONSTANTS
    Browsers = {b1}
    Requests = {q1, q2}
    NoToken = NoToken
    NoSecret = NoSecret
    Idle = Idle
    Lifetime = 2
    CookieAge = 4
    MaxTime = 4
    MaxSecrets = 2
    MaxRestarts = 1
CHECK_DEADLOCK FALSE
PROPERTY
    EnrollmentIsFinal
