SPECIFICATION SessionSpec
CONSTANTS
    Browsers = {b1}
    Requests = {q1, q2, q3}
    NoToken = NoToken
    NoSecret = NoSecret
    Idle = Idle
    Lifetime = 2
    CookieAge = 4
    MaxTime = 4
    MaxSecrets = 2
    MaxRestarts = 1
SYMMETRY Symmetry
CHECK_DEADLOCK FALSE
INVARIANTS
    PasswordIsRecent
    LoggedOutStaysOut
    NotLockedOut
