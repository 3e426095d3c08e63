CONSTANTS
    a = a  b = b  r1 = r1  r2 = r2  r3 = r3  r4 = r4  c1 = c1  c2 = c2  None = None
    Emails = {a, b}
    Allowed = {a}
    Requests = {r1, r2, r3}
    Callbacks = {c1, c2}
    RateLimitPerDay = 1
    RateLimitWindow = 2
    TokenTTL = 1
    SessionTTL = 1
    E2ETestMode = TRUE
    MaxTime = 2
    MaxFaults = 1
SPECIFICATION Spec
SYMMETRY Symmetry
INVARIANTS
    TypeOK
    SingleUse
    SessionsInvited
    RollingBound
    OnlyErrorsLockOut
CHECK_DEADLOCK FALSE
