CONSTANTS
    a = a  b = b  r1 = r1  r2 = r2  r3 = r3  r4 = r4  c1 = c1  c2 = c2  None = None
    Emails = {a}
    Allowed = {a}
    Requests = {r1, r2, r3, r4}
    Callbacks = {c1}
    RateLimitPerDay = 2
    RateLimitWindow = 2
    TokenTTL = 1
    SessionTTL = 2
    E2ETestMode = FALSE
    MaxTime = 3
    MaxFaults = 0
SPECIFICATION Spec
SYMMETRY Symmetry
INVARIANT RollingLimit
CHECK_DEADLOCK FALSE
