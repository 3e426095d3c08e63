CONSTANTS
    c1 = c1  c2 = c2  c3 = c3  k1 = k1  None = None
    Callers = {c1, c2, c3}
    Burst = 1
    MaxConcurrent = 1
    Keys = {k1}
SPECIFICATION WorkFairSpec
INVARIANTS
    WorkTypeOK
    InFlightBounded
    UnitsAccounted
    ProviderCallsBounded
    CacheBacked
PROPERTIES
    OnlyAnswersSettle
    WaitReturns
