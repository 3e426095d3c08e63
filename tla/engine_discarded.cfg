CONSTANTS
    j1 = j1  t1 = t1  t2 = t2  w1 = w1  w2 = w2  None = None
    Jobs = {j1}
    Tuples = {t1, t2}
    Workers = {w1, w2}
    Outcomes = {"fares", "down"}
    Expirable = {}
    MaxPairs = 2
    MaxAttempts = 2
    MaxFaults = 0
SPECIFICATION Spec
SYMMETRY Symmetry
INVARIANT DiscardedRowSettled
CHECK_DEADLOCK FALSE
