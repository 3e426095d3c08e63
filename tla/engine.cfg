CONSTANTS
    j1 = j1  t1 = t1  t2 = t2  w1 = w1  w2 = w2  None = None
    Jobs = {j1}
    Tuples = {t1, t2}
    Workers = {w1, w2}
    Outcomes = {"fares", "unknown", "down"}
    Expirable = {j1}
    MaxPairs = 2
    MaxAttempts = 2
    MaxFaults = 2
    Patient = {j1}
SPECIFICATION PollSpec
SYMMETRY Symmetry
INVARIANTS
    TypeOK
    CompleteMeansSettled
    CountersBounded
    RunningMeansQueued
    EnqueueFailureSurfaces
    FailedMeansAllDead
    CompleteResponseSettled
PROPERTIES
    FinalAfterSubmitIsStable
    ImplementsPromise
CHECK_DEADLOCK FALSE
