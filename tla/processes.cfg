CONSTANTS
    api = api  worker = worker  keyless = keyless  t1 = t1  t2 = t2
    Processes = {api, worker, keyless}
    APIs = {api}
    Misconfigured = {keyless}
    Tasks = {t1, t2}
    Last = 2
    Rerunnable = {2}
    MaxFaults = 2
    MaxSignals = 2
SPECIFICATION ProcFairSpec
INVARIANTS
    ProcTypeOK
    AppliedOnce
    AppliedInOrder
    ServesMigrated
PROPERTIES
    AllComeUp
    WorkersDrain
    SignalEnds
