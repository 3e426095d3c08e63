CONSTANTS
    api = api  worker = worker  keyless = keyless  t1 = t1  t2 = t2
    Processes = {api, worker}
    APIs = {api}
    Misconfigured = {}
    Tasks = {t1}
    Last = 1
    Rerunnable = {}
    MaxFaults = 0
    MaxSignals = 1
SPECIFICATION ProcFairSpec
PROPERTY APIsDrain
