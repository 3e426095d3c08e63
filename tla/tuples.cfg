CONSTANTS
    A = A  B = B  C = C  H = H
    Codes = {A, B, C, H}
    Circumference = 6
    MaxRadius = 3
    MaxPairs = 5
    AirportLists <- MCAirportLists
    Graphs <- MCGraphs
    HubLists <- MCHubLists
    Requests <- MCRequests
SPECIFICATION Spec
INVARIANTS
    RowsExact
    RowsDistinct
    LimitExact
\* One request per behaviour.
CHECK_DEADLOCK FALSE
