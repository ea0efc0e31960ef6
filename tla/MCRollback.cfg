SPECIFICATION Spec
CONSTANTS
    Requests = {r1, r2}
    Weights = {1, 2}
    Targets = {0, 1}
    MinLogs = 1
    MinDays = 2
    MaxLogs = 1
    MaxDay = 3
    MaxVersion = 4
SYMMETRY Symmetry
INVARIANTS
    CurrentVersionNamesWeights
CHECK_DEADLOCK FALSE
