SPECIFICATION Spec
CONSTANTS
    Requests = {r1, r2}
    Weights = {1, 2}
    Targets = {0}
    MinLogs = 1
    MinDays = 2
    MaxLogs = 1
    MaxDay = 2
    MaxVersion = 2
INVARIANTS
    CooldownBetweenAccepted
CHECK_DEADLOCK FALSE
