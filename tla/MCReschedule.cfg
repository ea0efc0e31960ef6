SPECIFICATION Spec
CONSTANTS
    Requests = {r1}
    Weights = {1, 2}
    Targets = {0}
    MinLogs = 1
    MinDays = 2
    MaxLogs = 1
    MaxDay = 2
    MaxVersion = 2
PROPERTIES
    AcceptedIsRescheduled
CHECK_DEADLOCK FALSE
