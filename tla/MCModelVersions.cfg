SPECIFICATION Spec
CONSTANTS
    Requests = {r1, r2}
    Weights = {1, 2}
    Targets = {0, 1}
    MinLogs = 1
    MinDays = 1
    MaxLogs = 1
    MaxDay = 2
    MaxVersion = 4
SYMMETRY Symmetry
INVARIANTS
    TypeOK
    VersionsDense
    CurrentWasAccepted
    WeightsOfCurrentVersion
    CooldownUnlessOverlapped
PROPERTIES
    ImplementsLog
CHECK_DEADLOCK FALSE
