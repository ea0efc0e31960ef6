SPECIFICATION Spec
CONSTANTS
    Words <- MCWords
    WordOrder <- MCWordOrder
    Requests = {r1, r2}
    Batches <- MCBatches
    InitLists <- MCInitLists
PROPERTIES
    EveryRequestEnds
CHECK_DEADLOCK FALSE
