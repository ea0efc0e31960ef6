SPECIFICATION Spec
CONSTANTS
    Words <- MCWords
    WordOrder <- MCWordOrder
    Requests = {r1, r2, r3}
    Batches <- MCBatches
    InitLists <- MCInitLists
SYMMETRY Symmetry
INVARIANTS
    TypeOK
    CardsWithinLog
    AgreeUnlessRaced
    NobodyStuck
PROPERTIES
    NeverBlankedAgain
    ImplementsHistory
CHECK_DEADLOCK FALSE
