SPECIFICATION GenerativeSpec
CONSTANTS
    Requests = {r1, r2}
    Turns = {t1, t2}
    TurnsLimit = 2
    MaxTurns = 3
    Sessions = {s1, s2}
    Tasks = {k1, k2}
    MaxMessages = 2
    MaxSegments = 6
    ChunkWords = 3
    TargetVocab = 2
    TargetQuiz = 3
    MaxGenerations = 2
    Files = {f1, f2}
    Sourced = {f1}
    MaxContent = 2
SYMMETRY Symmetry
INVARIANTS
    GenerativeTypeOK
    TurnsAreKept
    PlayIsKept
    TurnsAreJustified
    ListeningIsSound
    RowsDescribeUploads
CHECK_DEADLOCK FALSE
