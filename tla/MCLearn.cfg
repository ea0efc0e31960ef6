SPECIFICATION LearnSpec
CONSTANTS
    Calls = {s1, c1}
    Learners = {s1}
    MaxDay = 5
    MaxTries = 2
    Requests = {r1, r2}
    Users = {u1, u2}
    Words = {w1, w2}
    NoteUsers = {v1}
    NoteRequests = {r1, r2, r3}
SYMMETRY Symmetry
INVARIANTS
    LearnTypeOK
    NeverTooLong
    ExactUnlessRaced
    ReviewsExplained
    StaleIsExplained
    OneWordPerEntry
    NotesAreKept
CHECK_DEADLOCK FALSE
