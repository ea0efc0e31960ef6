SPECIFICATION Spec
CONSTANTS
    l1 = l1
    l2 = l2
    l3 = l3
    w1 = w1
    w2 = w2
    w3 = w3
    Requests = {r1, r2}
    Lessons = {l1, l2, l3}
    Words = {w1, w2, w3}
    FirstWords <- MCFirstWords
    FirstCourse = {l1, l2}
    NewWords <- MCNewWords
    MaxBreaks = 1
SYMMETRY Symmetry
INVARIANTS
    TypeOK
    CourseIsSound
    UnlockingIsSound
    SessionsFromOverlap
PROPERTIES
    CourseStaysCompleted
