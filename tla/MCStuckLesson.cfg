SPECIFICATION RetrySpec
CONSTANTS
    l1 = l1
    l2 = l2
    l3 = l3
    w1 = w1
    w2 = w2
    w3 = w3
    Requests = {r1}
    Lessons = {l1}
    Words = {w1}
    FirstWords <- MCOneLesson
    FirstCourse = {l1}
    NewWords = {}
    MaxBreaks = 1
PROPERTIES
    CompletedGetsUnlocked
