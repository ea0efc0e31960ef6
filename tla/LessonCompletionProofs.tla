----------------------- MODULE LessonCompletionProofs -----------------------
(* What holds of lesson completion for any number of requests, lessons and *)
(* words, wherever requests are cut short and whatever authors edit.       *)
EXTENDS LessonCompletion, FiniteSetTheorems, TLAPS

(***************************************************************************)
(* The inductive invariant.                                                *)
(*   Current   while no author edits, what a request read of its lesson    *)
(*             and of the course is what the catalog says.                 *)
(*   Unlocks   from the unlocking on a request's words are unlocked; the   *)
(*             words it will read again, and those it has, are its first   *)
(*             ones and words added late.                                  *)
(*   Finisher  when the last lesson of the course is marked, the request   *)
(*             that marked it has the count still before it.               *)
(*   Alone     a lesson no two requests found not completed has one        *)
(*             session, or one request that may still write it, or none.   *)
(***************************************************************************)

AfterMark   == {"unlock", "enrol", "list", "count", "finish", "words", "cards", "session"}
AfterUnlock == {"enrol", "list", "count", "finish", "words", "cards", "session", "completed"}
ToCount     == {"unlock", "enrol", "list", "count", "finish"}

Current(s, cat) ==
    s.pc \in Open =>
        /\ s.words = cat.words[s.lesson]
        /\ s.inCourse = (s.lesson \in cat.course)
        /\ s.pc \in {"count", "finish"} => s.siblings = cat.course

Unlocks(s) ==
    /\ s.pc \in AfterUnlock => s.words \subseteq unlocked
    /\ s.pc \in BetweenReads => catalog.words[s.lesson] \subseteq s.words \union late
    /\ s.pc = "cards" => s.init \subseteq s.words \union late

Earned(s) == s.pc = "finish" => s.siblings \subseteq done

Finisher ==
    (breaks = 0 /\ ~edited /\ catalog.course # {} /\ catalog.course \subseteq done)
        => \/ course = "completed"
           \/ \E r \in Requests : req[r].pc \in ToCount /\ req[r].inCourse

Writing(s, l) == s.lesson = l /\ s.pc \in {"mark"} \union AfterMark

Marked(s) == s.pc \in AfterMark => s.lesson \in done

Alone(l) ==
    /\ sessions[l] <= 1
    /\ \A p, q \in Requests : Writing(req[p], l) /\ Writing(req[q], l) => p = q
    /\ \A p \in Requests : Writing(req[p], l) => sessions[l] = 0

SessionsInv ==
    /\ TypeOK
    /\ \A r \in Requests : Marked(req[r])
    /\ \A l \in Lessons :
         /\ l \notin done => sessions[l] = 0
         /\ l \notin overlapped => Alone(l)

LessonInv ==
    /\ TypeOK
    /\ CardsAreUnlocked
    /\ Finisher
    /\ \A r \in Requests :
         /\ ~edited => Current(req[r], catalog)
         /\ Unlocks(req[r]) /\ Earned(req[r])

-----------------------------------------------------------------------------
LEMMA NothingTyped == Nothing \in Request /\ Nothing.pc = "idle"
BY LessonsAssumption DEF Nothing, Request, Answered

LEMMA InitTyped == Init => TypeOK
<1> SUFFICES ASSUME Init PROVE TypeOK
  OBVIOUS
<1>1. catalog \in [words : [Lessons -> SUBSET Words], course : SUBSET Lessons]
  BY LessonsAssumption DEF Init
<1>2. req \in [Requests -> Request] /\ breaks \in 0..MaxBreaks
  BY NothingTyped, LessonsAssumption DEF Init
<1> QED
  BY <1>1, <1>2 DEF Init, TypeOK

\* A request holds a lesson, and words, of the catalog.
LEMMA RequestTyped ==
    ASSUME TypeOK, NEW r \in Requests
    PROVE  /\ req[r] \in Request
           /\ req[r].lesson \in Lessons
           /\ req[r].words \subseteq Words /\ req[r].init \subseteq Words
           /\ catalog.words \in [Lessons -> SUBSET Words]
           /\ catalog.words[req[r].lesson] \subseteq Words
           /\ catalog.course \subseteq Lessons
BY DEF TypeOK, Request

\* Moving a request on keeps the types of the requests.
LEMMA GotoTyped ==
    ASSUME TypeOK, NEW r \in Requests, NEW pc \in Open \union Answered, Goto(r, pc)
    PROVE  req' \in [Requests -> Request]
<1>1. req[r] \in Request
  BY DEF TypeOK
<1>2. [req[r] EXCEPT !.pc = pc] \in Request
  BY <1>1 DEF Request
<1> QED
  BY <1>2 DEF TypeOK, Goto

LEMMA EndsTyped ==
    ASSUME TypeOK, NEW r \in Requests, NEW pc \in Answered, Ends(r, pc)
    PROVE  req' \in [Requests -> Request]
<1>1. [Nothing EXCEPT !.pc = pc, !.words = req[r].words] \in Request
  BY NothingTyped, RequestTyped DEF Request
<1> QED
  BY <1>1 DEF TypeOK, Ends

\* Every step keeps the types.
LEMMA StepTyped == TypeOK /\ [Next]_vars => TypeOK'
<1> SUFFICES ASSUME TypeOK, [Next]_vars PROVE TypeOK'
  OBVIOUS
<1> USE DEF Open, Answered, tables, history
<1>1. CASE UNCHANGED vars
  BY <1>1 DEF TypeOK, vars, tables, history
<1>2. ASSUME NEW r \in Requests, NEW l \in Lessons, Complete(r, l) PROVE TypeOK'
  <2>1. [Nothing EXCEPT !.pc = "check", !.lesson = l, !.words = catalog.words[l],
                        !.inCourse = l \in catalog.course] \in Request
    <3>1. ASSUME NEW b \in BOOLEAN, NEW ws \in SUBSET Words
          PROVE  [Nothing EXCEPT !.pc = "check", !.lesson = l, !.words = ws,
                                 !.inCourse = b] \in Request
      BY NothingTyped DEF Request
    <3>2. catalog.words[l] \in SUBSET Words /\ (l \in catalog.course) \in BOOLEAN
      BY DEF TypeOK
    <3> QED
      BY <3>1, <3>2, Zenon
  <2> QED
    BY <1>2, <2>1 DEF TypeOK, Complete
<1>3. ASSUME NEW r \in Requests, CheckStatus(r) PROVE TypeOK'
  BY <1>3, GotoTyped, EndsTyped, RequestTyped DEF TypeOK, CheckStatus
<1>4. ASSUME NEW r \in Requests, MarkCompleted(r) PROVE TypeOK'
  BY <1>4, GotoTyped, RequestTyped DEF TypeOK, MarkCompleted
<1>5. ASSUME NEW r \in Requests, UnlockWords(r) PROVE TypeOK'
  BY <1>5, GotoTyped, RequestTyped DEF TypeOK, UnlockWords, ToUnlock
<1>6. ASSUME NEW r \in Requests, Enrol(r) PROVE TypeOK'
  BY <1>6, GotoTyped, RequestTyped DEF TypeOK, Enrol, Enrolled
<1>7. ASSUME NEW r \in Requests, ListLessons(r) PROVE TypeOK'
  <2>1. [req[r] EXCEPT !.pc = "count", !.siblings = catalog.course] \in Request
    BY RequestTyped DEF Request
  <2> QED
    BY <1>7, <2>1 DEF TypeOK, ListLessons
<1>8. ASSUME NEW r \in Requests, CountCompleted(r) PROVE TypeOK'
  BY <1>8, GotoTyped, RequestTyped DEF TypeOK, CountCompleted
<1>9. ASSUME NEW r \in Requests, FinishCourse(r) PROVE TypeOK'
  BY <1>9, GotoTyped, RequestTyped DEF TypeOK, FinishCourse
<1>10. ASSUME NEW r \in Requests, LoadWords(r) PROVE TypeOK'
  <2>1. [req[r] EXCEPT !.pc = "cards", !.init = WordsToInit(req[r])] \in Request
    BY RequestTyped DEF Request, WordsToInit
  <2> QED
    BY <1>10, <2>1 DEF TypeOK, LoadWords
<1>11. ASSUME NEW r \in Requests, InitFsrsCards(r) PROVE TypeOK'
  BY <1>11, GotoTyped, RequestTyped DEF TypeOK, InitFsrsCards
<1>12. ASSUME NEW r \in Requests, CreateSession(r) PROVE TypeOK'
  BY <1>12, EndsTyped, RequestTyped DEF TypeOK, CreateSession
<1>13. ASSUME NEW r \in Requests, Break(r) PROVE TypeOK'
  BY <1>13, EndsTyped, LessonsAssumption DEF TypeOK, Break
<1>14. CASE AddWord
  <2>1. PICK p \in NewWords :
           /\ catalog' = [catalog EXCEPT !.words[p[1]] = @ \cup {p[2]}]
           /\ late' = late \cup {w \in {p[2]} : InTheMiddle(p[1])}
    BY <1>14 DEF AddWord
  <2>2. p[2] \in Words
    BY LessonsAssumption
  <2>3. catalog'.words \in [Lessons -> SUBSET Words] /\ catalog'.course = catalog.course
    BY <2>1, <2>2 DEF TypeOK
  <2>4. catalog' \in [words : [Lessons -> SUBSET Words], course : SUBSET Lessons]
    BY <2>1, <2>3 DEF TypeOK
  <2>5. late' \subseteq Words
    BY <2>1, <2>2 DEF TypeOK
  <2> QED
    BY <1>14, <2>4, <2>5 DEF TypeOK, AddWord
<1>15. CASE AddLesson
  BY <1>15 DEF TypeOK, AddLesson
<1> QED
  BY <1>1, <1>2, <1>3, <1>4, <1>5, <1>6, <1>7, <1>8, <1>9, <1>10, <1>11, <1>12,
     <1>13, <1>14, <1>15 DEF Next, Handler

\* The tables and the requests keep their types.
THEOREM LessonTyped == Spec => []TypeOK
BY InitTyped, StepTyped, PTL DEF Spec

-----------------------------------------------------------------------------
\* A completed course stays completed: no statement of any request writes
\* another status over it, however old what it read.
LEMMA StepKeepsCourse == TypeOK /\ [Next]_vars => (course = "completed" => course' = "completed")
BY DEF Next, vars, tables, history, Handler, Complete, CheckStatus, MarkCompleted, UnlockWords, Enrol, Enrolled,
   ListLessons, CountCompleted, FinishCourse, LoadWords, InitFsrsCards, CreateSession, Break,
   AddWord, AddLesson

\* No request, however slow, takes the completion of a course back.
THEOREM CourseKept == Spec => CourseStaysCompleted
BY InitTyped, StepTyped, StepKeepsCourse, PTL DEF Spec, CourseStaysCompleted

-----------------------------------------------------------------------------
\* A step of request r is one of its statements, a new request or its end.
StepOf(r) == (\E l \in Lessons : Complete(r, l)) \/ Handler(r) \/ Break(r)

\* Moving a request on changes its program counter and no other request.
LEMMA GotoMoves ==
    ASSUME TypeOK, NEW r \in Requests, NEW pc, Goto(r, pc)
    PROVE  /\ req'[r] = [req[r] EXCEPT !.pc = pc] /\ req'[r].pc = pc
           /\ req'[r].lesson = req[r].lesson /\ req'[r].words = req[r].words
           /\ req'[r].inCourse = req[r].inCourse
           /\ req'[r].siblings = req[r].siblings /\ req'[r].init = req[r].init
BY RequestTyped DEF TypeOK, Goto, Request

LEMMA GotoFrame ==
    ASSUME TypeOK, NEW r \in Requests, NEW pc, Goto(r, pc), NEW q \in Requests \ {r}
    PROVE  req'[q] = req[q]
BY DEF TypeOK, Goto

\* An ended request keeps no more than its words.
LEMMA EndsMoves ==
    ASSUME TypeOK, NEW r \in Requests, NEW pc \in Answered, Ends(r, pc)
    PROVE  /\ req'[r].pc = pc /\ req'[r].pc \notin Open
           /\ req'[r].words = req[r].words
           /\ \A q \in Requests \ {r} : req'[q] = req[q]
<1>1. req'[r] = [Nothing EXCEPT !.pc = pc, !.words = req[r].words]
  BY DEF TypeOK, Ends
<1>2. req'[r].pc = pc /\ req'[r].words = req[r].words
  BY <1>1 DEF Nothing
<1> QED
  BY <1>2 DEF TypeOK, Ends, Open, Answered

\* A request's own steps leave the catalog and the other requests alone.
LEMMA StepFrame ==
    ASSUME TypeOK, NEW r \in Requests, StepOf(r)
    PROVE  /\ UNCHANGED <<catalog, edited, late>>
           /\ \A q \in Requests \ {r} : req'[q] = req[q]
           /\ done \subseteq done' /\ unlocked \subseteq unlocked' /\ breaks <= breaks'
           /\ done' # done => MarkCompleted(r)
<1> DEFINE Goal == /\ UNCHANGED <<catalog, edited, late>>
                   /\ \A q \in Requests \ {r} : req'[q] = req[q]
                   /\ done \subseteq done' /\ unlocked \subseteq unlocked' /\ breaks <= breaks'
                   /\ done' # done => MarkCompleted(r)
<1> SUFFICES Goal
  OBVIOUS
<1>0. breaks \in Nat /\ breaks <= breaks
  BY LessonsAssumption DEF TypeOK
<1> USE DEF tables, history
<1>1. ASSUME NEW l \in Lessons, Complete(r, l) PROVE Goal
  BY <1>1, <1>0, GotoFrame DEF Complete, Nothing, TypeOK
<1>2. CASE CheckStatus(r)
  BY <1>2, <1>0, GotoFrame, EndsMoves DEF CheckStatus, Answered
<1>3. CASE MarkCompleted(r)
  BY <1>3, <1>0, GotoFrame DEF MarkCompleted
<1>4. CASE UnlockWords(r)
  BY <1>4, <1>0, GotoFrame DEF UnlockWords, ToUnlock
<1>5. CASE Enrol(r)
  BY <1>5, <1>0, GotoFrame DEF Enrol, Enrolled
<1>6. CASE ListLessons(r)
  BY <1>6, <1>0, GotoFrame DEF ListLessons, TypeOK
<1>7. CASE CountCompleted(r)
  BY <1>7, <1>0, GotoFrame DEF CountCompleted
<1>8. CASE FinishCourse(r)
  BY <1>8, <1>0, GotoFrame DEF FinishCourse
<1>9. CASE LoadWords(r)
  BY <1>9, <1>0, GotoFrame DEF LoadWords, WordsToInit, TypeOK
<1>10. CASE InitFsrsCards(r)
  BY <1>10, <1>0, GotoFrame DEF InitFsrsCards
<1>11. CASE CreateSession(r)
  BY <1>11, <1>0, GotoFrame, EndsMoves DEF CreateSession, Answered
<1>12. CASE Break(r)
  BY <1>12, <1>0, GotoFrame, EndsMoves DEF Break, Answered
<1> QED
  BY <1>1, <1>2, <1>3, <1>4, <1>5, <1>6, <1>7, <1>8, <1>9, <1>10, <1>11, <1>12 DEF StepOf, Handler

\* Only the count leads to the end of the course.
LEMMA StepToFinish ==
    ASSUME TypeOK, NEW r \in Requests, StepOf(r), req'[r].pc = "finish"
    PROVE  CountCompleted(r)
<1>1. ASSUME NEW pc, Goto(r, pc) PROVE pc = "finish"
  BY <1>1, GotoMoves
<1>0. ASSUME NEW pc \in Answered PROVE ~Ends(r, pc)
  BY <1>0, EndsMoves DEF Answered
<1>2. ~CheckStatus(r)
  BY <1>0, <1>1 DEF CheckStatus, Answered
<1>3. ~MarkCompleted(r)
  BY <1>1 DEF MarkCompleted
<1>4. ~UnlockWords(r)
  BY <1>1 DEF UnlockWords
<1>5. ~Enrol(r)
  BY <1>1 DEF Enrol
<1>6. ~FinishCourse(r)
  BY <1>1 DEF FinishCourse
<1>7. ~InitFsrsCards(r)
  BY <1>1 DEF InitFsrsCards
<1>8. ~CreateSession(r)
  BY <1>0 DEF CreateSession, Answered
<1>9. ~Break(r)
  BY <1>0 DEF Break, Answered
<1>10. ASSUME NEW s, req' = [req EXCEPT ![r] = s] PROVE s.pc = "finish"
  BY <1>10 DEF TypeOK
<1>11. ~ListLessons(r)
  <2>1. [req[r] EXCEPT !.pc = "count", !.siblings = catalog.course].pc = "count"
    BY RequestTyped DEF Request
  <2> QED
    BY <1>10, <2>1 DEF ListLessons
<1>12. ~LoadWords(r)
  <2>1. [req[r] EXCEPT !.pc = "cards", !.init = WordsToInit(req[r])].pc = "cards"
    BY RequestTyped DEF Request
  <2> QED
    BY <1>10, <2>1 DEF LoadWords
<1>13. ASSUME NEW l \in Lessons PROVE ~Complete(r, l)
  <2>1. [Nothing EXCEPT !.pc = "check", !.lesson = l, !.words = catalog.words[l],
                        !.inCourse = l \in catalog.course].pc = "check"
    BY DEF Nothing
  <2> QED
    BY <1>10, <2>1 DEF Complete
<1> QED
  BY <1>2, <1>3, <1>4, <1>5, <1>6, <1>7, <1>8, <1>9, <1>11, <1>12, <1>13 DEF StepOf, Handler

\* What the words and the course say of a request that goes on stays current.
LEMMA MoveCurrent ==
    ASSUME NEW s, NEW t, NEW cat, Current(s, cat), s.pc \in Open,
           t.words = s.words, t.lesson = s.lesson, t.inCourse = s.inCourse,
           t.pc \in {"count", "finish"} => t.siblings = cat.course
    PROVE  Current(t, cat)
BY Zenon DEF Current

\* What a request has read stays current until an author edits the catalog.
LEMMA StepCurrent ==
    ASSUME TypeOK, NEW r \in Requests, StepOf(r), Current(req[r], catalog)
    PROVE  Current(req'[r], catalog')
<1> DEFINE Goal == /\ req[r].pc \in Open /\ req'[r].words = req[r].words
                   /\ req'[r].lesson = req[r].lesson /\ req'[r].inCourse = req[r].inCourse
                   /\ req'[r].pc \in {"count", "finish"} => req'[r].siblings = catalog.course
<1>0. req[r].pc \in {"count", "finish"} => req[r].siblings = catalog.course
  BY DEF Current, Open
<1>1. ASSUME NEW l \in Lessons, Complete(r, l) PROVE Current(req'[r], catalog')
  <2>1. /\ catalog' = catalog /\ req'[r].pc = "check" /\ req'[r].lesson = l
        /\ req'[r].words = catalog.words[l]
    BY <1>1 DEF Complete, Nothing, TypeOK, tables
  <2>2. req'[r].inCourse = (l \in catalog.course)
    BY <1>1, Zenon DEF Complete, Nothing, TypeOK, tables
  <2> QED
    BY <2>1, <2>2, Zenon DEF Current
<1>e. ASSUME NEW pc \in Answered, Ends(r, pc) PROVE Current(req'[r], catalog')
  BY <1>e, EndsMoves DEF Current
<1>2. CASE CheckStatus(r)
  <2>1. CASE Goto(r, "mark")
    <3>1. Goal
      BY <1>0, <1>2, <2>1, GotoMoves DEF CheckStatus, Open
    <3> QED
      BY <3>1, StepFrame, MoveCurrent
  <2>2. CASE Ends(r, "conflict")
    BY <1>e, <2>2 DEF Answered
  <2> QED
    BY <1>2, <2>1, <2>2 DEF CheckStatus
<1>3. CASE MarkCompleted(r)
  <2>1. Goal
    BY <1>0, <1>3, GotoMoves DEF MarkCompleted, Open
  <2> QED
    BY <2>1, StepFrame, MoveCurrent
<1>4. CASE UnlockWords(r)
  <2>1. Goal
    BY <1>0, <1>4, GotoMoves DEF UnlockWords, ToUnlock, Open
  <2> QED
    BY <2>1, StepFrame, MoveCurrent
<1>5. CASE Enrol(r)
  <2>1. Goal
    BY <1>0, <1>5, GotoMoves DEF Enrol, Open
  <2> QED
    BY <2>1, StepFrame, MoveCurrent
<1>6. CASE CountCompleted(r)
  <2>1. Goal
    BY <1>0, <1>6, GotoMoves DEF CountCompleted, Open
  <2> QED
    BY <2>1, StepFrame, MoveCurrent
<1>7. CASE FinishCourse(r)
  <2>1. Goal
    BY <1>0, <1>7, GotoMoves DEF FinishCourse, Open
  <2> QED
    BY <2>1, StepFrame, MoveCurrent
<1>8. CASE InitFsrsCards(r)
  <2>1. Goal
    BY <1>0, <1>8, GotoMoves DEF InitFsrsCards, Open
  <2> QED
    BY <2>1, StepFrame, MoveCurrent
<1>9. CASE CreateSession(r)
  BY <1>9, <1>e DEF CreateSession, Answered
<1>10. CASE Break(r)
  BY <1>10, <1>e DEF Break, Answered
<1>11. CASE ListLessons(r)
  <2>1. Goal
    BY <1>0, <1>11, RequestTyped DEF Open, ListLessons, TypeOK, Request
  <2> QED
    BY <2>1, StepFrame, MoveCurrent
<1>12. CASE LoadWords(r)
  <2>1. Goal
    BY <1>0, <1>12, RequestTyped DEF Open, LoadWords, TypeOK, Request
  <2> QED
    BY <2>1, StepFrame, MoveCurrent
<1> QED
  BY <1>1, <1>2, <1>3, <1>4, <1>5, <1>6, <1>7, <1>8, <1>9, <1>10, <1>11, <1>12 DEF StepOf, Handler

\* A request unlocks its words before it goes on, and what it reads again is
\* among them, but for the words that were added late.
LEMMA StepUnlocks ==
    ASSUME TypeOK, NEW r \in Requests, StepOf(r), Unlocks(req[r])
    PROVE  Unlocks(req[r])'
<1> DEFINE Goal == Unlocks(req[r])'
<1> SUFFICES Goal
  OBVIOUS
<1>0. /\ Unlocks(req[r]) /\ catalog' = catalog /\ late' = late
      /\ unlocked \subseteq unlocked'
  BY StepFrame
<1> USE DEF Unlocks, AfterUnlock, BetweenReads
<1>m. ASSUME NEW pc, Goto(r, pc), pc \in AfterUnlock => req[r].words \subseteq unlocked',
             pc \in BetweenReads => req[r].pc \in BetweenReads, pc # "cards"
      PROVE  Goal
  BY <1>0, <1>m, GotoMoves
<1>1. ASSUME NEW l \in Lessons, Complete(r, l) PROVE Goal
  <2>1. /\ req'[r].pc = "check" /\ req'[r].lesson = l
        /\ req'[r].words = catalog.words[l]
    BY <1>1 DEF Complete, Nothing, TypeOK
  <2> QED
    BY <1>0, <2>1
<1>2. CASE CheckStatus(r)
  <2>1. CASE Goto(r, "mark")
    BY <1>2, <1>m, <2>1 DEF CheckStatus
  <2>2. CASE Ends(r, "conflict")
    BY <1>0, <2>2, EndsMoves DEF Answered
  <2> QED
    BY <1>2, <2>1, <2>2 DEF CheckStatus
<1>3. CASE MarkCompleted(r)
  BY <1>3, <1>m DEF MarkCompleted
<1>4. CASE UnlockWords(r)
  BY <1>4, <1>m DEF UnlockWords, ToUnlock
<1>5. CASE Enrol(r)
  BY <1>5, <1>0, <1>m DEF Enrol
<1>6. CASE ListLessons(r)
  <2>1. /\ req[r].pc = "list" /\ req'[r].pc = "count" /\ req'[r].lesson = req[r].lesson
        /\ req'[r].words = req[r].words
    BY <1>6, RequestTyped DEF ListLessons, TypeOK, Request
  <2> QED
    BY <1>0, <2>1
<1>7. CASE CountCompleted(r)
  BY <1>7, <1>0, <1>m DEF CountCompleted
<1>8. CASE FinishCourse(r)
  BY <1>8, <1>0, <1>m DEF FinishCourse
<1>9. CASE LoadWords(r)
  <2>1. /\ req[r].pc = "words" /\ req'[r].pc = "cards" /\ req'[r].words = req[r].words
        /\ req'[r].init = catalog.words[req[r].lesson]
    BY <1>9, RequestTyped DEF LoadWords, WordsToInit, TypeOK, Request
  <2> QED
    BY <1>0, <2>1
<1>10. CASE InitFsrsCards(r)
  BY <1>10, <1>0, <1>m DEF InitFsrsCards
<1>11. CASE CreateSession(r)
  <2>1. req[r].pc = "session" /\ Ends(r, "completed")
    BY <1>11 DEF CreateSession
  <2>2. req'[r].pc = "completed" /\ req'[r].words = req[r].words
    BY <2>1, EndsMoves DEF Answered
  <2> QED
    BY <1>0, <2>1, <2>2
<1>12. CASE Break(r)
  <2>1. req'[r].pc = "failed"
    BY <1>12, EndsMoves DEF Break, Answered
  <2> QED
    BY <1>0, <2>1
<1> QED
  BY <1>1, <1>2, <1>3, <1>4, <1>5, <1>6, <1>7, <1>8, <1>9, <1>10, <1>11, <1>12 DEF StepOf, Handler

\* A count that covers the whole course names all its lessons.
LEMMA CountCovers ==
    ASSUME NEW D, NEW S, IsFiniteSet(S), Cardinality(D \cap S) >= Cardinality(S)
    PROVE  S \subseteq D
<1>1. /\ IsFiniteSet(D \cap S) /\ Cardinality(D \cap S) <= Cardinality(S)
      /\ Cardinality(S) = Cardinality(D \cap S) => S = D \cap S
  BY FS_Subset
<1>2. Cardinality(S) \in Nat /\ Cardinality(D \cap S) \in Nat
  BY <1>1, FS_CardinalityType
<1> QED
  BY <1>1, <1>2

\* The course is finished by requests that found its lessons completed.
LEMMA StepEarned ==
    ASSUME TypeOK, NEW r \in Requests, StepOf(r), Earned(req[r])
    PROVE  Earned(req[r])'
<1>1. done \subseteq done'
  BY StepFrame
<1>2. req'[r].pc = "finish" => CountCompleted(r)
  BY StepToFinish
<1>3. ASSUME CountCompleted(r), req'[r].pc = "finish"
      PROVE  req'[r].siblings \subseteq done
  <2>1. req'[r].siblings = req[r].siblings /\ IsFiniteSet(req[r].siblings)
    <3>1. req[r].siblings \in SUBSET Lessons
      BY RequestTyped DEF Request
    <3>2. IsFiniteSet(req[r].siblings)
      BY <3>1, FS_Subset, LessonsAssumption
    <3> QED
      BY <1>3, <3>2, GotoMoves DEF CountCompleted
  <2>2. CompletedOf(req[r].siblings) >= Cardinality(req[r].siblings)
    <3> SUFFICES ASSUME ~(CompletedOf(req[r].siblings) >= Cardinality(req[r].siblings))
                 PROVE  FALSE
      OBVIOUS
    <3>1. Goto(r, "words")
      BY <1>3 DEF CountCompleted
    <3>2. req'[r].pc = "words"
      BY <3>1, GotoMoves
    <3> QED
      BY <1>3, <3>2
  <2> QED
    BY <2>1, <2>2, CountCovers DEF CompletedOf
<1> QED
  BY <1>1, <1>2, <1>3 DEF Earned

\* The request that marks the last lesson, or one that is about to count, is
\* on its way to mark the course.
LEMMA StepFinisher ==
    ASSUME TypeOK, Finisher, NEW r \in Requests, StepOf(r), ~edited => Current(req[r], catalog)
    PROVE  Finisher'
<1> SUFFICES ASSUME breaks' = 0, ~edited', catalog'.course # {}, catalog'.course \subseteq done'
             PROVE  \/ course' = "completed"
                    \/ \E q \in Requests : req'[q].pc \in ToCount /\ req'[q].inCourse
  BY DEF Finisher
<1>1. catalog' = catalog /\ ~edited /\ breaks = 0 /\ breaks \in Nat
  BY StepFrame, LessonsAssumption DEF TypeOK
<1>2. Current(req[r], catalog)
  BY <1>1
<1>3. CASE catalog.course \subseteq done
  <2>1. CASE course = "completed"
    BY <2>1, StepKeepsCourse DEF Next, StepOf
  <2>2. ASSUME NEW q \in Requests, req[q].pc \in ToCount, req[q].inCourse
        PROVE  \/ course' = "completed"
               \/ \E o \in Requests : req'[o].pc \in ToCount /\ req'[o].inCourse
    <3>1. CASE q # r
      BY <2>2, <3>1, StepFrame
    <3>2. CASE q = r
      <4> SUFFICES course' = "completed" \/ (req'[r].pc \in ToCount /\ req'[r].inCourse)
        BY <3>2
      <4>1. CASE UnlockWords(r)
        BY <2>2, <3>2, <4>1, GotoMoves DEF UnlockWords, ToCount
      <4>2. CASE Enrol(r)
        BY <2>2, <3>2, <4>2, GotoMoves DEF Enrol, ToCount
      <4>3. CASE ListLessons(r)
        BY <2>2, <3>2, <4>3, RequestTyped DEF ListLessons, ToCount, TypeOK, Request
      <4>4. CASE CountCompleted(r)
        <5>1. req[r].siblings = catalog.course
          BY <1>2, <4>4 DEF Current, CountCompleted, Open
        <5>2. CompletedOf(req[r].siblings) >= Cardinality(req[r].siblings)
          <6>1. done \cap catalog.course = catalog.course
            BY <1>3
          <6>2. Cardinality(catalog.course) \in Nat
            BY RequestTyped, FS_Subset, FS_CardinalityType, LessonsAssumption
          <6> QED
            BY <5>1, <6>1, <6>2 DEF CompletedOf
        <5> QED
          BY <2>2, <3>2, <4>4, <5>2, GotoMoves DEF CountCompleted, ToCount
      <4>5. CASE FinishCourse(r)
        BY <4>5 DEF FinishCourse
      <4>6. CASE Break(r)
        BY <1>1, <4>6 DEF Break
      <4>7. ~(\E l \in Lessons : Complete(r, l)) /\ ~CheckStatus(r) /\ ~MarkCompleted(r)
            /\ ~LoadWords(r) /\ ~InitFsrsCards(r) /\ ~CreateSession(r)
        BY <2>2, <3>2 DEF Complete, CheckStatus, MarkCompleted, LoadWords, InitFsrsCards,
           CreateSession, ToCount, Answered
      <4> QED
        BY <4>1, <4>2, <4>3, <4>4, <4>5, <4>6, <4>7 DEF StepOf, Handler
    <3> QED
      BY <3>1, <3>2
  <2> QED
    BY <1>1, <1>3, <2>1, <2>2 DEF Finisher
<1>4. CASE ~(catalog.course \subseteq done)
  <2>1. MarkCompleted(r) /\ req[r].lesson \in catalog.course
    <3>1. done' # done
      BY <1>1, <1>4
    <3>2. MarkCompleted(r)
      BY <3>1, StepFrame
    <3> QED
      BY <1>1, <1>4, <3>2 DEF MarkCompleted
  <2>2. req[r].inCourse
    <3>1. req[r].pc \in Open
      BY <2>1 DEF MarkCompleted, Open
    <3> QED
      BY <1>2, <2>1, <3>1 DEF Current
  <2>3. req'[r].pc \in ToCount /\ req'[r].inCourse
    <3>1. Goto(r, "unlock")
      BY <2>1 DEF MarkCompleted
    <3> QED
      BY <2>2, <3>1, GotoMoves DEF ToCount
  <2> QED
    BY <2>3
<1> QED
  BY <1>3, <1>4

\* Cards are made for words that are unlocked.
LEMMA StepCards ==
    ASSUME TypeOK, CardsAreUnlocked, NEW r \in Requests, StepOf(r), Unlocks(req[r])
    PROVE  CardsAreUnlocked'
<1>1. late' = late /\ unlocked \subseteq unlocked'
  BY StepFrame
<1>2. CASE InitFsrsCards(r)
  <2>1. req[r].init \subseteq unlocked \union late
    BY <1>2 DEF InitFsrsCards, Unlocks, AfterUnlock
  <2> QED
    BY <1>1, <1>2, <2>1 DEF InitFsrsCards, CardsAreUnlocked
<1>3. CASE ~InitFsrsCards(r)
  <2>1. cards' = cards
    BY <1>3 DEF StepOf, Handler, Complete, CheckStatus, MarkCompleted, UnlockWords, Enrol,
       ListLessons, CountCompleted, FinishCourse, LoadWords, CreateSession, Break,
       tables
  <2> QED
    BY <1>1, <2>1 DEF CardsAreUnlocked
<1> QED
  BY <1>2, <1>3

\* A word added to a lesson some request is to read again is a late one.
LEMMA AddedLate ==
    ASSUME TypeOK, AddWord \/ AddLesson, NEW r \in Requests, req[r].pc \in BetweenReads
    PROVE  catalog'.words[req[r].lesson] \subseteq catalog.words[req[r].lesson] \union late'
<1> DEFINE l == req[r].lesson
<1>1. CASE AddWord
  <2>1. PICK p \in NewWords :
           /\ catalog' = [catalog EXCEPT !.words[p[1]] = @ \cup {p[2]}]
           /\ late' = late \cup {w \in {p[2]} : InTheMiddle(p[1])}
    BY <1>1 DEF AddWord
  <2>2. l \in Lessons /\ p[1] \in Lessons /\ catalog.words \in [Lessons -> SUBSET Words]
    BY RequestTyped, LessonsAssumption
  <2>3. catalog'.words = [catalog.words EXCEPT ![p[1]] = @ \cup {p[2]}]
    BY <2>1 DEF TypeOK
  <2>4. CASE p[1] = l
    <3>1. InTheMiddle(p[1])
      BY <2>4 DEF InTheMiddle
    <3> QED
      BY <2>1, <2>2, <2>3, <2>4, <3>1
  <2>5. CASE p[1] # l
    BY <2>2, <2>3, <2>5
  <2> QED
    BY <2>4, <2>5
<1>2. CASE AddLesson
  BY <1>2 DEF AddLesson, TypeOK
<1> QED
  BY <1>1, <1>2

-----------------------------------------------------------------------------
LEMMA InitInv == Init => LessonInv
<1> SUFFICES ASSUME Init PROVE LessonInv
  OBVIOUS
<1>1. TypeOK
  BY InitTyped
<1>2. \A r \in Requests : req[r].pc = "idle"
  BY NothingTyped DEF Init
<1>3. CardsAreUnlocked /\ Finisher
  BY DEF Init, CardsAreUnlocked, Finisher
<1> QED
  BY <1>1, <1>2, <1>3 DEF LessonInv, Current, Unlocks, Earned, AfterUnlock, BetweenReads, Open

LEMMA StepInv == LessonInv /\ [Next]_vars => LessonInv'
<1> SUFFICES ASSUME LessonInv, [Next]_vars PROVE LessonInv'
  OBVIOUS
<1>1. TypeOK /\ TypeOK'
  BY StepTyped DEF LessonInv
<1>2. CASE UNCHANGED vars
  BY <1>2, <1>1 DEF LessonInv, vars, tables, history, CardsAreUnlocked, Finisher, Current, Unlocks, Earned
<1>3. ASSUME NEW r \in Requests, StepOf(r) PROVE LessonInv'
  <2>1. CardsAreUnlocked' /\ Finisher'
    BY <1>1, <1>3, StepCards, StepFinisher DEF LessonInv
  <2>2. /\ ~edited' => Current(req'[r], catalog')
        /\ Unlocks(req[r])' /\ Earned(req[r])'
    BY <1>1, <1>3, StepFrame, StepCurrent, StepUnlocks, StepEarned DEF LessonInv
  <2>3. ASSUME NEW q \in Requests \ {r}
        PROVE  /\ ~edited' => Current(req'[q], catalog')
               /\ Unlocks(req[q])' /\ Earned(req[q])'
    <3>1. /\ req'[q] = req[q] /\ catalog' = catalog /\ edited' = edited /\ late' = late
          /\ done \subseteq done' /\ unlocked \subseteq unlocked'
      BY <1>1, <1>3, <2>3, StepFrame
    <3> QED
      BY <3>1 DEF LessonInv, Unlocks, Earned
  <2> QED
    BY <1>1, <2>1, <2>2, <2>3 DEF LessonInv
<1>4. CASE AddWord \/ AddLesson
  <2>1. /\ edited' = TRUE /\ late \subseteq late'
        /\ UNCHANGED <<done, unlocked, cards, req>>
    BY <1>4 DEF AddWord, AddLesson
  <2>2. ASSUME NEW r \in Requests PROVE Unlocks(req[r])' /\ Earned(req[r])'
    <3>1. Unlocks(req[r]) /\ Earned(req[r])
      BY DEF LessonInv
    <3>2. req[r].pc \in BetweenReads
             => catalog'.words[req[r].lesson] \subseteq catalog.words[req[r].lesson] \union late'
      BY <1>1, <1>4, AddedLate
    <3> QED
      BY <2>1, <3>1, <3>2 DEF Unlocks, Earned
  <2>3. CardsAreUnlocked' /\ Finisher'
    BY <2>1 DEF LessonInv, CardsAreUnlocked, Finisher
  <2> QED
    BY <1>1, <2>1, <2>2, <2>3 DEF LessonInv
<1> QED
  BY <1>2, <1>3, <1>4 DEF Next, StepOf

\* The invariant holds in every reachable state.
LEMMA LessonInvariant == Spec => []LessonInv
BY InitInv, StepInv, PTL DEF Spec

\* Two requests that complete the last lessons together do not both miss each
\* other, and a course is marked by a request that counted all its lessons.
THEOREM CourseCorrect == Spec => []CourseIsSound
<1>1. LessonInv => CourseIsSound
  BY DEF LessonInv, Finisher, Earned, CourseIsSound, LastLessonCompletesCourse, CourseIsEarned,
     Quiet, Answered, ToCount
<1> QED
  BY <1>1, LessonInvariant, PTL

\* Answered completions have their words unlocked, and every card is for an
\* unlocked word or for one an author added between the two reads of a
\* completion; no other edit of the catalog is excused.
THEOREM UnlockingCorrect == Spec => []UnlockingIsSound
<1>1. LessonInv => UnlockingIsSound
  BY DEF LessonInv, Unlocks, AfterUnlock, UnlockingIsSound, AnsweredMeansUnlocked
<1> QED
  BY <1>1, LessonInvariant, PTL

-----------------------------------------------------------------------------
\* A request that may still write a session of l has marked l or is about to;
\* a request only joins by finding l not completed.
Joins(r, l) == /\ req[r].pc = "check" /\ l \notin done /\ req[r].lesson = l
               /\ overlapped' = overlapped \union {m \in {l} : Overtaken(r, m)}

LEMMA StepWriting ==
    ASSUME TypeOK, NEW r \in Requests, StepOf(r), Marked(req[r]), NEW l \in Lessons
    PROVE  /\ Marked(req[r])' /\ overlapped \subseteq overlapped'
           /\ Writing(req'[r], l) => Writing(req[r], l) \/ Joins(r, l)
           /\ \/ sessions'[l] = sessions[l]
              \/ /\ sessions'[l] = sessions[l] + 1 /\ l \in done
                 /\ Writing(req[r], l) /\ ~Writing(req'[r], l)
<1> DEFINE Goal == /\ Marked(req[r])' /\ overlapped \subseteq overlapped'
                   /\ Writing(req'[r], l) => Writing(req[r], l) \/ Joins(r, l)
                   /\ \/ sessions'[l] = sessions[l]
                      \/ /\ sessions'[l] = sessions[l] + 1 /\ l \in done
                         /\ Writing(req[r], l) /\ ~Writing(req'[r], l)
<1> SUFFICES Goal
  OBVIOUS
<1>0. Marked(req[r]) /\ sessions \in [Lessons -> Nat]
  BY DEF TypeOK
<1> USE DEF Marked, Writing, AfterMark, tables, history
<1>1. CASE MarkCompleted(r)
  BY <1>0, <1>1, GotoMoves DEF MarkCompleted
<1>2. CASE UnlockWords(r)
  BY <1>0, <1>2, GotoMoves DEF UnlockWords
<1>3. CASE Enrol(r)
  BY <1>0, <1>3, GotoMoves DEF Enrol
<1>4. CASE CountCompleted(r)
  BY <1>0, <1>4, GotoMoves DEF CountCompleted
<1>5. CASE FinishCourse(r)
  BY <1>0, <1>5, GotoMoves DEF FinishCourse
<1>6. CASE InitFsrsCards(r)
  BY <1>0, <1>6, GotoMoves DEF InitFsrsCards
<1>7. CASE Break(r)
  <2>1. Ends(r, "failed") /\ UNCHANGED <<done, sessions, overlapped>>
    BY <1>7 DEF Break
  <2>2. req'[r].pc = "failed"
    BY <2>1, EndsMoves DEF Answered
  <2> QED
    BY <1>0, <2>1, <2>2
<1>8. CASE CheckStatus(r)
  <2>1. CASE req[r].lesson \in done
    <3>1. Ends(r, "conflict") /\ UNCHANGED <<done, sessions, overlapped>>
      BY <1>8, <2>1 DEF CheckStatus, Refused
    <3>2. req'[r].pc = "conflict"
      BY <3>1, EndsMoves DEF Answered
    <3> QED
      BY <1>0, <3>1, <3>2
  <2>2. CASE req[r].lesson \notin done
    <3>1. /\ req[r].pc = "check" /\ Goto(r, "mark") /\ UNCHANGED <<done, sessions>>
          /\ overlapped' = overlapped \union {m \in {req[r].lesson} : Overtaken(r, m)}
      BY <1>8, <2>2 DEF CheckStatus, Refused
    <3>2. req'[r].pc = "mark" /\ req'[r].lesson = req[r].lesson
      BY <3>1, GotoMoves
    <3>3. Writing(req'[r], l) => Joins(r, l)
      BY <2>2, <3>1, <3>2 DEF Joins
    <3> QED
      BY <1>0, <2>2, <3>1, <3>2, <3>3
  <2> QED
    BY <2>1, <2>2
<1>9. CASE CreateSession(r)
  <2>1. req[r].lesson \in Lessons
    BY RequestTyped
  <2>2. req'[r].pc = "completed"
    BY <1>9, EndsMoves DEF CreateSession, Answered
  <2> QED
    BY <1>0, <1>9, <2>1, <2>2 DEF CreateSession
<1>10. CASE ListLessons(r)
  BY <1>0, <1>10, RequestTyped DEF ListLessons, TypeOK, Request
<1>11. CASE LoadWords(r)
  BY <1>0, <1>11, RequestTyped DEF LoadWords, TypeOK, Request
<1>12. ASSUME NEW m \in Lessons, Complete(r, m) PROVE Goal
  <2>1. req'[r].pc = "check" /\ UNCHANGED <<sessions, done, overlapped>>
    BY <1>12 DEF Complete, Nothing, TypeOK
  <2> QED
    BY <1>0, <2>1
<1> QED
  BY <1>1, <1>2, <1>3, <1>4, <1>5, <1>6, <1>7, <1>8, <1>9, <1>10, <1>11, <1>12
     DEF StepOf, Handler

\* A request that joins an unfinished lesson is alone, or the lesson is marked
\* as overlapped.
LEMMA JoinsAlone ==
    ASSUME SessionsInv, NEW r \in Requests, NEW l \in Lessons, Joins(r, l), l \notin overlapped'
    PROVE  \A q \in Requests : ~Writing(req[q], l)
<1> SUFFICES ASSUME NEW q \in Requests, Writing(req[q], l) PROVE FALSE
  OBVIOUS
<1>1. req[q].pc = "mark" /\ req[q].lesson = l
  BY DEF SessionsInv, Marked, Writing, Joins
<1>2. Overtaken(r, l)
  BY <1>1 DEF Overtaken, Joins
<1> QED
  BY <1>2 DEF Joins

LEMMA SessionsOf ==
    ASSUME SessionsInv, NEW l \in Lessons
    PROVE  /\ l \notin done => sessions[l] = 0
           /\ l \notin overlapped => Alone(l)
BY DEF SessionsInv

LEMMA StepSessions ==
    ASSUME SessionsInv, NEW r \in Requests, StepOf(r), NEW l \in Lessons
    PROVE  /\ l \notin done' => sessions'[l] = 0
           /\ l \notin overlapped' => Alone(l)'
<1>1. TypeOK /\ Marked(req[r]) /\ sessions[l] \in Nat
  BY DEF SessionsInv, TypeOK
<1>2. /\ overlapped \subseteq overlapped'
      /\ Writing(req'[r], l) => Writing(req[r], l) \/ Joins(r, l)
      /\ \/ sessions'[l] = sessions[l]
         \/ /\ sessions'[l] = sessions[l] + 1 /\ l \in done
            /\ Writing(req[r], l) /\ ~Writing(req'[r], l)
  BY <1>1, StepWriting
<1>3. done \subseteq done' /\ \A q \in Requests \ {r} : req'[q] = req[q]
  BY <1>1, StepFrame
<1>4. l \notin done' => sessions'[l] = 0
  BY <1>2, <1>3, SessionsOf
<1>5. ASSUME l \notin overlapped' PROVE Alone(l)'
  <2>1. Alone(l)
    BY <1>2, <1>5, SessionsOf
  <2>2. CASE sessions'[l] # sessions[l]
    <3>1. \A q \in Requests : ~Writing(req'[q], l)
      BY <1>2, <1>3, <2>1, <2>2 DEF Alone
    <3>2. sessions'[l] = 1
      BY <1>2, <2>1, <2>2 DEF Alone
    <3> QED
      BY <3>1, <3>2 DEF Alone
  <2>3. CASE sessions'[l] = sessions[l] /\ Joins(r, l) /\ l \notin done
    <3>1. \A q \in Requests : ~Writing(req[q], l)
      BY <1>5, <2>3, JoinsAlone
    <3>2. \A q \in Requests : Writing(req'[q], l) => q = r
      BY <1>3, <3>1
    <3>3. sessions'[l] = 0
      BY <2>3, SessionsOf
    <3> QED
      BY <3>2, <3>3 DEF Alone
  <2>4. CASE sessions'[l] = sessions[l] /\ ~Joins(r, l)
    <3>1. \A q \in Requests : Writing(req'[q], l) => Writing(req[q], l)
      BY <1>2, <1>3, <2>4
    <3> QED
      BY <2>1, <2>4, <3>1 DEF Alone
  <2> QED
    BY <2>2, <2>3, <2>4 DEF Joins
<1> QED
  BY <1>4, <1>5

LEMMA SessionsInvariant == Spec => []SessionsInv
<1>1. Init => SessionsInv
  <2> SUFFICES ASSUME Init PROVE SessionsInv
    OBVIOUS
  <2>1. \A r \in Requests : req[r].pc = "idle"
    BY NothingTyped DEF Init
  <2>2. TypeOK /\ \A l \in Lessons : sessions[l] = 0
    BY InitTyped DEF Init
  <2> QED
    BY <2>1, <2>2 DEF SessionsInv, Marked, Alone, Writing, AfterMark
<1>2. SessionsInv /\ [Next]_vars => SessionsInv'
  <2> SUFFICES ASSUME SessionsInv, [Next]_vars PROVE SessionsInv'
    OBVIOUS
  <2>1. TypeOK /\ TypeOK'
    BY StepTyped DEF SessionsInv
  <2>2. CASE UNCHANGED <<req, done, sessions, overlapped>>
    BY <2>1, <2>2 DEF SessionsInv, Alone, Marked
  <2>3. ASSUME NEW r \in Requests, StepOf(r) PROVE SessionsInv'
    <3>1. Marked(req[r])'
      BY <2>1, <2>3, StepWriting, LessonsAssumption DEF SessionsInv
    <3>2. \A q \in Requests \ {r} : Marked(req[q])'
      BY <2>1, <2>3, StepFrame DEF SessionsInv, Marked
    <3> QED
      BY <2>1, <2>3, <3>1, <3>2, StepSessions DEF SessionsInv
  <2> QED
    BY <2>2, <2>3 DEF Next, StepOf, vars, tables, history, AddWord, AddLesson
<1> QED
  BY <1>1, <1>2, PTL DEF Spec

\* A lesson has two practice sessions only if two requests found it not
\* completed before either of them marked it.
THEOREM SecondSessionOverlapped == Spec => []SessionsFromOverlap
<1>1. SessionsInv => SessionsFromOverlap
  <2> SUFFICES ASSUME SessionsInv, NEW l \in Lessons, sessions[l] > 1, l \notin overlapped
               PROVE  FALSE
    BY DEF SessionsFromOverlap
  <2>1. sessions[l] \in Nat /\ sessions[l] <= 1
    BY SessionsOf DEF SessionsInv, TypeOK, Alone
  <2> QED
    BY <2>1
<1> QED
  BY <1>1, SessionsInvariant, PTL

=============================================================================
