-------------------------- MODULE LessonCompletion --------------------------
(* POST /lessons/:id/complete of the learn service, for one user.          *)
(*                                                                         *)
(* The handler is a row of separate statements on the learn database and   *)
(* one call of fsrs-ai, with no transaction around them.  Everything after *)
(* the course progress is best effort: its failures are logged and the     *)
(* handler goes on.  Everything before it, when it fails, ends the request *)
(* with an error and leaves what was written.                              *)
EXTENDS Naturals, FiniteSets

CONSTANTS
    Requests,     \* slots of the completion requests served at a time
    Lessons, Words,
    FirstWords,   \* FirstWords[l]: the words of l at the start
    FirstCourse,  \* the lessons of the one course at the start
    NewWords,     \* pairs <<l, w>>: words an author may still add
    MaxBreaks     \* bound: requests that are cut short

ASSUME LessonsAssumption ==
    /\ FirstWords \in [Lessons -> SUBSET Words]
    /\ FirstCourse \subseteq Lessons
    /\ NewWords \subseteq Lessons \X Words
    /\ Lessons # {} /\ IsFiniteSet(Lessons)
    /\ MaxBreaks \in Nat

VARIABLES
    catalog,   \* catalog.words[l]: the words of lesson l; catalog.course
    done,      \* lessons with a COMPLETED user_lesson_progress
    unlocked,  \* words with a user_word_progress
    course,    \* user_course_progress
    cards,     \* words with a card in fsrs-ai
    sessions,  \* sessions[l]: LEARN_LESSON practice sessions of l
    req,       \* req[r]: program counter and local values of request r
    breaks,    \* history: the requests that were cut short
    edited,    \* history: an author changed the catalog
    late,      \* history: words an author added between two reads of a lesson
    overlapped \* history: lessons two requests found not completed at a time

tables  == <<catalog, done, unlocked, course, cards, sessions>>
history == <<breaks, edited, late, overlapped>>
vars    == <<tables, req, history>>

Open     == {"check", "mark", "unlock", "enrol", "list", "count", "finish",
             "words", "cards", "session"}
Answered == {"idle", "completed", "conflict", "failed"}

Request ==
    [pc       : Open \cup Answered,
     lesson   : Lessons,
     words    : SUBSET Words,     \* of the lesson, as first read
     inCourse : BOOLEAN,          \* the lesson has a courseId
     siblings : SUBSET Lessons,   \* the lessons of the course, as listed
     init     : SUBSET Words]     \* the words read again for fsrs-ai

Nothing == [pc |-> "idle", lesson |-> CHOOSE l \in Lessons : TRUE, words |-> {},
            inCourse |-> FALSE, siblings |-> {}, init |-> {}]

Init ==
    /\ catalog = [words |-> FirstWords, course |-> FirstCourse]
    /\ done = {}
    /\ unlocked = {}
    /\ course = "none"
    /\ cards = {}
    /\ sessions = [l \in Lessons |-> 0]
    /\ req = [r \in Requests |-> Nothing]
    /\ breaks = 0
    /\ edited = FALSE
    /\ late = {}
    /\ overlapped = {}

-----------------------------------------------------------------------------
(* The handler, one statement at a time.                                   *)

Goto(r, pc) == req' = [req EXCEPT ![r].pc = pc]

\* The request is answered: what it held is gone, but for the words it had read.
Ends(r, pc) == req' = [req EXCEPT ![r] = [Nothing EXCEPT !.pc = pc, !.words = req[r].words]]

\* The lesson is found, with its words.
Complete(r, l) ==
    /\ req[r].pc \in Answered
    /\ req' = [req EXCEPT ![r] =
                 [Nothing EXCEPT !.pc = "check", !.lesson = l,
                                 !.words = catalog.words[l],
                                 !.inCourse = l \in catalog.course]]
    /\ UNCHANGED <<tables, history>>

\* Variant: completing twice is not refused.
Refused_Never(l) == FALSE

Refused(l) == l \in done

\* Another request has found lesson l not completed and not yet marked it.
Overtaken(r, l) == \E q \in Requests \ {r} : req[q].pc = "mark" /\ req[q].lesson = l

CheckStatus(r) ==
    /\ req[r].pc = "check"
    /\ \/ /\ Refused(req[r].lesson)
          /\ Ends(r, "conflict")
          /\ UNCHANGED overlapped
       \/ /\ ~Refused(req[r].lesson)
          /\ Goto(r, "mark")
          /\ overlapped' = overlapped \cup {l \in {req[r].lesson} : Overtaken(r, l)}
    /\ UNCHANGED <<tables, breaks, edited, late>>

MarkCompleted(r) ==
    /\ req[r].pc = "mark"
    /\ done' = done \cup {req[r].lesson}
    /\ Goto(r, "unlock")
    /\ UNCHANGED <<catalog, unlocked, course, cards, sessions, history>>

\* Variant: only words that have no card yet are unlocked.
ToUnlock_WithoutCard(s) == s.words \ cards

\* createMany skips the words that are unlocked already.
ToUnlock(s) == s.words

UnlockWords(r) ==
    /\ req[r].pc = "unlock"
    /\ unlocked' = unlocked \cup ToUnlock(req[r])
    /\ Goto(r, IF req[r].inCourse THEN "enrol" ELSE "words")
    /\ UNCHANGED <<catalog, done, course, cards, sessions, history>>

\* Variant: an enrolled course is left without a status.
Enrolled_NoStatus == IF course = "none" THEN "started" ELSE ""

\* Variant: the upsert starts the course again.
Enrolled_Again == "started"

Enrolled == IF course = "none" THEN "started" ELSE course

Enrol(r) ==
    /\ req[r].pc = "enrol"
    /\ course' = Enrolled
    /\ Goto(r, "list")
    /\ UNCHANGED <<catalog, done, unlocked, cards, sessions, history>>

ListLessons(r) ==
    /\ req[r].pc = "list"
    /\ req' = [req EXCEPT ![r].pc = "count", ![r].siblings = catalog.course]
    /\ UNCHANGED <<tables, history>>

\* Variant: the lesson being completed is left out of the count.
CompletedOf_Before(S) == Cardinality(done \cap S) - 1

CompletedOf(S) == Cardinality(done \cap S)

CountCompleted(r) ==
    /\ req[r].pc = "count"
    /\ Goto(r, IF CompletedOf(req[r].siblings) >= Cardinality(req[r].siblings)
               THEN "finish" ELSE "words")
    /\ UNCHANGED <<tables, history>>

FinishCourse(r) ==
    /\ req[r].pc = "finish"
    /\ course' = "completed"
    /\ Goto(r, "words")
    /\ UNCHANGED <<catalog, done, unlocked, cards, sessions, history>>

\* Back in LessonsService: the lesson's words are read again.
WordsToInit(s) == catalog.words[s.lesson]

LoadWords(r) ==
    /\ req[r].pc = "words"
    /\ req' = [req EXCEPT ![r].pc = "cards", ![r].init = WordsToInit(req[r])]
    /\ UNCHANGED <<tables, history>>

\* fsrs-ai initialises the cards or does not; the status is not looked at.
InitFsrsCards(r) ==
    /\ req[r].pc = "cards"
    /\ \/ cards' = cards \cup req[r].init
       \/ req[r].init # {} /\ cards' = cards
    /\ Goto(r, "session")
    /\ UNCHANGED <<catalog, done, unlocked, course, sessions, history>>

\* The session is created or the failure is logged.  (The streak that follows
\* is the subject of the module Streak, the caches that are dropped are not
\* part of this state.)
CreateSession(r) ==
    /\ req[r].pc = "session"
    /\ \/ sessions' = [sessions EXCEPT ![req[r].lesson] = @ + 1]
       \/ sessions' = sessions
    /\ Ends(r, "completed")
    /\ UNCHANGED <<catalog, done, unlocked, course, cards, history>>

Handler(r) ==
    \/ CheckStatus(r) \/ MarkCompleted(r) \/ UnlockWords(r)
    \/ Enrol(r) \/ ListLessons(r) \/ CountCompleted(r) \/ FinishCourse(r)
    \/ LoadWords(r) \/ InitFsrsCards(r) \/ CreateSession(r)

-----------------------------------------------------------------------------
\* A statement fails, or the service restarts, before the best-effort part.
Break(r) ==
    /\ req[r].pc \in Open
    /\ breaks < MaxBreaks
    /\ breaks' = breaks + 1
    /\ Ends(r, "failed")
    /\ UNCHANGED <<tables, edited, late, overlapped>>

\* A request has read the words of lesson l once and will read them again.
BetweenReads == {"check", "mark", "unlock", "enrol", "list", "count", "finish", "words"}

InTheMiddle(l) == \E r \in Requests : req[r].pc \in BetweenReads /\ req[r].lesson = l

\* An author adds a word to a lesson, or a lesson to the course.
AddWord ==
    /\ \E p \in NewWords :
         /\ p[2] \notin catalog.words[p[1]]
         /\ catalog' = [catalog EXCEPT !.words[p[1]] = @ \cup {p[2]}]
         /\ late' = late \cup {w \in {p[2]} : InTheMiddle(p[1])}
    /\ edited' = TRUE
    /\ UNCHANGED <<done, unlocked, course, cards, sessions, req, breaks, overlapped>>

AddLesson ==
    /\ \E l \in Lessons \ catalog.course :
         catalog' = [catalog EXCEPT !.course = @ \cup {l}]
    /\ edited' = TRUE
    /\ UNCHANGED <<done, unlocked, course, cards, sessions, req, breaks, late, overlapped>>

Next ==
    \/ \E r \in Requests : \/ \E l \in Lessons : Complete(r, l)
                           \/ Handler(r)
                           \/ Break(r)
    \/ AddWord \/ AddLesson

Spec == Init /\ [][Next]_vars

\* The service finishes the requests it serves, and for every lesson there is
\* a client that asks again and again for its completion.
Retrying ==
    /\ \A r \in Requests : WF_vars(Handler(r))
    /\ \A l \in Lessons : WF_vars(\E r \in Requests : Complete(r, l))

RetrySpec == Spec /\ Retrying

-----------------------------------------------------------------------------
(* Properties.                                                             *)

TypeOK ==
    /\ catalog \in [words : [Lessons -> SUBSET Words], course : SUBSET Lessons]
    /\ done \subseteq Lessons
    /\ unlocked \subseteq Words
    /\ course \in {"none", "started", "completed"}
    /\ cards \subseteq Words
    /\ sessions \in [Lessons -> Nat]
    /\ req \in [Requests -> Request]
    /\ breaks \in 0..MaxBreaks
    /\ edited \in BOOLEAN
    /\ late \subseteq Words
    /\ overlapped \subseteq Lessons

Quiet == \A r \in Requests : req[r].pc \in Answered

\* Two requests that complete the last two lessons at the same time cannot
\* both miss each other: once all requests are answered, none was cut short
\* and the catalog was left alone, the course is completed.
LastLessonCompletesCourse ==
    (Quiet /\ breaks = 0 /\ ~edited /\ catalog.course # {} /\ catalog.course \subseteq done)
        => course = "completed"

\* A course is only ever marked completed by a request whose list of lessons,
\* however old, the user had completed to the last.
CourseIsEarned ==
    \A r \in Requests : req[r].pc = "finish" => req[r].siblings \subseteq done

\* A course is completed when, and only when, its last lesson is.
CourseIsSound == LastLessonCompletesCourse /\ CourseIsEarned

\* A completed course stays completed, whatever later or slower requests do.
CourseStaysCompleted == [][course = "completed" => course' = "completed"]_vars

\* The user has unlocked every word that has a card, unless an author added
\* the word to its lesson between the two reads of a completion: any other edit
\* of the catalog, before, after or of another lesson, is no excuse.
CardsAreUnlocked == cards \subseteq unlocked \cup late

\* A lesson gets a second practice session only when two requests were past
\* the check of its status before either had marked it completed: completions
\* one after the other, however slow and wherever cut short, leave one.
SessionsFromOverlap == \A l \in Lessons : sessions[l] > 1 => l \in overlapped

\* When a completion is answered with success the words it read are unlocked.
AnsweredMeansUnlocked ==
    \A r \in Requests : req[r].pc = "completed" => req[r].words \subseteq unlocked

\* Words, cards and answers of a completion agree.
UnlockingIsSound == CardsAreUnlocked /\ AnsweredMeansUnlocked

\* "Marks lesson progress as COMPLETED", "Unlocks words for the lesson": a
\* completed lesson has its words unlocked, if the client asks again and again.
CompletedGetsUnlocked ==
    \A l \in Lessons : (l \in done) ~> (FirstWords[l] \subseteq unlocked)
=============================================================================
