-------------------------- MODULE ReadThroughCache --------------------------
(***************************************************************************)
(* The read-through cache of the learn service (redis.service.ts,          *)
(* cache-key.util.ts and the getters and writers of all its services).  A  *)
(* getter answers from its entry, or runs its SELECTs and stores the       *)
(* answer.  A writer runs its statements, then deletes whole scopes, of    *)
(* one user or of all, and then answers.  Redis errors are only logged.    *)
(*                                                                         *)
(* One getter is watched at a time: endpoint is chosen initially, and of   *)
(* each user's entries the one of some fixed filter is followed.           *)
(***************************************************************************)
EXTENDS Naturals, Sequences, FiniteSets

CONSTANTS
    Users,
    Requests \* request slots

VARIABLES
    endpoint, \* the watched getter
    entry,    \* per user: no entry, one that agrees with the tables, or one that does not
    req,      \* the requests in flight
    excused   \* history, per user: the entry is stale for a known reason

vars == <<endpoint, entry, req, excused>>

-----------------------------------------------------------------------------
(* The getters: the scope of their key and the data they read.  wordLesson *)
(* is the lesson a word belongs to, word the rest of its row.              *)

Getter(scope, reads) == [scope |-> scope, reads |-> reads]

Catalog == {"course", "lesson", "courseProgress", "lessonProgress"}

CoursesFindAll  == Getter("courses", Catalog)
CoursesFindOne  == Getter("courses", Catalog \union {"wordLesson"})
LessonsFindAll  == Getter("lessons", {"lesson", "wordLesson", "lessonProgress"})
LessonsFindOne  == Getter("lessons", {"lesson", "course", "word", "wordLesson", "lessonProgress"})
WordsFindAll    == Getter("words", {"word", "wordLesson", "lesson"})
WordsFindOne    == Getter("words", {"word", "wordLesson", "lesson"})
GetMyNotes      == Getter("vocabulary", {"note", "word"})
GetMyCourses    == Getter("progress", Catalog)
GetMyLessons    == Getter("progress", {"lessonProgress", "lesson"})
GetMyWords      == Getter("progress", {"wordProgress", "nextReview", "word", "lesson"})
GetProgressStats == Getter("progress", {"wordProgress", "courseProgress", "lessonProgress"})
GetDueWords     == Getter("practice", {"cards", "wordProgress", "nextReview", "word"})
GetHistory      == Getter("practice", {"session", "lesson"})
GetRiskCards    == Getter("practice", {"cards", "word"})
GetStreak       == Getter("streak", {"streak"})

Endpoints == {CoursesFindAll, CoursesFindOne, LessonsFindAll, LessonsFindOne, WordsFindAll,
              WordsFindOne, GetMyNotes, GetMyCourses, GetMyLessons, GetMyWords,
              GetProgressStats, GetDueWords, GetHistory, GetRiskCards, GetStreak}

-----------------------------------------------------------------------------
(* The writers: phases of statements followed by deletions.  all and own   *)
(* are the data changed for everyone and for the caller, purge and         *)
(* purgeOwn the scopes deleted for everyone and for the caller.            *)

Phase(all, own, purge, purgeOwn) ==
    [all |-> all, own |-> own, purge |-> purge, purgeOwn |-> purgeOwn]

\* buildScopePattern in each service's invalidate method.
CoursesScopes    == {"courses", "lessons", "words", "progress", "practice", "vocabulary"}

\* Variant: a lesson edit leaves the cached courses alone.
LessonsScopes_NoCourses == {"lessons", "words", "progress", "practice", "streak"}

LessonsScopes    == {"lessons", "courses", "words", "progress", "practice", "streak"}
WordsScopes      == {"words", "lessons", "courses", "vocabulary", "progress", "practice", "dictionary"}
DictionaryScopes == {"dictionary", "words", "lessons", "courses", "progress", "vocabulary", "practice"}
ProgressScopes   == {"progress", "courses", "lessons", "vocabulary", "practice", "streak"}
PracticeScopes   == {"practice", "progress", "streak", "courses", "lessons"}
StreakScopes     == {"streak", "progress", "practice"}
VocabularyScopes == {"vocabulary", "progress", "courses", "lessons", "practice"}

CourseCreate == <<Phase({"course"}, {}, CoursesScopes, {})>>
CourseUpdate == <<Phase({"course"}, {}, CoursesScopes, {})>>
\* The lessons stay without a course, everyone's progress goes with it.
CourseRemove == <<Phase({"course", "lesson", "courseProgress"}, {}, CoursesScopes, {})>>
LessonCreate == <<Phase({"lesson"}, {}, LessonsScopes, {})>>
LessonUpdate == <<Phase({"lesson"}, {}, LessonsScopes, {})>>
LessonRemove == <<Phase({"lesson", "wordLesson", "lessonProgress", "session"}, {}, LessonsScopes, {})>>
WordCreate   == <<Phase({"word", "wordLesson"}, {}, WordsScopes, {})>>
WordUpdate   == <<Phase({"word", "wordLesson"}, {}, WordsScopes, {})>>
WordRemove   == <<Phase({"word", "wordLesson", "wordProgress", "note"}, {}, WordsScopes, {})>>

StartCourse == <<Phase({}, {"courseProgress"}, {"words"}, ProgressScopes)>>
CompleteProgress ==
    Phase({}, {"lessonProgress", "wordProgress", "courseProgress", "nextReview"}, {"words"}, ProgressScopes)
RecordActivity == Phase({}, {"streak"}, {}, StreakScopes)
CompleteLesson ==
    <<CompleteProgress, Phase({}, {"cards", "session"}, {}, {}),
      RecordActivity, Phase({}, {}, LessonsScopes, {})>>
SubmitFSRS ==
    <<Phase({}, {"cards", "session"}, {}, {}), RecordActivity, Phase({}, {}, {"words"}, PracticeScopes)>>

VocabularyPurge == Phase({}, {}, {"words", "dictionary"}, VocabularyScopes)
NoteWrite == <<Phase({}, {"note"}, {}, {}), VocabularyPurge>>
CreateFromDictionary ==
    <<Phase({"word"}, {"note", "wordProgress", "nextReview", "session"}, {}, {}),
      RecordActivity, VocabularyPurge>>
SyncWords == <<Phase({"word"}, {}, DictionaryScopes, {})>>

\* Neither is followed by a deletion: a getter that sets the next review of
\* new words, and the card that createFromDictionary asks for without waiting.
AdjustNextReview == <<Phase({}, {"nextReview"}, {}, {})>>
InitFsrsCard     == <<Phase({}, {"cards"}, {}, {})>>

Writers == {CourseCreate, CourseRemove, LessonCreate, LessonRemove, WordCreate,
            WordRemove, StartCourse, <<CompleteProgress>>, <<RecordActivity>>, CompleteLesson, SubmitFSRS,
            NoteWrite, CreateFromDictionary, SyncWords, AdjustNextReview, InitFsrsCard,
            CourseUpdate, LessonUpdate, WordUpdate}

\* Writes no deletion covers: those two, and a shared word that a user's save
\* brings up to date in the lists of the others.
Uncovered(op, writer, u) ==
    \/ op \in {AdjustNextReview, InitFsrsCard}
    \/ op = CreateFromDictionary /\ u # writer

-----------------------------------------------------------------------------
Idle == [kind |-> "idle"]
Reading(u, stale) == [kind |-> "get", user |-> u, stale |-> stale]
Writing(op, u, phase, wrote) ==
    [kind |-> "write", op |-> op, user |-> u, phase |-> phase, wrote |-> wrote]

Init ==
    /\ endpoint \in Endpoints
    /\ entry = [u \in Users |-> "absent"]
    /\ req = [r \in Requests |-> Idle]
    /\ excused = [u \in Users |-> FALSE]

\* getJson found nothing, or Redis failed: the SELECTs begin.
Get(r, u) ==
    /\ req[r] = Idle
    /\ req' = [req EXCEPT ![r] = Reading(u, FALSE)]
    /\ UNCHANGED <<endpoint, entry, excused>>

SetJson(r) ==
    /\ req[r].kind = "get"
    /\ entry' = [entry EXCEPT ![req[r].user] = IF req[r].stale THEN "stale" ELSE "fresh"]
    /\ excused' = [excused EXCEPT ![req[r].user] = req[r].stale]
    /\ req' = [req EXCEPT ![r] = Idle]
    /\ UNCHANGED endpoint

Expire(u) ==
    /\ entry[u] # "absent"
    /\ entry' = [entry EXCEPT ![u] = "absent"]
    /\ excused' = [excused EXCEPT ![u] = FALSE]
    /\ UNCHANGED <<endpoint, req>>

\* Writers that change nothing the watched getter reads are left out.
Begin(r, op, u) ==
    /\ req[r] = Idle
    /\ \E i \in DOMAIN op : (op[i].all \union op[i].own) \intersect endpoint.reads # {}
    /\ req' = [req EXCEPT ![r] = Writing(op, u, 1, FALSE)]
    /\ UNCHANGED <<endpoint, entry, excused>>

Current(r) == req[r].op[req[r].phase]

Affected(r) ==
    {u \in Users : \/ Current(r).all \intersect endpoint.reads # {}
                   \/ u = req[r].user /\ Current(r).own \intersect endpoint.reads # {}}

\* One statement: what was read before is out of date, in the cache and on its way there.
Write(r) ==
    /\ req[r].kind = "write"
    /\ entry' = [u \in Users |-> IF u \in Affected(r) /\ entry[u] = "fresh" THEN "stale" ELSE entry[u]]
    /\ excused' = [u \in Users |->
                     excused[u] \/ (/\ u \in Affected(r) /\ entry[u] # "absent"
                                    /\ Uncovered(req[r].op, req[r].user, u))]
    /\ req' = [o \in Requests |->
                 IF o = r THEN [req[r] EXCEPT !.wrote = TRUE]
                 ELSE IF req[o].kind = "get" /\ req[o].user \in Affected(r)
                      THEN [req[o] EXCEPT !.stale = TRUE] ELSE req[o]]
    /\ UNCHANGED endpoint

\* To the next phase; after the last one the request is answered.
Advance(r) ==
    req' = [req EXCEPT ![r] = IF req[r].phase < Len(req[r].op)
                              THEN Writing(req[r].op, req[r].user, req[r].phase + 1, FALSE)
                              ELSE Idle]

Purged(r) == {u \in Users : \/ endpoint.scope \in Current(r).purge
                            \/ u = req[r].user /\ endpoint.scope \in Current(r).purgeOwn}

\* delByPatterns: SCAN returns every key that is there throughout.
DelByPatterns(r) ==
    /\ req[r].kind = "write" /\ (req[r].wrote \/ Affected(r) = {})
    /\ entry' = [u \in Users |-> IF u \in Purged(r) THEN "absent" ELSE entry[u]]
    /\ excused' = [u \in Users |-> excused[u] /\ u \notin Purged(r)]
    /\ Advance(r)
    /\ UNCHANGED endpoint

\* recordActivity returns at once when the day is recorded already.
AlreadyRecorded(r) ==
    /\ req[r].kind = "write" /\ ~req[r].wrote /\ Current(r) = RecordActivity
    /\ Advance(r)
    /\ UNCHANGED <<endpoint, entry, excused>>

\* Redis fails, a statement fails or the service stops: the writer goes on
\* with its next phase or not at all, without the deletion.
Lose(r) ==
    /\ req[r].kind = "write"
    /\ excused' = [u \in Users |-> excused[u] \/ entry[u] = "stale"]
    /\ Advance(r) \/ req' = [req EXCEPT ![r] = Idle]
    /\ UNCHANGED <<endpoint, entry>>

\* A getter fails: not found, no answer from fsrs-ai, or no Redis to store it.
Drop(r) ==
    /\ req[r].kind = "get"
    /\ req' = [req EXCEPT ![r] = Idle]
    /\ UNCHANGED <<endpoint, entry, excused>>

Next ==
    \/ \E u \in Users : Expire(u)
    \/ \E r \in Requests :
         \/ \E u \in Users : Get(r, u) \/ \E op \in Writers : Begin(r, op, u)
         \/ SetJson(r) \/ Write(r) \/ DelByPatterns(r)
         \/ AlreadyRecorded(r) \/ Lose(r) \/ Drop(r)

Spec == Init /\ [][Next]_vars

-----------------------------------------------------------------------------
(* Properties *)

TypeOK ==
    /\ endpoint \in Endpoints
    /\ entry \in [Users -> {"absent", "fresh", "stale"}]
    /\ excused \in [Users -> BOOLEAN]
    /\ \A r \in Requests :
         \/ req[r] = Idle
         \/ \E u \in Users, s \in BOOLEAN : req[r] = Reading(u, s)
         \/ \E u \in Users, op \in Writers, w \in BOOLEAN :
              \E i \in DOMAIN op : req[r] = Writing(op, u, i, w)

\* Whatever a writer changed is gone from the cache of everyone who reads it
\* when the writer answers.  A stale entry means that a writer is still at
\* work, that a getter read before a write and stored after its deletion, that
\* Redis or a statement failed, or one of the Uncovered writes.
StaleIsExplained ==
    \A u \in Users : entry[u] = "stale" =>
        excused[u] \/ \E r \in Requests : req[r].kind = "write"

=============================================================================
