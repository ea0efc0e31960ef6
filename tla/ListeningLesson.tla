-------------------------- MODULE ListeningLesson ---------------------------
(* A listening lesson from its video to its end (listening-service:        *)
(* routers/listening.py, repositories/lesson_repo.py).                     *)
(*                                                                         *)
(* POST /process-video stores an empty lesson and leaves the rest to a     *)
(* background job.  Meanwhile and afterwards editors regenerate a list,    *)
(* change the title or delete the lesson.  Each works on a session that    *)
(* has loaded the lesson with its children and writes what it changed at   *)
(* the end.  Transcript and generation are synchronous calls which hold up *)
(* the whole service, so that nothing happens between them and the         *)
(* statement that follows.  One process serves; nothing resumes a job.     *)
EXTENDS Naturals, FiniteSets

CONSTANTS
    Editors,         \* concurrent requests of editors
    MaxGenerations   \* bound: generations of content

VARIABLES
    lesson,      \* the row, with the generations its children come from
    job,         \* the background job
    editor,      \* the request each editor has under way
    generation,  \* the last generation of content
    overlapped,  \* lists whose rows changed between a load and its write
    lost,        \* history: the job broke off by a restart or a failed write
    renamed,     \* history: an editor has given a processed lesson its title
    wordless     \* history: the last vocabulary made of a transcript is empty

vars == <<lesson, job, editor, generation, overlapped, lost, renamed, wordless>>

Lists == {"vocabularies", "quizzes"}
Children == Lists \cup {"segments"}

NoLesson == [exists |-> FALSE, status |-> "none", title |-> "none",
             rows |-> [c \in Children |-> {}]]

Idle == [pc |-> "idle", kind |-> "none", seen |-> NoLesson]

Init ==
    /\ lesson = NoLesson
    /\ job = [pc |-> "none", seen |-> NoLesson]
    /\ editor = [e \in Editors |-> Idle]
    /\ generation = 0
    /\ overlapped = {}
    /\ lost = FALSE
    /\ renamed = FALSE
    /\ wordless = FALSE

\* What is made of a transcript: nothing of an empty one, which a lesson has
\* before the job is through; questions of any other, but no words if the model
\* has found none and the transcript has none worth learning.
Generated(c, segments) ==
    IF segments = {} THEN {{}}
    ELSE IF c = "vocabularies" THEN {{}, {generation + 1}} ELSE {{generation + 1}}

\* Variant: the rows that are there stay.
Replaced_Appends(c, seen, new) == lesson.rows[c] \cup new

\* clear() deletes the rows the session has loaded, whoever added others since;
\* deleting a row that is gone is only warned of.
Replaced(c, seen, new) == (lesson.rows[c] \ seen.rows[c]) \cup new

Overlap(written, seen) ==
    overlapped' = overlapped \cup {c \in written : lesson.rows[c] # seen.rows[c]}

\* An UPDATE sets the title only where it differs from the loaded one.
Titled(title, seen) == IF seen.title = title THEN lesson.title ELSE title

(* The job.                                                                *)

ProcessVideo ==
    /\ job.pc = "none"
    /\ lesson' = [NoLesson EXCEPT !.exists = TRUE, !.status = "PROCESSING",
                                  !.title = "placeholder"]
    /\ job' = [job EXCEPT !.pc = "queued"]
    /\ UNCHANGED <<editor, generation, overlapped, lost, renamed, wordless>>

\* The content is there or could not be had; then the lesson is loaded.
JobGenerate ==
    /\ job.pc = "queued"
    /\ \E outcome \in {"generated", "failed"} :
         job' = [pc |-> IF lesson.exists THEN outcome ELSE "done", seen |-> lesson]
    /\ UNCHANGED <<lesson, editor, generation, overlapped, lost, renamed, wordless>>

\* The job has a transcript, else it fails.  Its title is the one given with
\* the video, or one of its own.
PopulateLessonContent ==
    /\ job.pc = "generated"
    /\ lesson.exists
    /\ generation < MaxGenerations
    /\ \E title \in {"placeholder", "generated"},
          words \in Generated("vocabularies", {generation + 1}) :
         /\ lesson' = [lesson EXCEPT !.status = "READY",
                !.title = Titled(title, job.seen),
                !.rows = [c \in Children |->
                    Replaced(c, job.seen, IF c = "vocabularies" THEN words ELSE {generation + 1})]]
         /\ wordless' = (words = {})
    /\ generation' = generation + 1
    /\ Overlap(Children, job.seen)
    /\ job' = [job EXCEPT !.pc = "done"]
    /\ UNCHANGED <<editor, lost, renamed>>

MarkLessonFailed ==
    /\ job.pc = "failed"
    /\ lesson.exists
    /\ lesson' = [lesson EXCEPT !.status = "FAILED"]
    /\ job' = [job EXCEPT !.pc = "done"]
    /\ UNCHANGED <<editor, generation, overlapped, lost, renamed, wordless>>

\* The write fails, for one because the lesson is gone.  A failed flush makes
\* the session useless, so that marking the lesson as failed fails with it.
JobBreaks ==
    /\ job.pc \in {"generated", "failed"}
    /\ job' = [job EXCEPT !.pc = "done"]
    /\ lost' = TRUE
    /\ UNCHANGED <<lesson, editor, generation, overlapped, renamed, wordless>>

(* The editors.                                                            *)

Load(e) ==
    /\ editor[e].pc = "idle"
    /\ lesson.exists
    /\ \E kind \in Lists \cup {"title", "deletion"} :
         editor' = [editor EXCEPT ![e] =
             [pc |-> IF kind \in Lists THEN "loaded" ELSE "changed",
              kind |-> kind, seen |-> lesson]]
    /\ UNCHANGED <<lesson, job, generation, overlapped, lost, renamed, wordless>>

\* The second SELECT finds the lesson but not what happened to it: the session
\* keeps the rows it has loaded.
Regenerate(e) ==
    /\ editor[e].pc = "loaded"
    /\ editor' = [editor EXCEPT ![e] =
         IF lesson.exists THEN [editor[e] EXCEPT !.pc = "changed"] ELSE Idle]
    /\ UNCHANGED <<lesson, job, generation, overlapped, lost, renamed, wordless>>

Writes(e, kinds) ==
    /\ editor[e].pc = "changed"
    /\ editor[e].kind \in kinds
    /\ editor' = [editor EXCEPT ![e] = Idle]

\* The transcript is the one the editor has loaded.
ReplaceList(e) ==
    LET list == editor[e].kind
        seen == editor[e].seen IN
    /\ Writes(e, Lists)
    /\ lesson.exists
    /\ generation < MaxGenerations
    /\ \E new \in Generated(list, seen.rows["segments"]) :
         /\ lesson' = [lesson EXCEPT !.rows[list] = Replaced(list, seen, new)]
         /\ wordless' = IF list = "vocabularies" /\ seen.rows["segments"] # {}
                         THEN new = {} ELSE wordless
    /\ generation' = generation + 1
    /\ Overlap({list}, seen)
    /\ UNCHANGED <<job, lost, renamed>>

UpdateLesson(e) ==
    /\ Writes(e, {"title"})
    /\ lesson.exists
    /\ lesson' = [lesson EXCEPT !.title = Titled("edited", editor[e].seen)]
    /\ renamed' = (renamed \/ editor[e].seen.status # "PROCESSING")
    /\ UNCHANGED <<job, generation, overlapped, lost, wordless>>

\* The children go with the lesson, also those the session has not seen.
DeleteLesson(e) ==
    /\ Writes(e, {"deletion"})
    /\ lesson' = NoLesson
    /\ UNCHANGED <<job, generation, overlapped, lost, renamed, wordless>>

\* The generation or a statement fails, for one because the lesson is gone.
EditorFails(e) ==
    /\ editor[e].pc # "idle"
    /\ editor' = [editor EXCEPT ![e] = Idle]
    /\ UNCHANGED <<lesson, job, generation, overlapped, lost, renamed, wordless>>

Restart ==
    /\ job.pc \notin {"none", "done"}
    /\ job' = [job EXCEPT !.pc = "done"]
    /\ lost' = TRUE
    /\ editor' = [e \in Editors |-> Idle]
    /\ UNCHANGED <<lesson, generation, overlapped, renamed, wordless>>

Next ==
    \/ ProcessVideo \/ JobGenerate \/ PopulateLessonContent
    \/ MarkLessonFailed \/ JobBreaks \/ Restart
    \/ \E e \in Editors :
         \/ Load(e) \/ Regenerate(e) \/ EditorFails(e)
         \/ ReplaceList(e) \/ UpdateLesson(e) \/ DeleteLesson(e)

Spec == Init /\ [][Next]_vars

-----------------------------------------------------------------------------
LessonType ==
    [exists : BOOLEAN,
     status : {"none", "PROCESSING", "READY", "FAILED"},
     title : {"none", "placeholder", "generated", "edited"},
     rows : [Children -> SUBSET (1..MaxGenerations)]]

\* The row and the requests keep their types.
TypeOK ==
    /\ lesson \in LessonType
    /\ job \in [pc : {"none", "queued", "generated", "failed", "done"}, seen : LessonType]
    /\ editor \in [Editors -> [pc : {"idle", "loaded", "changed"},
                               kind : Lists \cup {"none", "title", "deletion"},
                               seen : LessonType]]
    /\ generation \in 0..MaxGenerations
    /\ overlapped \subseteq Children
    /\ lost \in BOOLEAN /\ renamed \in BOOLEAN /\ wordless \in BOOLEAN

\* A list never mixes two generations, unless two requests overlapped.
OfOneGeneration ==
    \A c \in Children : Cardinality(lesson.rows[c]) > 1 => c \in overlapped

\* A lesson shown as ready has transcript and questions, and words unless the
\* last generation of them found none; no overlap empties a list.  It is shown
\* as in process as long as its job is under way and, since nothing takes the
\* job up again, for ever if that broke off.  A title an editor gave it stays.
StatusIsTrue ==
    /\ lesson.status = "READY" =>
         /\ lesson.rows["segments"] # {} /\ lesson.rows["quizzes"] # {}
         /\ lesson.rows["vocabularies"] = {} => wordless
    /\ lesson.exists => (lesson.status = "PROCESSING" <=>
                            lost \/ job.pc \in {"queued", "generated", "failed"})
    /\ lesson.exists /\ renamed => lesson.title = "edited"
    /\ ~lesson.exists => lesson = NoLesson

\* The lesson is what it says, whatever job and editors do at the same time.
LessonIsWhole == OfOneGeneration /\ StatusIsTrue
=============================================================================
