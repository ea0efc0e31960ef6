------------------------------ MODULE Practice ------------------------------
(* Submitting a practice (learn service, submitFSRS) with the streak.      *)
(*                                                                         *)
(* The answers of an exercise are reviewed by fsrs-ai over HTTP; after     *)
(* that the practice session is stored and the day is recorded in the      *)
(* streak, each best effort, the caches are purged and the user is         *)
(* answered.  The request carries no identity: a user whose answer is lost *)
(* submits the exercise again, and fsrs-ai reviews it again.  The streak   *)
(* is that of module Streak; lessons and saved words record activity too.  *)
EXTENDS Streak

CONSTANTS
    Learners,  \* the calls that belong to submits, each of its own exercise
    MaxTries   \* bound: submits of one exercise

ASSUME PracticeAssumption == Learners \subseteq Calls /\ MaxTries \in Nat

VARIABLES
    submit,    \* submit[c]: where the request of client c is
    tries,     \* tries[c]: submits of c's exercise so far
    reviewed,  \* reviewed[c]: bulk reviews of it that fsrs-ai has committed
    kept,      \* kept[c]: practice sessions stored for it
    answered,  \* answered[c]: the user has seen a submit of it succeed
    unheard    \* history: unheard[c]: reviews of it whose submit never answered

practiceVars == <<submit, tries, reviewed, kept, answered, unheard>>

Stages == {"none", "review", "session", "streak", "recording", "elsewhere", "answer"}

PracticeInit ==
    /\ Init
    /\ submit = [c \in Calls |-> "none"]
    /\ tries = [c \in Calls |-> 0]
    /\ reviewed = [c \in Calls |-> 0]
    /\ kept = [c \in Calls |-> 0]
    /\ answered = [c \in Calls |-> FALSE]
    /\ unheard = [c \in Calls |-> 0]

Goto(c, stage) == submit' = [submit EXCEPT ![c] = stage]

Submit(c) ==
    /\ c \in Learners
    /\ submit[c] = "none"
    /\ ~answered[c]
    /\ tries[c] < MaxTries
    /\ Goto(c, "review")
    /\ tries' = [tries EXCEPT ![c] = @ + 1]
    /\ UNCHANGED <<reviewed, kept, answered, unheard, vars>>

\* Variant: the status of fsrs-ai's answer is not looked at.
Refused_NetworkOnly(ok, heard) == ~heard

\* Not reachable, no answer, or an answer that is not a success.
Refused(ok, heard) == ~heard \/ ~ok

\* fsrs-ai commits all reviews of the exercise or none (module FsrsCards);
\* its answer may be lost either way.
BulkReview(c) ==
    /\ submit[c] = "review"
    /\ \E ok, heard \in BOOLEAN :
         /\ Goto(c, IF Refused(ok, heard) THEN "none" ELSE "session")
         /\ reviewed' = [reviewed EXCEPT ![c] = IF ok THEN @ + 1 ELSE @]
         /\ unheard' = [unheard EXCEPT ![c] = IF ok /\ ~heard THEN @ + 1 ELSE @]
    /\ UNCHANGED <<tries, kept, answered, vars>>

\* A failed INSERT is logged and forgotten.
CreatePracticeSession(c) ==
    /\ submit[c] = "session"
    /\ Goto(c, "streak")
    /\ \E stored \in {0, 1} : kept' = [kept EXCEPT ![c] = @ + stored]
    /\ UNCHANGED <<tries, reviewed, answered, unheard, vars>>

RecordActivity(c) ==
    /\ submit[c] = "streak"
    /\ Enter(c)
    /\ Goto(c, "recording")
    /\ UNCHANGED <<tries, reviewed, kept, answered, unheard>>

\* Completing a lesson and saving a word record activity as well.
RecordElsewhere(c) ==
    /\ submit[c] = "none"
    /\ Enter(c)
    /\ Goto(c, "elsewhere")
    /\ UNCHANGED <<tries, reviewed, kept, answered, unheard>>

\* A step of recordActivity; when it returns, or throws, its caller goes on.
Recording(c) ==
    /\ submit[c] \in {"recording", "elsewhere"}
    /\ Read(c) \/ Create(c) \/ Update(c) \/ Lose(c)
    /\ Goto(c, CASE call'[c] # Idle -> submit[c]
                 [] call'[c] = Idle /\ submit[c] = "recording" -> "answer"
                 [] OTHER -> "none")
    /\ UNCHANGED <<tries, reviewed, kept, answered, unheard>>

\* The caches are purged and the user is answered, if the answer gets there.
Respond(c) ==
    /\ submit[c] = "answer"
    /\ Goto(c, "none")
    /\ \/ answered' = [answered EXCEPT ![c] = TRUE] /\ UNCHANGED unheard
       \/ unheard' = [unheard EXCEPT ![c] = @ + 1] /\ UNCHANGED answered
    /\ UNCHANGED <<tries, reviewed, kept, vars>>

\* The learn service restarts; fsrs-ai may have committed what was sent.
Restart ==
    /\ \E c \in Calls : submit[c] # "none"
    /\ submit' = [c \in Calls |-> "none"]
    /\ call' = [c \in Calls |-> Idle]
    /\ \E committed \in SUBSET {c \in Calls : submit[c] = "review"} :
         /\ reviewed' = [c \in Calls |->
                           reviewed[c] + IF c \in committed THEN 1 ELSE 0]
         /\ unheard' = [c \in Calls |-> unheard[c] +
              IF c \in committed \/ submit[c] \in {"session", "streak", "recording", "answer"}
              THEN 1 ELSE 0]
    /\ UNCHANGED <<streak, day, recorded, raced, tries, kept, answered>>

\* The user turns to the next exercise.
OpenExercise(c) ==
    /\ submit[c] = "none"
    /\ tries[c] > 0
    /\ tries' = [tries EXCEPT ![c] = 0]
    /\ reviewed' = [reviewed EXCEPT ![c] = 0]
    /\ kept' = [kept EXCEPT ![c] = 0]
    /\ answered' = [answered EXCEPT ![c] = FALSE]
    /\ unheard' = [unheard EXCEPT ![c] = 0]
    /\ UNCHANGED <<submit, vars>>

PracticeNext ==
    \/ Midnight /\ UNCHANGED practiceVars
    \/ Restart
    \/ \E c \in Calls :
         \/ Submit(c) \/ BulkReview(c) \/ CreatePracticeSession(c)
         \/ RecordActivity(c) \/ RecordElsewhere(c) \/ Recording(c)
         \/ Respond(c) \/ OpenExercise(c)

PracticeSpec == PracticeInit /\ [][PracticeNext]_<<vars, practiceVars>>

-----------------------------------------------------------------------------
(* Properties.                                                             *)

\* The variables of the streak and of the submits keep their types.
PracticeTypeOK ==
    /\ TypeOK
    /\ submit \in [Calls -> Stages]
    /\ tries \in [Calls -> 0..MaxTries]
    /\ reviewed \in [Calls -> 0..MaxTries]
    /\ kept \in [Calls -> 0..MaxTries]
    /\ answered \in [Calls -> BOOLEAN]
    /\ unheard \in [Calls -> 0..MaxTries]

\* The submit of c has the success of fsrs-ai in its hands.
Holding(c) == submit[c] \in {"session", "streak", "recording", "answer"}

\* The history never shows a session whose words were not reviewed, a user
\* who is told of success has been reviewed, and an exercise is reviewed more
\* than once only because a submit of it was committed and never answered.
ReviewsExplained ==
    \A c \in Calls :
        /\ kept[c] <= reviewed[c]
        /\ reviewed[c] = unheard[c] + IF answered[c] \/ Holding(c) THEN 1 ELSE 0
=============================================================================
