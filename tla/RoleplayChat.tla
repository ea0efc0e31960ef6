---------------------------- MODULE RoleplayChat ----------------------------
(* Role plays of one user (generative service, RoleplayService).           *)
(*                                                                         *)
(* Starting a session and each message of it are chains of statements with *)
(* no transaction, with the language model in the middle.  The evaluation  *)
(* a message writes is computed from the one read before the model was     *)
(* asked.  Sequencing and failures are kept, texts are message numbers.    *)
EXTENDS Naturals, FiniteSets

CONSTANTS
    Sessions,    \* ids of sessions
    Requests,    \* requests in progress at a time
    Tasks,       \* required tasks of the scenario
    MaxMessages  \* bound: messages the user sends

VARIABLES
    user,        \* the user is in the generative schema
    scenario,    \* the scenario exists
    session,     \* session[s]: status of the row
    evaluation,  \* evaluation[s]: the row with the tasks and the feedback
    said,        \* said[s]: messages of the user that are stored
    replies,     \* replies[s]: the messages whose reply is stored
    req,         \* req[r]: where a request is
    sent,        \* messages sent so far
    earned,      \* history: earned[s]: tasks some stored evaluation has completed
    given,       \* history: given[s]: messages with stored feedback
    overlapped   \* history: sessions with an evaluation written over a newer one

vars == <<user, scenario, session, evaluation, said, replies, req, sent,
          earned, given, overlapped>>

rows == <<user, scenario, session, evaluation, said, replies>>

history == <<earned, given, overlapped>>

Evaluation == [exists : BOOLEAN, tasks : SUBSET Tasks, feedback : SUBSET (1..MaxMessages)]

NoEvaluation == [exists |-> FALSE, tasks |-> {}, feedback |-> {}]

Idle == [pc |-> "idle"]

Init ==
    /\ user = FALSE
    /\ scenario = TRUE
    /\ session = [s \in Sessions |-> "none"]
    /\ evaluation = [s \in Sessions |-> NoEvaluation]
    /\ said = [s \in Sessions |-> {}]
    /\ replies = [s \in Sessions |-> {}]
    /\ req = [r \in Requests |-> Idle]
    /\ sent = 0
    /\ earned = [s \in Sessions |-> {}]
    /\ given = [s \in Sessions |-> {}]
    /\ overlapped = {}

Goto(r, pc) == req' = [req EXCEPT ![r].pc = pc]

Respond(r) == req' = [req EXCEPT ![r] = Idle]

-----------------------------------------------------------------------------
(* Starting a session.                                                     *)

StartSession(r) ==
    /\ req[r] = Idle
    /\ req' = [req EXCEPT ![r] = [pc |-> IF user THEN "scenario" ELSE "user"]]
    /\ UNCHANGED <<rows, sent, history>>

\* The user is copied on first use; the id is the primary key, so the slower
\* of two first starts fails.
CreateUser(r) ==
    /\ req[r].pc = "user"
    /\ user' = TRUE
    /\ IF user THEN Respond(r) ELSE Goto(r, "scenario")
    /\ UNCHANGED <<scenario, session, evaluation, said, replies, sent, history>>

FindScenario(r) ==
    /\ req[r].pc = "scenario"
    /\ IF scenario THEN Goto(r, "session") ELSE Respond(r)
    /\ UNCHANGED <<rows, sent, history>>

\* The foreign key refuses the session of a scenario deleted meanwhile.
CreateRow(r) ==
    /\ req[r].pc = "session"
    /\ IF scenario
       THEN \E s \in Sessions :
              /\ session[s] = "none"
              /\ session' = [session EXCEPT ![s] = "active"]
              /\ req' = [req EXCEPT ![r] = [pc |-> "evaluation", session |-> s]]
       ELSE Respond(r) /\ UNCHANGED session
    /\ UNCHANGED <<user, scenario, evaluation, said, replies, sent, history>>

CreateEvaluation(r) ==
    /\ req[r].pc = "evaluation"
    /\ evaluation' = [evaluation EXCEPT ![req[r].session].exists = TRUE]
    /\ Goto(r, "opening")
    /\ UNCHANGED <<user, scenario, session, said, replies, sent, history>>

\* The model opens the conversation; its message is stored and spoken, and
\* the voice may fail unnoticed.  A failure before ends the request.
Open(r) ==
    /\ req[r].pc = "opening"
    /\ Respond(r)
    /\ UNCHANGED <<rows, sent, history>>

-----------------------------------------------------------------------------
(* A message.                                                              *)

\* A voice message is transcribed first; a failure there ends the request.
Chat(r) ==
    /\ req[r] = Idle
    /\ \E s \in Sessions :
         req' = [req EXCEPT ![r] = [pc |-> "read", session |-> s]]
    /\ UNCHANGED <<rows, sent, history>>

Found(s) == session[s] # "none" /\ evaluation[s].exists

\* 404 and 400; the last twenty messages are read as well.
ReadSession(r) ==
    /\ req[r].pc = "read"
    /\ LET s == req[r].session IN
       IF Found(s) /\ session[s] # "completed"
       THEN req' = [req EXCEPT ![r] =
              [pc |-> "say", session |-> s, read |-> evaluation[s]]]
       ELSE Respond(r)
    /\ UNCHANGED <<rows, sent, history>>

StoreUserMessage(r) ==
    /\ req[r].pc = "say"
    /\ sent < MaxMessages
    /\ sent' = sent + 1
    /\ LET s == req[r].session IN
         /\ said' = [said EXCEPT ![s] = @ \cup {sent + 1}]
         /\ req' = [req EXCEPT ![r] =
              [pc |-> "model", session |-> s, read |-> req[r].read, message |-> sent + 1]]
    /\ UNCHANGED <<user, scenario, session, evaluation, replies, history>>

\* The model judges the tasks, may correct the message and may complete the
\* scenario.  An answer that is no JSON judges nothing; no answer at all ends
\* the request and leaves the user's message behind.
CallOllama(r) ==
    /\ req[r].pc = "model"
    /\ \/ Respond(r)
       \/ \E judged \in SUBSET Tasks, feedback \in BOOLEAN, completed \in BOOLEAN :
            req' = [req EXCEPT ![r] =
              [pc |-> "evaluate", session |-> @.session, read |-> @.read,
               message |-> @.message, judged |-> judged, completed |-> completed,
               feedback |-> IF feedback THEN {@.message} ELSE {}]]
    /\ UNCHANGED <<rows, sent, history>>

\* Variant: the model's judgement replaces the tasks completed before.
Updated_Replaced(read, judged, feedback) ==
    [exists |-> TRUE, tasks |-> judged, feedback |-> read.feedback \cup feedback]

\* A task once completed stays so whatever the model says of it later.
Updated(read, judged, feedback) ==
    [exists |-> TRUE, tasks |-> read.tasks \cup judged,
     feedback |-> read.feedback \cup feedback]

UpdateEvaluation(r) ==
    /\ req[r].pc = "evaluate"
    /\ LET s == req[r].session IN
         /\ evaluation' = [evaluation EXCEPT ![s] =
              Updated(req[r].read, req[r].judged, req[r].feedback)]
         /\ earned' = [earned EXCEPT ![s] = @ \cup req[r].judged]
         /\ given' = [given EXCEPT ![s] = @ \cup req[r].feedback]
         /\ overlapped' = IF evaluation[s] # req[r].read
                          THEN overlapped \cup {s} ELSE overlapped
    /\ Goto(r, "reply")
    /\ UNCHANGED <<user, scenario, session, said, replies, sent>>

\* The reply is stored and spoken; a voice that fails is only logged.
StoreReply(r) ==
    /\ req[r].pc = "reply"
    /\ replies' = [replies EXCEPT ![req[r].session] = @ \cup {req[r].message}]
    /\ IF req[r].completed THEN Goto(r, "complete") ELSE Respond(r)
    /\ UNCHANGED <<user, scenario, session, evaluation, said, sent, history>>

CompleteSession(r) ==
    /\ req[r].pc = "complete"
    /\ session' = [session EXCEPT ![req[r].session] = "completed"]
    /\ Respond(r)
    /\ UNCHANGED <<user, scenario, evaluation, said, replies, sent, history>>

-----------------------------------------------------------------------------
\* A statement fails or the service restarts: nothing before it is undone.
Fail(r) ==
    /\ req[r] # Idle
    /\ Respond(r)
    /\ UNCHANGED <<rows, sent, history>>

\* The sessions of a scenario keep it from being deleted.
DeleteScenario ==
    /\ scenario
    /\ \A s \in Sessions : session[s] = "none"
    /\ scenario' = FALSE
    /\ UNCHANGED <<user, session, evaluation, said, replies, req, sent, history>>

Next ==
    \/ DeleteScenario
    \/ \E r \in Requests :
         \/ StartSession(r) \/ CreateUser(r) \/ FindScenario(r) \/ CreateRow(r)
         \/ CreateEvaluation(r) \/ Open(r) \/ Chat(r) \/ ReadSession(r)
         \/ StoreUserMessage(r) \/ CallOllama(r) \/ UpdateEvaluation(r)
         \/ StoreReply(r) \/ CompleteSession(r) \/ Fail(r)

Spec == Init /\ [][Next]_vars

-----------------------------------------------------------------------------
(* Properties.                                                             *)

\* The variables keep their types.
TypeOK ==
    /\ user \in BOOLEAN /\ scenario \in BOOLEAN
    /\ session \in [Sessions -> {"none", "active", "completed"}]
    /\ evaluation \in [Sessions -> Evaluation]
    /\ said \in [Sessions -> SUBSET (1..MaxMessages)]
    /\ replies \in [Sessions -> SUBSET (1..MaxMessages)]
    /\ sent \in 0..MaxMessages
    /\ earned \in [Sessions -> SUBSET Tasks]
    /\ given \in [Sessions -> SUBSET (1..MaxMessages)]
    /\ overlapped \subseteq Sessions

\* A task once completed stays completed and no correction of the user's
\* grammar is lost, except to a message that had read the evaluation before
\* and wrote it back later.
ProgressKeptUnlessOverlapped ==
    \A s \in Sessions \ overlapped :
        evaluation[s].tasks = earned[s] /\ evaluation[s].feedback = given[s]

\* A session whose start broke off before its evaluation was stored never
\* takes a message, and a reply always follows the message it answers.
ConversationsAreWhole ==
    \A s \in Sessions :
        /\ said[s] # {} => evaluation[s].exists
        /\ replies[s] \subseteq said[s]
=============================================================================
