---------------------------- MODULE MCGenerative ----------------------------
(* The generative service and the storage of its audio in one run: tutor   *)
(* sessions, role plays, the providers behind a turn, the content of a     *)
(* listening lesson, the lesson in the listening service that asks for it, *)
(* and the stored files.  The parts share no state here, so each behaviour *)
(* moves the part it has chosen.                                           *)
EXTENDS TLC, Integers, FiniteSets

CONSTANTS
    Requests,
    Turns, TurnsLimit, MaxTurns,
    Sessions, Tasks, MaxMessages,
    MaxSegments, ChunkWords, TargetVocab, TargetQuiz,
    MaxGenerations,
    Files, Sourced, MaxContent

ASSUME GenerativeAssumption ==
    /\ TurnsLimit \in Nat \ {0} /\ MaxTurns \in Nat
    /\ MaxMessages \in Nat
    /\ MaxSegments \in Nat /\ TargetVocab \in Nat /\ TargetQuiz \in Nat
    /\ MaxGenerations \in Nat
    /\ Sourced \subseteq Files /\ MaxContent \in Nat \ {0}

VARIABLES
    part,
    session, keys, tutorReq, made, ended, tutorOverlapped, excused,
    user, scenario, play, evaluation, said, replies, playReq, sent,
    earned, given, playOverlapped,
    hasKey, turn,
    half, text, open, found, vocabulary, extraction, question,
    lesson, job, editor, generation, listOverlapped, lost, renamed, wordless,
    source, asset, row, fileReq, reuploaded, claimed, broken

tutorState == <<session, keys, tutorReq, made, ended, tutorOverlapped, excused>>
playState == <<user, scenario, play, evaluation, said, replies, playReq, sent,
               earned, given, playOverlapped>>
providerState == <<hasKey, turn>>
contentState == <<half, text, open, found, vocabulary, extraction, question>>
lessonState == <<lesson, job, editor, generation, listOverlapped, lost, renamed, wordless>>
fileState == <<source, asset, row, fileReq, reuploaded, claimed, broken>>

\* Segments of one or two words.
MCTexts == {{"w1"}, {"w2", "w3"}}

\* The word of the short segments is too short to be taken unasked.
MCEligible == {"w2", "w3"}

T == INSTANCE TutorSession WITH req <- tutorReq, overlapped <- tutorOverlapped

R == INSTANCE RoleplayChat WITH
       session <- play, req <- playReq, overlapped <- playOverlapped

P == INSTANCE ProviderCalls WITH Callers <- Requests

L == INSTANCE ListeningContent WITH Texts <- MCTexts, Eligible <- MCEligible

S == INSTANCE ListeningLesson WITH
       Editors <- Requests, overlapped <- listOverlapped

F == INSTANCE StoredFiles WITH req <- fileReq

GenerativeInit ==
    /\ part \in {"tutor", "play", "providers", "content", "lesson", "files"}
    /\ T!Init /\ R!Init /\ P!Init /\ L!Init /\ S!Init /\ F!Init
    /\ part # "providers" => hasKey
    /\ part # "content" => text = <<>> /\ half = "quiz"

GenerativeNext ==
    /\ UNCHANGED part
    /\ \/ /\ part = "tutor" /\ T!Next
          /\ UNCHANGED <<playState, providerState, contentState, lessonState, fileState>>
       \/ /\ part = "play" /\ R!Next
          /\ UNCHANGED <<tutorState, providerState, contentState, lessonState, fileState>>
       \/ /\ part = "providers" /\ P!Next
          /\ UNCHANGED <<tutorState, playState, contentState, lessonState, fileState>>
       \/ /\ part = "content" /\ L!Next
          /\ UNCHANGED <<tutorState, playState, providerState, lessonState, fileState>>
       \/ /\ part = "lesson" /\ S!Next
          /\ UNCHANGED <<tutorState, playState, providerState, contentState, fileState>>
       \/ /\ part = "files" /\ F!Next
          /\ UNCHANGED <<tutorState, playState, providerState, contentState, lessonState>>

GenerativeSpec ==
    GenerativeInit /\ [][GenerativeNext]_<<part, tutorState, playState, providerState,
                                           contentState, lessonState, fileState>>

\* Requests and client turn ids differ in nothing but their name.
Symmetry == Permutations(Requests) \union Permutations(Turns)

\* The variables of the part that moves keep their types.
GenerativeTypeOK ==
    /\ part = "tutor" => T!TypeOK
    /\ part = "play" => R!TypeOK
    /\ part = "providers" => P!TypeOK
    /\ part = "content" => L!TypeOK
    /\ part = "lesson" => S!TypeOK
    /\ part = "files" => F!TypeOK

\* See TutorSession: turns are kept and made once.
TurnsAreKept == part = "tutor" => T!TurnsAreKept

\* See RoleplayChat: neither progress nor a message gets lost.
PlayIsKept == part = "play" => R!ProgressKeptUnlessOverlapped /\ R!ConversationsAreWhole

\* See ProviderCalls: a provider is asked again only where that can help.
TurnsAreJustified == part = "providers" => P!TurnsAreJustified

\* See ListeningContent and ListeningLesson: the content made of the model's
\* answers fits together and belongs to the state of the lesson.
ListeningIsSound ==
    /\ part = "content" => L!ContentIsSound
    /\ part = "lesson" => S!LessonIsWhole

\* See StoredFiles: a row describes an upload unless a client wrote it, and an
\* upload gets a row.
RowsDescribeUploads == part = "files" => F!RowsDescribeUploads
=============================================================================
