-------------------------- MODULE GenerativeProofs ---------------------------
(* What the generative service promises, for any number of requests.  The  *)
(* parts share no variable, so that each has an invariant of its own.      *)
EXTENDS MCGenerative, SequenceTheorems, FiniteSetTheorems, WellFoundedInduction,
        TLAPS

(***************************************************************************)
(* Stored files.  Between its upload and its row a request holds the       *)
(* content that is at Cloudinary, unless the file was uploaded again, and  *)
(* nothing is ever taken away from there (Holds).                          *)
(***************************************************************************)

FilesTyped ==
    /\ source \in [Sourced -> 1..MaxContent]
    /\ asset \in [Files -> 0..MaxContent]
    /\ row \in [Files -> 0..MaxContent]
    /\ fileReq = [r \in Requests |-> fileReq[r]]
    /\ reuploaded \subseteq Files /\ claimed \subseteq Files /\ broken \subseteq Files

FileRequest(q) ==
    /\ q.pc \in {"idle", "fetch", "upload", "row"}
    /\ q.pc = "idle" <=> q = F!Idle
    /\ q.pc # "idle" => q.file \in Files
    /\ q.pc = "fetch" => q.file \in Sourced
    /\ q.pc \in {"upload", "row"} => q.content \in 1..MaxContent

Holds(q) ==
    q.pc = "row" =>
        /\ asset[q.file] # 0
        /\ q.file \notin reuploaded => q.content = asset[q.file]

FilesInv ==
    /\ FilesTyped
    /\ \A r \in Requests : FileRequest(fileReq[r]) /\ Holds(fileReq[r])
    /\ F!RowsDescribeUploads

LEMMA FilesInit == ASSUME F!Init PROVE FilesInv
BY GenerativeAssumption
   DEF F!Init, F!Idle, FilesInv, FilesTyped, FileRequest, Holds, F!RowsDescribeUploads

\* A step of r makes of its request q and leaves the others alone.
Makes(r, q) ==
    /\ fileReq' = [fileReq EXCEPT ![r] = q]
    /\ FileRequest(q)

LEMMA MakesTyped ==
    ASSUME NEW r \in Requests, NEW q, FilesInv, Makes(r, q)
    PROVE  /\ fileReq' = [p \in Requests |-> fileReq'[p]]
           /\ \A p \in Requests : FileRequest(fileReq'[p])
           /\ fileReq'[r] = q
           /\ \A p \in Requests \ {r} : fileReq'[p] = fileReq[p]
BY DEF FilesInv, FilesTyped, Makes

LEMMA IngestKeeps ==
    ASSUME NEW r \in Requests, NEW q, FilesInv, Makes(r, q), q.pc # "row",
           fileReq[r].pc # "row",
           UNCHANGED <<source, asset, row, reuploaded, claimed, broken>>
    PROVE  FilesInv'
<1>1. FilesTyped' /\ \A p \in Requests : FileRequest(fileReq[p])'
  BY MakesTyped DEF FilesInv, FilesTyped, FileRequest
<1>2. \A p \in Requests : Holds(fileReq[p])'
  BY MakesTyped DEF FilesInv, Holds
<1>3. \A f \in Files : F!AwaitsRow(f) => F!AwaitsRow(f)'
  BY MakesTyped DEF F!AwaitsRow
<1>4. F!RowsDescribeUploads'
  BY <1>3 DEF FilesInv, F!RowsDescribeUploads
<1> QED
  BY <1>1, <1>2, <1>4 DEF FilesInv

LEMMA FilesStep ==
    ASSUME FilesInv, F!Next
    PROVE  FilesInv'
<1>1. ASSUME NEW f \in Sourced, F!SourceChanges(f) PROVE FilesInv'
  <2>1. FilesTyped' /\ \A p \in Requests : FileRequest(fileReq[p])'
    BY <1>1, GenerativeAssumption DEF FilesInv, FilesTyped, FileRequest, F!SourceChanges
  <2> QED
    BY <1>1, <2>1 DEF FilesInv, Holds, F!SourceChanges, F!RowsDescribeUploads, F!AwaitsRow
<1>8. ASSUME NEW f \in Files, F!RegisterFile(f) PROVE FilesInv'
  <2>1. PICK c \in 1..MaxContent : row' = [row EXCEPT ![f] = IF row[f] = 0 THEN c ELSE row[f]]
    BY <1>8 DEF F!RegisterFile, F!RowOver, F!Contents
  <2>2. /\ claimed' = IF row[f] = 0 THEN claimed \cup {f} ELSE claimed
        /\ UNCHANGED <<source, asset, fileReq, reuploaded, broken>>
    BY <1>8 DEF F!RegisterFile
  <2>3. FilesTyped' /\ \A p \in Requests : FileRequest(fileReq[p])'
    BY <2>1, <2>2, GenerativeAssumption DEF FilesInv, FilesTyped, FileRequest
  <2>4. \A p \in Requests : Holds(fileReq[p])'
    BY <2>2 DEF FilesInv, Holds
  <2>5. F!RowsDescribeUploads'
    BY <2>1, <2>2, GenerativeAssumption
       DEF FilesInv, FilesTyped, F!RowsDescribeUploads, F!AwaitsRow
  <2> QED
    BY <2>3, <2>4, <2>5 DEF FilesInv
<1> SUFFICES ASSUME NEW r \in Requests,
                    \/ F!IngestRemoteAudio(r) \/ F!FetchSource(r) \/ F!IngestRecording(r)
                    \/ F!UploadSigned(r) \/ F!UploadBuffer(r) \/ F!CreateFile(r)
                    \/ F!Fail(r)
             PROVE  FilesInv'
  BY <1>1, <1>8 DEF F!Next
<1> DEFINE q == fileReq[r]
<1>0. FileRequest(q) /\ Holds(q) /\ FileRequest(F!Idle) /\ F!Idle.pc = "idle"
  BY DEF FilesInv, FileRequest, F!Idle
<1>2. CASE F!IngestRemoteAudio(r)
  <2>1. PICK f \in Sourced : fileReq' = [fileReq EXCEPT ![r] = [pc |-> "fetch", file |-> f]]
    BY <1>2 DEF F!IngestRemoteAudio
  <2>2. Makes(r, [pc |-> "fetch", file |-> f])
    BY <2>1, GenerativeAssumption DEF Makes, FileRequest, F!Idle
  <2> QED
    BY <1>0, <1>2, <2>2, IngestKeeps DEF F!IngestRemoteAudio
<1>3. CASE F!FetchSource(r)
  <2>1. CASE F!Respond(r)
    BY <1>0, <1>3, <2>1, IngestKeeps DEF F!FetchSource, F!Respond, Makes
  <2>2. CASE fileReq' = [fileReq EXCEPT ![r] = [pc |-> "upload", file |-> @.file,
                                                content |-> source[fileReq[r].file]]]
    <3>1. Makes(r, [pc |-> "upload", file |-> q.file, content |-> source[q.file]])
      BY <1>0, <1>3, <2>2 DEF Makes, FileRequest, F!Idle, F!FetchSource, FilesInv, FilesTyped
    <3> QED
      BY <1>3, <3>1, IngestKeeps DEF F!FetchSource
  <2> QED
    BY <1>3, <2>1, <2>2 DEF F!FetchSource
<1>4. ASSUME NEW f \in Files, F!Uploads(r, f) PROVE FilesInv'
  <2>1. PICK c \in 1..MaxContent :
          fileReq' = [fileReq EXCEPT ![r] = [pc |-> "upload", file |-> f, content |-> c]]
    BY <1>4 DEF F!Uploads, F!Contents
  <2>2. Makes(r, [pc |-> "upload", file |-> f, content |-> c])
    BY <2>1 DEF Makes, FileRequest, F!Idle
  <2> QED
    BY <1>0, <1>4, <2>2, IngestKeeps DEF F!Uploads
<1>9. CASE F!IngestRecording(r) \/ F!UploadSigned(r)
  BY <1>4, <1>9 DEF F!IngestRecording, F!UploadSigned
<1>5. CASE F!UploadBuffer(r)
  <2>1. PICK v : v = [q EXCEPT !.pc = "row"]
    OBVIOUS
  <2>2. v.pc = "row" /\ v.file = q.file /\ v.content = q.content /\ FileRequest(v)
    BY <1>0, <1>5, <2>1 DEF F!UploadBuffer, FileRequest, F!Idle
  <2>3. Makes(r, v)
    BY <1>5, <2>1, <2>2 DEF F!UploadBuffer, Makes
  <2>4. q.file \in Files /\ q.content \in 1..MaxContent
    BY <1>0, <1>5 DEF F!UploadBuffer, FileRequest
  <2>5. /\ asset' = [asset EXCEPT ![q.file] = q.content]
        /\ reuploaded' = IF asset[q.file] # 0 THEN reuploaded \cup {q.file} ELSE reuploaded
        /\ UNCHANGED <<source, row, claimed, broken>>
    BY <1>5 DEF F!UploadBuffer
  <2>6. FilesTyped' /\ \A p \in Requests : FileRequest(fileReq[p])'
    BY <2>3, <2>4, <2>5, MakesTyped, GenerativeAssumption DEF FilesInv, FilesTyped, FileRequest
  <2>7. \A p \in Requests : Holds(fileReq[p])'
    BY <2>2, <2>3, <2>4, <2>5, MakesTyped, GenerativeAssumption
       DEF FilesInv, FilesTyped, Holds, FileRequest
  <2>8. \A f \in Files : F!AwaitsRow(f) => F!AwaitsRow(f)'
    BY <2>2, <2>3, <1>5, MakesTyped DEF F!AwaitsRow, F!UploadBuffer
  <2>9. \E p \in Requests : /\ (fileReq[p] # F!Idle /\ fileReq[p].pc = "row")'
                             /\ fileReq'[p].file = q.file
    BY <2>2, <2>3, MakesTyped DEF F!Idle, FileRequest
  <2>10. PICK g \in Files : g = q.file
    BY <2>4
  <2>11. F!AwaitsRow(g)'
    BY <2>9, <2>10 DEF F!AwaitsRow
  <2>12. F!RowsDescribeUploads'
    BY <2>4, <2>5, <2>8, <2>10, <2>11, GenerativeAssumption
       DEF FilesInv, FilesTyped, F!RowsDescribeUploads
  <2> QED
    BY <2>6, <2>7, <2>12 DEF FilesInv
<1>6. CASE F!CreateFile(r)
  <2>1. Makes(r, F!Idle) /\ UNCHANGED <<source, asset, reuploaded, claimed, broken>>
    BY <1>0, <1>6 DEF F!CreateFile, F!Respond, Makes
  <2>2. q.file \in Files /\ q.content \in 1..MaxContent
    BY <1>0, <1>6 DEF F!CreateFile, FileRequest
  <2>3. row' = [row EXCEPT ![q.file] = IF row[q.file] = 0 THEN q.content ELSE row[q.file]]
    BY <1>6 DEF F!CreateFile, F!RowOver, F!Described
  <2>4. FilesTyped' /\ \A p \in Requests : FileRequest(fileReq[p])'
    BY <2>1, <2>2, <2>3, MakesTyped, GenerativeAssumption DEF FilesInv, FilesTyped, FileRequest
  <2>5. \A p \in Requests : Holds(fileReq[p])'
    BY <1>0, <2>1, MakesTyped DEF FilesInv, Holds
  <2>6. \A f \in Files \ {q.file} : F!AwaitsRow(f) => F!AwaitsRow(f)'
    BY <2>1, MakesTyped DEF F!AwaitsRow
  <2>7. F!RowsDescribeUploads'
    BY <1>0, <1>6, <2>1, <2>2, <2>3, <2>6, GenerativeAssumption
       DEF FilesInv, FilesTyped, F!RowsDescribeUploads, Holds, F!CreateFile
  <2> QED
    BY <2>4, <2>5, <2>7 DEF FilesInv
<1>7. CASE F!Fail(r)
  <2>1. /\ Makes(r, F!Idle) /\ UNCHANGED <<source, asset, row, reuploaded, claimed>>
        /\ broken' = IF q.pc = "row" THEN broken \cup {q.file} ELSE broken
    BY <1>0, <1>7 DEF F!Fail, F!Respond, Makes
  <2>2. FilesTyped' /\ \A p \in Requests : FileRequest(fileReq[p])'
    BY <1>0, <2>1, MakesTyped DEF FilesInv, FilesTyped, FileRequest
  <2>3. \A p \in Requests : Holds(fileReq[p])'
    BY <1>0, <2>1, MakesTyped DEF FilesInv, Holds
  <2>4. \A f \in Files : F!AwaitsRow(f) => f \in broken' \/ F!AwaitsRow(f)'
    BY <2>1, MakesTyped DEF F!AwaitsRow
  <2>5. F!RowsDescribeUploads'
    BY <2>1, <2>4 DEF FilesInv, F!RowsDescribeUploads
  <2> QED
    BY <2>2, <2>3, <2>5 DEF FilesInv
<1> QED
  BY <1>2, <1>3, <1>5, <1>6, <1>7, <1>9

-----------------------------------------------------------------------------
(***************************************************************************)
(* Role plays.  A request carries the session it is about, the evaluation  *)
(* it read and the message it stored: the evaluation of such a session     *)
(* exists, and its message has been said.                                  *)
(***************************************************************************)

PlayRequests ==
    [pc : {"idle", "user", "scenario", "session"}]
      \cup [pc : {"evaluation", "opening", "read"}, session : Sessions]
      \cup [pc : {"say"}, session : Sessions, read : R!Evaluation]
      \cup [pc : {"model"}, session : Sessions, read : R!Evaluation,
             message : 1..MaxMessages]
      \cup [pc : {"evaluate", "reply", "complete"}, session : Sessions,
             read : R!Evaluation, message : 1..MaxMessages, judged : SUBSET Tasks,
             completed : BOOLEAN, feedback : SUBSET (1..MaxMessages)]

HasSaid == {"model", "evaluate", "reply", "complete"}

PlayRequest(q) ==
    /\ q \in PlayRequests
    /\ q.pc = "idle" <=> q = R!Idle
    /\ q.pc \in {"say"} \cup HasSaid => evaluation[q.session].exists /\ q.read.exists
    /\ q.pc \in HasSaid => q.message \in said[q.session]

PlayTyped == R!TypeOK /\ playReq = [r \in Requests |-> playReq[r]]

PlayInv ==
    /\ PlayTyped
    /\ \A r \in Requests : PlayRequest(playReq[r])
    /\ R!ProgressKeptUnlessOverlapped
    /\ R!ConversationsAreWhole

LEMMA PlayInit == ASSUME R!Init PROVE PlayInv
<1>1. R!NoEvaluation \in R!Evaluation
  BY DEF R!NoEvaluation, R!Evaluation
<1>2. PlayTyped
  <2>1. R!TypeOK
    <3>1. evaluation \in [Sessions -> R!Evaluation]
      BY <1>1 DEF R!Init
    <3>2. sent \in 0..MaxMessages
      BY GenerativeAssumption DEF R!Init
    <3> QED
      BY <3>1, <3>2 DEF R!Init, R!TypeOK
  <2>2. playReq = [r \in Requests |-> playReq[r]]
    BY DEF R!Init
  <2> QED
    BY <2>1, <2>2 DEF PlayTyped
<1>3. \A r \in Requests : PlayRequest(playReq[r])
  BY DEF R!Init, R!Idle, PlayRequest, PlayRequests, HasSaid
<1>4. R!ProgressKeptUnlessOverlapped /\ R!ConversationsAreWhole
  BY DEF R!Init, R!NoEvaluation, R!ProgressKeptUnlessOverlapped, R!ConversationsAreWhole
<1> QED
  BY <1>2, <1>3, <1>4 DEF PlayInv

\* The request of r becomes q; no evaluation vanishes and nothing is unsaid.
PlayMakes(r, q) ==
    /\ playReq' = [playReq EXCEPT ![r] = q]
    /\ \A s \in Sessions : /\ evaluation[s].exists => evaluation'[s].exists
                           /\ said[s] \subseteq said'[s]

LEMMA OthersKept ==
    ASSUME NEW r \in Requests, NEW q, PlayInv, PlayMakes(r, q), PlayRequest(q)'
    PROVE  /\ playReq' = [p \in Requests |-> playReq'[p]]
           /\ \A p \in Requests : PlayRequest(playReq[p])'
<1>1. playReq' = [p \in Requests |-> playReq'[p]]
  BY DEF PlayMakes, PlayInv, PlayTyped
<1>2. ASSUME NEW p \in Requests PROVE PlayRequest(playReq[p])'
  <2>1. CASE p = r
    <3>1. playReq'[p] = q
      BY <2>1 DEF PlayMakes, PlayInv, PlayTyped
    <3> QED
      BY <3>1 DEF PlayRequest
  <2>2. CASE p # r
    <3>1. playReq'[p] = playReq[p] /\ PlayRequest(playReq[p])
      BY <2>2 DEF PlayMakes, PlayInv, PlayTyped
    <3> QED
      BY <3>1 DEF PlayMakes, PlayRequest, PlayRequests, HasSaid
  <2> QED
    BY <2>1, <2>2
<1> QED
  BY <1>1, <1>2

\* Steps that only move a request on, in which it may reach a new session.
LEMMA MovesKeep ==
    ASSUME NEW r \in Requests, NEW q, PlayInv, playReq' = [playReq EXCEPT ![r] = q],
           PlayRequest(q), PlayTyped',
           UNCHANGED <<evaluation, said, replies, earned, given, playOverlapped>>
    PROVE  PlayInv'
<1>1. PlayRequest(q)' /\ PlayMakes(r, q)
  BY DEF PlayRequest, PlayMakes
<1>2. R!ProgressKeptUnlessOverlapped' /\ R!ConversationsAreWhole'
  BY DEF PlayInv, R!ProgressKeptUnlessOverlapped, R!ConversationsAreWhole
<1> QED
  BY <1>1, <1>2, OthersKept DEF PlayInv

LEMMA PlayStep ==
    ASSUME PlayInv, R!Next
    PROVE  PlayInv'
<1> USE DEF R!rows, R!history
<1>1. CASE R!DeleteScenario
  <2>1. PlayTyped'
    BY <1>1 DEF PlayInv, PlayTyped, R!TypeOK, R!DeleteScenario
  <2> QED
    BY <1>1, <2>1 DEF R!DeleteScenario, PlayInv, PlayRequest,
                      R!ProgressKeptUnlessOverlapped, R!ConversationsAreWhole
<1> SUFFICES ASSUME NEW r \in Requests,
                    \/ R!StartSession(r) \/ R!CreateUser(r) \/ R!FindScenario(r)
                    \/ R!CreateRow(r) \/ R!CreateEvaluation(r) \/ R!Open(r) \/ R!Chat(r)
                    \/ R!ReadSession(r) \/ R!StoreUserMessage(r) \/ R!CallOllama(r)
                    \/ R!UpdateEvaluation(r) \/ R!StoreReply(r) \/ R!CompleteSession(r)
                    \/ R!Fail(r)
             PROVE  PlayInv'
  BY <1>1 DEF R!Next
<1> PICK q : q = playReq[r]
  OBVIOUS
<1>0. /\ PlayRequest(q) /\ PlayRequest(R!Idle) /\ R!Idle.pc = "idle"
      /\ PlayTyped /\ R!TypeOK
  BY DEF PlayInv, PlayTyped, PlayRequest, R!Idle, PlayRequests, HasSaid
\* Moving on, within a chain of statements.
<1>2. ASSUME NEW v, playReq' = [playReq EXCEPT ![r].pc = v],
             \/ q.pc \in {"user", "scenario", "session"} /\ v \in {"scenario", "session"}
             \/ q.pc = "evaluation" /\ v = "opening"
             \/ q.pc = "evaluate" /\ v = "reply"
             \/ q.pc = "reply" /\ v = "complete"
      PROVE  \E w : /\ playReq' = [playReq EXCEPT ![r] = w]
                    /\ PlayRequest(w) /\ w.pc = v
                    /\ v \in {"opening", "reply", "complete"} => w.session = q.session
  <2>1. PICK w : w = [q EXCEPT !.pc = v]
    OBVIOUS
  <2>2. w # R!Idle /\ w.pc = v
    BY <1>0, <1>2, <2>1 DEF PlayRequest, R!Idle, PlayRequests, HasSaid
  <2>3. /\ w \in PlayRequests
        /\ v \in {"opening", "reply", "complete"} => w.session = q.session
        /\ v \in {"reply", "complete"} => w.message = q.message /\ w.read = q.read
    BY <1>0, <1>2, <2>1 DEF PlayRequest, PlayRequests
  <2>4. PlayRequest(w)
    BY <1>0, <1>2, <2>2, <2>3 DEF PlayRequest, HasSaid
  <2>5. playReq' = [playReq EXCEPT ![r] = w]
    BY <1>2, <2>1
  <2> QED
    BY <2>2, <2>3, <2>4, <2>5
<1>3. CASE R!StartSession(r) \/ R!FindScenario(r) \/ R!Open(r) \/ R!Fail(r) \/ R!Chat(r)
  <2>1. /\ UNCHANGED <<user, scenario, play, evaluation, said, replies, sent, earned, given,
                       playOverlapped>>
        /\ DOMAIN playReq' = Requests
    BY <1>0, <1>3 DEF R!StartSession, R!FindScenario, R!Open, R!Fail, R!Chat, R!Respond, R!Goto,
                      PlayTyped
  <2>2. \E w : playReq' = [playReq EXCEPT ![r] = w] /\ PlayRequest(w)
    <3>1. CASE R!StartSession(r)
      <4>1. PICK w : w = [pc |-> IF user THEN "scenario" ELSE "user"]
        OBVIOUS
      <4>2. PlayRequest(w)
        BY <4>1 DEF PlayRequest, PlayRequests, HasSaid, R!Idle
      <4> QED
        BY <3>1, <4>1, <4>2 DEF R!StartSession
    <3>2. CASE R!FindScenario(r)
      BY <1>0, <1>2, <3>2 DEF R!FindScenario, R!Goto, R!Respond
    <3>3. CASE R!Open(r) \/ R!Fail(r)
      BY <1>0, <3>3 DEF R!Open, R!Fail, R!Respond
    <3>4. CASE R!Chat(r)
      <4>0. PICK s \in Sessions : playReq' = [playReq EXCEPT ![r] = [pc |-> "read", session |-> s]]
        BY <3>4 DEF R!Chat
      <4>1. PICK w : /\ w = [pc |-> "read", session |-> s]
                     /\ playReq' = [playReq EXCEPT ![r] = w]
        BY <4>0
      <4>2. PlayRequest(w)
        BY <4>1 DEF PlayRequest, PlayRequests, HasSaid, R!Idle
      <4> QED
        BY <4>1, <4>2
    <3> QED
      BY <1>3, <3>1, <3>2, <3>3, <3>4
  <2>3. PlayTyped'
    BY <1>0, <2>1, <2>2 DEF PlayTyped, R!TypeOK
  <2> QED
    BY <2>1, <2>2, <2>3, MovesKeep
<1>4. CASE R!CreateUser(r) \/ R!CreateRow(r) \/ R!CompleteSession(r)
  <2>1. UNCHANGED <<scenario, evaluation, said, replies, sent, earned, given, playOverlapped>>
    BY <1>4 DEF R!CreateUser, R!CreateRow, R!CompleteSession
  <2>2. user' \in BOOLEAN /\ play' \in [Sessions -> {"none", "active", "completed"}]
    BY <1>0, <1>4 DEF R!TypeOK, R!CreateUser, R!CreateRow, R!CompleteSession
  <2>3. \E w : playReq' = [playReq EXCEPT ![r] = w] /\ PlayRequest(w)
    <3>1. CASE R!CreateUser(r)
      BY <1>0, <1>2, <3>1 DEF R!CreateUser, R!Goto, R!Respond
    <3>2. CASE R!CreateRow(r) /\ scenario
      <4>0. PICK s \in Sessions : playReq' = [playReq EXCEPT ![r] = [pc |-> "evaluation", session |-> s]]
        BY <3>2 DEF R!CreateRow
      <4>1. PICK w : /\ w = [pc |-> "evaluation", session |-> s]
                     /\ playReq' = [playReq EXCEPT ![r] = w]
        BY <4>0
      <4>2. PlayRequest(w)
        BY <4>1 DEF PlayRequest, PlayRequests, HasSaid, R!Idle
      <4> QED
        BY <4>1, <4>2
    <3>3. CASE (R!CreateRow(r) /\ ~scenario) \/ R!CompleteSession(r)
      BY <1>0, <3>3 DEF R!CreateRow, R!CompleteSession, R!Respond
    <3> QED
      BY <1>4, <3>1, <3>2, <3>3
  <2>4. PlayTyped'
    BY <1>0, <2>1, <2>2, <2>3 DEF PlayTyped, R!TypeOK
  <2> QED
    BY <2>1, <2>3, <2>4, MovesKeep
<1>5. CASE R!ReadSession(r)
  <2>1. UNCHANGED <<user, scenario, play, evaluation, said, replies, sent, earned, given,
                    playOverlapped>>
    BY <1>5 DEF R!ReadSession
  <2>2. \E w : playReq' = [playReq EXCEPT ![r] = w] /\ PlayRequest(w)
    <3>1. CASE R!Found(q.session) /\ play[q.session] # "completed"
      <4>1. PICK w : w = [pc |-> "say", session |-> q.session, read |-> evaluation[q.session]]
        OBVIOUS
      <4>2. q.session \in Sessions
        BY <1>0, <1>5 DEF R!ReadSession, PlayRequest, PlayRequests
      <4>3. evaluation[q.session] \in R!Evaluation /\ evaluation[q.session].exists
        BY <1>0, <3>1, <4>2 DEF R!Found, R!TypeOK
      <4>4. PlayRequest(w)
        BY <4>1, <4>2, <4>3 DEF PlayRequest, PlayRequests, HasSaid, R!Idle
      <4> QED
        BY <1>5, <3>1, <4>1, <4>4 DEF R!ReadSession
    <3>2. CASE ~(R!Found(q.session) /\ play[q.session] # "completed")
      BY <1>0, <1>5, <3>2 DEF R!ReadSession, R!Respond
    <3> QED
      BY <3>1, <3>2
  <2>3. PlayTyped'
    BY <1>0, <2>1, <2>2 DEF PlayTyped, R!TypeOK
  <2> QED
    BY <2>1, <2>2, <2>3, MovesKeep
<1>6. CASE R!CallOllama(r)
  <2>1. UNCHANGED <<user, scenario, play, evaluation, said, replies, sent, earned, given,
                    playOverlapped>>
    BY <1>6 DEF R!CallOllama
  <2>2. \E w : playReq' = [playReq EXCEPT ![r] = w] /\ PlayRequest(w)
    <3>1. CASE R!Respond(r)
      BY <1>0, <3>1 DEF R!Respond
    <3>2. CASE ~R!Respond(r)
      <4>0. PICK judged \in SUBSET Tasks, feedback \in BOOLEAN, completed \in BOOLEAN :
              playReq' = [playReq EXCEPT ![r] =
                [pc |-> "evaluate", session |-> q.session, read |-> q.read,
                 message |-> q.message, judged |-> judged, completed |-> completed,
                 feedback |-> IF feedback THEN {q.message} ELSE {}]]
        BY <1>0, <1>6, <3>2 DEF R!CallOllama, PlayTyped
      <4>1. PICK w :
              /\ w = [pc |-> "evaluate", session |-> q.session, read |-> q.read,
                      message |-> q.message, judged |-> judged, completed |-> completed,
                      feedback |-> IF feedback THEN {q.message} ELSE {}]
              /\ playReq' = [playReq EXCEPT ![r] = w]
        BY <4>0
      <4>2. q.pc = "model"
        BY <1>6 DEF R!CallOllama
      <4>3. /\ q.session \in Sessions /\ q.read \in R!Evaluation /\ q.message \in 1..MaxMessages
            /\ evaluation[q.session].exists /\ q.read.exists /\ q.message \in said[q.session]
        BY <1>0, <4>2 DEF PlayRequest, PlayRequests, HasSaid
      <4>4. PICK feedbacks \in SUBSET (1..MaxMessages) :
              feedbacks = IF feedback THEN {q.message} ELSE {}
        BY <4>3
      <4>5. w = [pc |-> "evaluate", session |-> q.session, read |-> q.read,
                 message |-> q.message, judged |-> judged, completed |-> completed,
                 feedback |-> feedbacks]
        BY <4>1, <4>4
      <4>6. PlayRequest(w)
        BY <4>3, <4>5 DEF PlayRequest, PlayRequests, HasSaid, R!Idle
      <4> QED
        BY <4>1, <4>6
    <3> QED
      BY <3>1, <3>2
  <2>3. PlayTyped'
    BY <1>0, <2>1, <2>2 DEF PlayTyped, R!TypeOK
  <2> QED
    BY <2>1, <2>2, <2>3, MovesKeep
<1>7. CASE R!CreateEvaluation(r)
  <2>1. q.pc = "evaluation" /\ q.session \in Sessions
    BY <1>0, <1>7 DEF R!CreateEvaluation, PlayRequest, PlayRequests
  <2>2. PICK w : /\ playReq' = [playReq EXCEPT ![r] = w]
                 /\ PlayRequest(w) /\ w.pc = "opening"
    BY <1>2, <1>7, <2>1 DEF R!CreateEvaluation, R!Goto
  <2>3. PICK e : e = [evaluation[q.session] EXCEPT !.exists = TRUE]
    OBVIOUS
  <2>4. /\ e \in R!Evaluation /\ e.exists
        /\ e.tasks = evaluation[q.session].tasks /\ e.feedback = evaluation[q.session].feedback
    BY <1>0, <2>1, <2>3 DEF R!TypeOK, R!Evaluation
  <2>5. /\ evaluation' = [evaluation EXCEPT ![q.session] = e]
        /\ UNCHANGED <<user, scenario, play, said, replies, sent, earned, given, playOverlapped>>
    BY <1>7, <2>3 DEF R!CreateEvaluation
  <2>6. evaluation' \in [Sessions -> R!Evaluation]
    BY <1>0, <2>1, <2>4, <2>5 DEF R!TypeOK
  <2>7. PlayMakes(r, w)
    BY <1>0, <2>1, <2>2, <2>4, <2>5 DEF PlayMakes, R!TypeOK
  <2>8. PlayRequest(w)'
    BY <2>2 DEF PlayRequest, HasSaid
  <2>9. PlayTyped'
    BY <1>0, <2>2, <2>5, <2>6 DEF PlayTyped, R!TypeOK
  <2>10. R!ProgressKeptUnlessOverlapped' /\ R!ConversationsAreWhole'
    BY <1>0, <2>1, <2>4, <2>5
       DEF PlayInv, R!TypeOK, R!ProgressKeptUnlessOverlapped, R!ConversationsAreWhole
  <2> QED
    BY <2>7, <2>8, <2>9, <2>10, OthersKept DEF PlayInv
<1>8. CASE R!StoreUserMessage(r)
  <2>1. PICK m : m = sent + 1
    OBVIOUS
  <2>2. m \in 1..MaxMessages
    BY <1>0, <1>8, <2>1, GenerativeAssumption DEF R!StoreUserMessage, R!TypeOK
  <2>3. /\ q.session \in Sessions /\ q.read \in R!Evaluation
        /\ evaluation[q.session].exists /\ q.read.exists
    BY <1>0, <1>8 DEF R!StoreUserMessage, PlayRequest, PlayRequests
  <2>4. PICK w : w = [pc |-> "model", session |-> q.session, read |-> q.read, message |-> m]
    OBVIOUS
  <2>5. /\ playReq' = [playReq EXCEPT ![r] = w]
        /\ said' = [said EXCEPT ![q.session] = @ \cup {m}]
        /\ sent' = m
        /\ UNCHANGED <<user, scenario, play, evaluation, replies, earned, given, playOverlapped>>
    BY <1>8, <2>1, <2>4 DEF R!StoreUserMessage
  <2>6. PlayRequest(w)'
    BY <1>0, <2>2, <2>3, <2>4, <2>5 DEF PlayRequest, PlayRequests, HasSaid, R!Idle, R!TypeOK
  <2>7. PlayMakes(r, w)
    BY <1>0, <2>3, <2>5 DEF PlayMakes, R!TypeOK
  <2>8. PlayTyped'
    BY <1>0, <2>2, <2>3, <2>5 DEF PlayTyped, R!TypeOK
  <2>9. R!ProgressKeptUnlessOverlapped' /\ R!ConversationsAreWhole'
    BY <1>0, <2>3, <2>5
       DEF PlayInv, R!TypeOK, R!ProgressKeptUnlessOverlapped, R!ConversationsAreWhole
  <2> QED
    BY <2>6, <2>7, <2>8, <2>9, OthersKept DEF PlayInv
<1>9. CASE R!UpdateEvaluation(r)
  <2>1. q.pc = "evaluate"
    BY <1>9 DEF R!UpdateEvaluation
  <2>2. /\ q.session \in Sessions /\ q.read \in R!Evaluation
        /\ q.judged \in SUBSET Tasks /\ q.feedback \in SUBSET (1..MaxMessages)
    BY <1>0, <2>1 DEF PlayRequest, PlayRequests
  <2>3. PICK w : /\ playReq' = [playReq EXCEPT ![r] = w]
                 /\ PlayRequest(w) /\ w.pc = "reply" /\ w.session = q.session
    <3>1. playReq' = [playReq EXCEPT ![r].pc = "reply"]
      BY <1>9 DEF R!UpdateEvaluation, R!Goto
    <3>2. \E w : /\ playReq' = [playReq EXCEPT ![r] = w]
                 /\ PlayRequest(w) /\ w.pc = "reply"
                 /\ "reply" \in {"opening", "reply", "complete"} => w.session = q.session
      <4> HIDE DEF PlayRequest
      <4> QED
        BY <1>2, <2>1, <3>1, Zenon
    <3> QED
      BY <3>2
  <2>4. PICK e : e = [exists |-> TRUE, tasks |-> q.read.tasks \cup q.judged,
                      feedback |-> q.read.feedback \cup q.feedback]
    OBVIOUS
  <2>5. e \in R!Evaluation /\ e.exists
    BY <2>2, <2>4 DEF R!Evaluation
  <2>6. /\ evaluation' = [evaluation EXCEPT ![q.session] = e]
        /\ earned' = [earned EXCEPT ![q.session] = @ \cup q.judged]
        /\ given' = [given EXCEPT ![q.session] = @ \cup q.feedback]
        /\ UNCHANGED <<user, scenario, play, said, replies, sent>>
    BY <1>9, <2>4 DEF R!UpdateEvaluation, R!Updated
  <2>7. /\ playOverlapped' \subseteq Sessions /\ playOverlapped \subseteq playOverlapped'
        /\ q.session \notin playOverlapped' => evaluation[q.session] = q.read
    BY <1>0, <1>9, <2>2 DEF R!UpdateEvaluation, R!TypeOK
  <2>8. /\ evaluation' \in [Sessions -> R!Evaluation]
        /\ earned' \in [Sessions -> SUBSET Tasks]
        /\ given' \in [Sessions -> SUBSET (1..MaxMessages)]
    BY <1>0, <2>2, <2>5, <2>6 DEF R!TypeOK
  <2>9. PlayTyped'
    BY <1>0, <2>3, <2>6, <2>7, <2>8 DEF PlayTyped, R!TypeOK
  <2>10. PlayMakes(r, w) /\ PlayRequest(w)'
    BY <1>0, <2>2, <2>3, <2>5, <2>6 DEF PlayMakes, R!TypeOK, PlayRequest, HasSaid
  <2>11. R!ProgressKeptUnlessOverlapped'
    <3> SUFFICES ASSUME NEW s \in Sessions \ playOverlapped'
                 PROVE  /\ evaluation'[s].tasks = earned'[s]
                        /\ evaluation'[s].feedback = given'[s]
      BY DEF R!ProgressKeptUnlessOverlapped
    <3>1. evaluation[s].tasks = earned[s] /\ evaluation[s].feedback = given[s]
      BY <2>7 DEF PlayInv, R!ProgressKeptUnlessOverlapped
    <3> QED
      BY <1>0, <2>2, <2>4, <2>6, <2>7, <3>1 DEF R!TypeOK
  <2>12. R!ConversationsAreWhole'
    BY <1>0, <2>2, <2>5, <2>6 DEF PlayInv, R!TypeOK, R!ConversationsAreWhole
  <2> QED
    BY <2>9, <2>10, <2>11, <2>12, OthersKept DEF PlayInv
<1>10. CASE R!StoreReply(r)
  <2>1. q.pc = "reply"
    BY <1>10 DEF R!StoreReply
  <2>2. /\ q.session \in Sessions /\ q.message \in 1..MaxMessages
        /\ q.message \in said[q.session]
    BY <1>0, <2>1 DEF PlayRequest, PlayRequests, HasSaid
  <2>3. \E w : playReq' = [playReq EXCEPT ![r] = w] /\ PlayRequest(w)
    BY <1>0, <1>2, <1>10, <2>1 DEF R!StoreReply, R!Goto, R!Respond
  <2>4. /\ replies' = [replies EXCEPT ![q.session] = @ \cup {q.message}]
        /\ UNCHANGED <<user, scenario, play, evaluation, said, sent, earned, given,
                       playOverlapped>>
    BY <1>10 DEF R!StoreReply
  <2>5. PlayTyped'
    <3>1. replies' \in [Sessions -> SUBSET (1..MaxMessages)]
      BY <1>0, <2>2, <2>4 DEF R!TypeOK
    <3> QED
      BY <1>0, <2>3, <2>4, <3>1 DEF PlayTyped, R!TypeOK
  <2>6. R!ProgressKeptUnlessOverlapped' /\ R!ConversationsAreWhole'
    BY <1>0, <2>2, <2>4
       DEF PlayInv, R!TypeOK, R!ProgressKeptUnlessOverlapped, R!ConversationsAreWhole
  <2>7. PICK w : playReq' = [playReq EXCEPT ![r] = w] /\ PlayRequest(w)
    BY <2>3
  <2>8. PlayMakes(r, w) /\ PlayRequest(w)'
    BY <2>4, <2>7 DEF PlayMakes, PlayRequest
  <2> QED
    BY <2>5, <2>6, <2>7, <2>8, OthersKept DEF PlayInv
<1> QED
  BY <1>3, <1>4, <1>5, <1>6, <1>7, <1>8, <1>9, <1>10

-----------------------------------------------------------------------------
(***************************************************************************)
(* Providers.  While a turn waits for one, nothing that it had to ask      *)
(* before has failed for good, and it has attempts left.                   *)
(***************************************************************************)

Turn == [pc : {"idle", "ended"} \cup P!Providers, kind : {"tutor", "roleplay"},
         skip : BOOLEAN, result : {"none", "failed", "silent", "spoken"},
         attempts : [P!Providers -> 0..P!Retries], last : [P!Providers -> P!Outcomes]]

Untried(t, p) == t.attempts[p] = 0 /\ t.last[p] = "none"
Trying(t, p)  == t.attempts[p] < P!Retries /\ t.last[p] \in {"none"} \cup P!Temporary
Heard(t)      == t.last["stt"] \in {"ok", "none"}

Waits(t) ==
    /\ (t.pc # "ended") = (t.result = "none")
    /\ t.skip => t.kind = "roleplay"
    /\ t.pc = "stt" => Untried(t, "stt") /\ Untried(t, "llm") /\ Untried(t, "tts")
    /\ t.pc = "llm" => Heard(t) /\ Trying(t, "llm") /\ Untried(t, "tts")
    /\ t.pc = "tts" => Heard(t) /\ P!Usable(t.kind, t.last["llm"]) /\ Trying(t, "tts")

Justified(t) ==
    /\ t.attempts["tts"] > 0 => ~t.skip /\ P!Usable(t.kind, t.last["llm"])
    /\ t.attempts["llm"] > 0 => t.last["stt"] \in {"ok", "none"}
    /\ \A p \in P!Providers :
         t.last[p] \in P!Permanent => t.pc = "ended" /\ t.result \in {"failed", "silent"}
    /\ t.pc = "ended" => (t.result = "failed" <=> ~P!Served(t))
    /\ t.result = "spoken" => t.last["tts"] = "ok"
    /\ t.result = "silent" =>
         \/ ~hasKey \/ t.skip
         \/ t.kind = "roleplay" /\ t.last["tts"] \notin {"ok", "none"}

TurnIsSound(t) == t \in Turn /\ Waits(t) /\ Justified(t)

ProvidersInv ==
    /\ hasKey \in BOOLEAN
    /\ turn = [c \in Requests |-> turn[c]]
    /\ \A c \in Requests : TurnIsSound(turn[c])

LEMMA ProvidersClaimed ==
    ASSUME ProvidersInv
    PROVE  P!TypeOK /\ P!TurnsAreJustified
<1>1. \A c \in Requests : turn[c] \in Turn /\ Justified(turn[c])
  BY DEF ProvidersInv, TurnIsSound
<1>2. P!TypeOK
  BY <1>1 DEF ProvidersInv, P!TypeOK, Turn
<1>3. P!TurnsAreJustified
  BY <1>1 DEF P!TurnsAreJustified, Justified
<1> QED
  BY <1>2, <1>3

LEMMA AttemptedIs ==
    ASSUME NEW t \in Turn, NEW p \in P!Providers, NEW outcome \in P!Outcomes,
           t.attempts[p] < P!Retries
    PROVE  LET a == P!Attempted(t, p, outcome) IN
           /\ a \in Turn
           /\ a.pc = t.pc /\ a.kind = t.kind /\ a.skip = t.skip /\ a.result = t.result
           /\ a.attempts[p] = t.attempts[p] + 1 /\ a.last[p] = outcome
           /\ \A o \in P!Providers \ {p} :
                a.attempts[o] = t.attempts[o] /\ a.last[o] = t.last[o]
<1> PICK attempts : attempts = [t.attempts EXCEPT ![p] = @ + 1]
  OBVIOUS
<1> PICK last : last = [t.last EXCEPT ![p] = outcome]
  OBVIOUS
<1> PICK a : a = [t EXCEPT !.attempts = attempts, !.last = last]
  OBVIOUS
<1>1. a = P!Attempted(t, p, outcome)
  BY DEF P!Attempted, Turn
<1>2. /\ attempts \in [P!Providers -> 0..P!Retries] /\ attempts[p] = t.attempts[p] + 1
      /\ \A o \in P!Providers \ {p} : attempts[o] = t.attempts[o]
  BY DEF Turn, P!Retries
<1>3. /\ last \in [P!Providers -> P!Outcomes] /\ last[p] = outcome
      /\ \A o \in P!Providers \ {p} : last[o] = t.last[o]
  BY DEF Turn
<1>4. /\ a \in Turn /\ a.attempts = attempts /\ a.last = last
      /\ a.pc = t.pc /\ a.kind = t.kind /\ a.skip = t.skip /\ a.result = t.result
  BY <1>2, <1>3 DEF Turn
<1> QED
  BY <1>1, <1>2, <1>3, <1>4

LEMMA EndedIs ==
    ASSUME NEW t \in Turn, NEW result \in {"failed", "silent", "spoken"}
    PROVE  LET e == P!Ended(t, result) IN
           /\ e \in Turn /\ e.pc = "ended" /\ e.result = result
           /\ e.kind = t.kind /\ e.skip = t.skip /\ e.attempts = t.attempts /\ e.last = t.last
BY DEF P!Ended, Turn

LEMMA PlacedIs ==
    ASSUME NEW t \in Turn, NEW pc \in P!Providers
    PROVE  LET e == [t EXCEPT !.pc = pc] IN
           /\ e \in Turn /\ e.pc = pc /\ e.result = t.result
           /\ e.kind = t.kind /\ e.skip = t.skip /\ e.attempts = t.attempts /\ e.last = t.last
BY DEF Turn

LEMMA FreshTurn ==
    /\ TurnIsSound(P!NoTurn)
    /\ \A kind \in {"tutor", "roleplay"}, skip \in BOOLEAN, first \in {"stt", "llm"} :
         (skip => kind = "roleplay")
            => TurnIsSound([P!NoTurn EXCEPT !.kind = kind, !.skip = skip, !.pc = first])
<1>1. ASSUME NEW t \in Turn, t.pc \in {"idle", "stt", "llm"}, t.result = "none",
             t.skip => t.kind = "roleplay", t.attempts = P!NoTurn.attempts, t.last = P!NoTurn.last
      PROVE  TurnIsSound(t)
  <2>1. \A p \in P!Providers : Untried(t, p)
    BY <1>1 DEF Untried, P!NoTurn
  <2>2. Waits(t)
    BY <1>1, <2>1 DEF Waits, Untried, Trying, Heard, P!Providers, P!Retries
  <2>3. Justified(t)
    BY <1>1, <2>1 DEF Justified, Untried, P!Providers, P!Permanent
  <2> QED
    BY <2>2, <2>3 DEF TurnIsSound
<1>2. P!NoTurn \in Turn /\ P!NoTurn.pc = "idle" /\ ~P!NoTurn.skip /\ P!NoTurn.result = "none"
  BY DEF P!NoTurn, Turn, P!Outcomes, P!Retries, P!Providers
<1>3. ASSUME NEW kind \in {"tutor", "roleplay"}, NEW skip \in BOOLEAN,
             NEW first \in {"stt", "llm"}, skip => kind = "roleplay"
      PROVE  TurnIsSound([P!NoTurn EXCEPT !.kind = kind, !.skip = skip, !.pc = first])
  <2>1. PICK t : t = [P!NoTurn EXCEPT !.kind = kind, !.skip = skip, !.pc = first]
    OBVIOUS
  <2>2. /\ t \in Turn /\ t.pc = first /\ t.result = P!NoTurn.result
        /\ t.kind = kind /\ t.skip = skip
        /\ t.attempts = P!NoTurn.attempts /\ t.last = P!NoTurn.last
    BY <1>2, <2>1 DEF Turn, P!Providers
  <2>3. TurnIsSound(t)
    BY <1>1, <1>2, <1>3, <2>2
  <2> QED
    BY <2>1, <2>3
<1> QED
  BY <1>1, <1>2, <1>3

LEMMA ProvidersInit == ASSUME P!Init PROVE ProvidersInv
BY FreshTurn DEF P!Init, ProvidersInv

LEMMA ProvidersStep ==
    ASSUME ProvidersInv, P!Next
    PROVE  ProvidersInv'
<1> SUFFICES ASSUME NEW c \in Requests,
                    P!Begin(c) \/ P!Transcribe(c) \/ P!AskModel(c) \/ P!Synthesize(c) \/ P!Close(c)
             PROVE  \E q : turn' = [turn EXCEPT ![c] = q] /\ TurnIsSound(q)
  <2>1. UNCHANGED hasKey
    BY DEF P!Begin, P!Transcribe, P!AskModel, P!Synthesize, P!Close, P!Next
  <2>2. PICK c, q : c \in Requests /\ turn' = [turn EXCEPT ![c] = q] /\ TurnIsSound(q)
    <3>1. PICK c \in Requests :
            P!Begin(c) \/ P!Transcribe(c) \/ P!AskModel(c) \/ P!Synthesize(c) \/ P!Close(c)
      BY DEF P!Next
    <3> QED
      BY <3>1
  <2>3. \A d \in Requests : turn'[d] \in {q, turn[d]}
    BY <2>2 DEF ProvidersInv
  <2>4. \A d \in Requests : TurnIsSound(turn'[d])
    BY <2>2, <2>3 DEF ProvidersInv
  <2>5. \A d \in Requests : TurnIsSound(turn[d])'
    BY <2>1, <2>4 DEF TurnIsSound, Turn, Waits, Justified, Untried, Trying, Heard, P!Served
  <2> QED
    BY <2>1, <2>2, <2>5 DEF ProvidersInv
<1> PICK t : t = turn[c]
  OBVIOUS
<1>0. /\ t \in Turn /\ Waits(t) /\ Justified(t) /\ hasKey \in BOOLEAN
      /\ \A q : (turn' = [turn EXCEPT ![c] = q]) => turn'[c] = q
  BY DEF ProvidersInv, TurnIsSound
<1>s. (t.skip => t.kind = "roleplay") /\ hasKey \in BOOLEAN
  BY <1>0 DEF Waits
<1>1. CASE P!Begin(c)
  BY <1>1, FreshTurn DEF P!Begin
<1>2. CASE P!Close(c)
  BY <1>2, FreshTurn DEF P!Close
<1>3. CASE P!Transcribe(c)
  <2>1. t.pc = "stt" /\ Untried(t, "stt") /\ Untried(t, "llm") /\ Untried(t, "tts")
    BY <1>0, <1>3 DEF P!Transcribe, Waits
  <2>2. CASE ~hasKey
    <3>1. PICK q : q = P!Ended(t, "failed")
      OBVIOUS
    <3>2. turn' = [turn EXCEPT ![c] = q]
      BY <1>3, <2>2, <3>1 DEF P!Transcribe
    <3>3. /\ q \in Turn /\ q.pc = "ended" /\ q.result = "failed"
          /\ q.kind = t.kind /\ q.skip = t.skip /\ q.attempts = t.attempts /\ q.last = t.last
      BY <1>0, <3>1, EndedIs
    <3>4. TurnIsSound(q)
      BY <1>s, <2>1, <3>3 DEF TurnIsSound, Waits, Justified, Untried, P!Providers, P!Permanent, P!Served, P!Usable
    <3> QED
      BY <3>2, <3>4
  <2>3. ASSUME hasKey, NEW outcome \in {"ok"} \cup P!Temporary,
               turn' = [turn EXCEPT ![c] =
                 IF outcome = "ok" THEN [P!Attempted(t, "stt", outcome) EXCEPT !.pc = "llm"]
                 ELSE P!Ended(P!Attempted(t, "stt", outcome), "failed")]
        PROVE  \E q : turn' = [turn EXCEPT ![c] = q] /\ TurnIsSound(q)
    <3>1. PICK a : a = P!Attempted(t, "stt", outcome)
      OBVIOUS
    <3>2. /\ a \in Turn /\ a.kind = t.kind /\ a.skip = t.skip /\ a.pc = "stt" /\ a.result = "none"
          /\ a.attempts["stt"] = 1 /\ a.last["stt"] = outcome
          /\ Untried(a, "llm") /\ Untried(a, "tts")
      <4>1. /\ "stt" \in P!Providers /\ t.attempts["stt"] = 0 /\ 0 < P!Retries
            /\ outcome \in P!Outcomes /\ t.result = "none"
        BY <1>0, <2>1 DEF P!Providers, P!Retries, P!Outcomes, Untried, Waits
      <4> QED
        BY <1>0, <2>1, <3>1, <4>1, AttemptedIs DEF Untried, P!Providers
    <3>3. CASE outcome = "ok"
      <4>1. PICK q : q = [a EXCEPT !.pc = "llm"]
        OBVIOUS
      <4>2. /\ q \in Turn /\ q.pc = "llm" /\ q.result = a.result
            /\ q.kind = a.kind /\ q.skip = a.skip /\ q.attempts = a.attempts /\ q.last = a.last
        BY <3>2, <4>1, PlacedIs DEF P!Providers
      <4>3. TurnIsSound(q)
        BY <1>s, <3>2, <3>3, <4>2
           DEF TurnIsSound, Waits, Justified, Untried, Trying, Heard,
               P!Providers, P!Permanent, P!Retries
      <4> QED
        BY <2>3, <3>1, <3>3, <4>1, <4>3
    <3>4. CASE outcome # "ok"
      <4>1. PICK q : q = P!Ended(a, "failed")
        OBVIOUS
      <4>2. /\ q \in Turn /\ q.pc = "ended" /\ q.result = "failed"
            /\ q.kind = a.kind /\ q.skip = a.skip /\ q.attempts = a.attempts /\ q.last = a.last
        BY <3>2, <4>1, EndedIs
      <4>3. TurnIsSound(q)
        BY <1>s, <3>2, <3>4, <4>2
           DEF TurnIsSound, Waits, Justified, Untried, P!Providers, P!Permanent, P!Served, P!Usable
      <4> QED
        BY <2>3, <3>1, <3>4, <4>1, <4>3
    <3> QED
      BY <3>3, <3>4
  <2> QED
    BY <1>3, <2>2, <2>3 DEF P!Transcribe
<1>4. CASE P!AskModel(c)
  <2>1. t.pc = "llm" /\ t.result = "none" /\ Heard(t) /\ Trying(t, "llm") /\ Untried(t, "tts")
    BY <1>0, <1>4 DEF P!AskModel, Waits
  <2>0. PICK outcome \in {"ok", "notJson", "auth", "noModel"} \cup P!Temporary :
          turn' = [turn EXCEPT ![c] =
            CASE P!Usable(t.kind, outcome) -> [P!Attempted(t, "llm", outcome) EXCEPT !.pc = "tts"]
              [] ~P!Usable(t.kind, outcome) /\ P!Again(t, "llm", outcome)
                   -> P!Attempted(t, "llm", outcome)
              [] OTHER -> P!Ended(P!Attempted(t, "llm", outcome), "failed")]
    BY <1>4 DEF P!AskModel
  <2>2. PICK a : /\ a = P!Attempted(t, "llm", outcome)
                 /\ turn' = [turn EXCEPT ![c] =
                      CASE P!Usable(t.kind, outcome) -> [a EXCEPT !.pc = "tts"]
                        [] ~P!Usable(t.kind, outcome) /\ P!Again(t, "llm", outcome) -> a
                        [] OTHER -> P!Ended(a, "failed")]
    BY <2>0
  <2>3. /\ a \in Turn /\ a.kind = t.kind /\ a.skip = t.skip /\ a.pc = "llm" /\ a.result = "none"
        /\ a.attempts["llm"] = t.attempts["llm"] + 1 /\ a.last["llm"] = outcome
        /\ Untried(a, "tts") /\ Heard(a)
    <3>1. /\ "llm" \in P!Providers /\ t.attempts["llm"] < P!Retries /\ outcome \in P!Outcomes
      BY <2>1, <2>2 DEF P!Providers, P!Outcomes, Trying, P!Permanent, P!Served, P!Usable
    <3> QED
      BY <1>0, <2>1, <2>2, <3>1, AttemptedIs DEF Untried, P!Providers, Heard
  <2>4. t.attempts["llm"] \in Nat
    BY <1>0 DEF Turn, P!Providers, P!Retries
  <2>5. CASE P!Usable(t.kind, outcome)
    <3>1. PICK q : q = [a EXCEPT !.pc = "tts"]
      OBVIOUS
    <3>2. /\ q \in Turn /\ q.pc = "tts" /\ q.result = a.result
          /\ q.kind = a.kind /\ q.skip = a.skip /\ q.attempts = a.attempts /\ q.last = a.last
      BY <2>3, <3>1, PlacedIs DEF P!Providers
    <3>3. outcome \in {"ok", "notJson"}
      BY <2>5 DEF P!Usable
    <3>4. TurnIsSound(q)
      BY <1>s, <2>3, <2>4, <2>5, <3>2, <3>3
         DEF TurnIsSound, Waits, Justified, Untried, Trying, Heard,
             P!Providers, P!Permanent, P!Retries
    <3> QED
      BY <2>2, <2>5, <3>1, <3>4
  <2>6. CASE ~P!Usable(t.kind, outcome) /\ P!Again(t, "llm", outcome)
    <3>1. outcome \in P!Temporary /\ t.attempts["llm"] + 1 < P!Retries
      BY <2>6 DEF P!Again
    <3>2. TurnIsSound(a)
      BY <1>s, <2>3, <2>4, <3>1
         DEF TurnIsSound, Waits, Justified, Untried, Trying, Heard,
             P!Providers, P!Permanent, P!Temporary, P!Retries
    <3> QED
      BY <2>2, <2>6, <3>2
  <2>7. CASE ~P!Usable(t.kind, outcome) /\ ~P!Again(t, "llm", outcome)
    <3>1. PICK q : q = P!Ended(a, "failed")
      OBVIOUS
    <3>2. /\ q \in Turn /\ q.pc = "ended" /\ q.result = "failed"
          /\ q.kind = a.kind /\ q.skip = a.skip /\ q.attempts = a.attempts /\ q.last = a.last
      BY <2>3, <3>1, EndedIs
    <3>3. TurnIsSound(q)
      BY <1>s, <2>3, <2>7, <3>2
         DEF TurnIsSound, Waits, Justified, Untried, Heard, P!Providers, P!Permanent, P!Served
    <3> QED
      BY <2>2, <2>7, <3>1, <3>3
  <2> QED
    BY <2>5, <2>6, <2>7
<1>5. CASE P!Synthesize(c)
  <2>1. /\ t.pc = "tts" /\ t.result = "none" /\ Heard(t)
        /\ P!Usable(t.kind, t.last["llm"]) /\ Trying(t, "tts")
    BY <1>0, <1>5 DEF P!Synthesize, Waits
  <2>2. t.last["llm"] \in {"ok", "notJson"} /\ t.attempts["tts"] \in Nat
    BY <1>0, <2>1 DEF P!Usable, Turn, P!Providers, P!Retries
  <2>3. CASE P!Voiceless(t)
    <3>1. PICK q : q = P!Ended(t, "silent")
      OBVIOUS
    <3>2. turn' = [turn EXCEPT ![c] = q]
      BY <1>5, <2>3, <3>1 DEF P!Synthesize
    <3>3. /\ q \in Turn /\ q.pc = "ended" /\ q.result = "silent"
          /\ q.kind = t.kind /\ q.skip = t.skip /\ q.attempts = t.attempts /\ q.last = t.last
      BY <1>0, <3>1, EndedIs
    <3>4. TurnIsSound(q)
      BY <1>0, <2>1, <2>2, <2>3, <3>3 DEF P!Voiceless, TurnIsSound, Waits, Justified, Heard, P!Providers, P!Permanent, P!Served, P!Usable
    <3> QED
      BY <3>2, <3>4
  <2>4. CASE ~P!Voiceless(t)
    <3>0. PICK outcome \in {"ok", "refused", "connection", "limited"} :
            turn' = [turn EXCEPT ![c] =
              CASE outcome = "ok" -> P!Ended(P!Attempted(t, "tts", outcome), "spoken")
                [] outcome # "ok" /\ P!Again(t, "tts", outcome) -> P!Attempted(t, "tts", outcome)
                [] OTHER -> P!Ended(P!Attempted(t, "tts", outcome), P!WithoutVoice(t.kind))]
      BY <1>5, <2>4 DEF P!Synthesize
    <3>1. PICK a :
            /\ a = P!Attempted(t, "tts", outcome)
            /\ turn' = [turn EXCEPT ![c] =
                 CASE outcome = "ok" -> P!Ended(a, "spoken")
                   [] outcome # "ok" /\ P!Again(t, "tts", outcome) -> a
                   [] OTHER -> P!Ended(a, P!WithoutVoice(t.kind))]
      BY <3>0
    <3>2. /\ a \in Turn /\ a.kind = t.kind /\ a.skip = t.skip /\ a.pc = "tts" /\ a.result = "none"
          /\ a.attempts["tts"] = t.attempts["tts"] + 1 /\ a.last["tts"] = outcome
          /\ a.last["llm"] = t.last["llm"] /\ Heard(a)
      <4>1. "tts" \in P!Providers /\ t.attempts["tts"] < P!Retries /\ outcome \in P!Outcomes
        BY <2>1, <3>1 DEF P!Providers, P!Outcomes, Trying, P!Permanent, P!Temporary
      <4> QED
        BY <1>0, <2>1, <3>1, <4>1, AttemptedIs DEF P!Providers, Heard
    <3>3. ASSUME NEW result \in {"spoken", "failed", "silent"},
                 turn' = [turn EXCEPT ![c] = P!Ended(a, result)],
                 \/ result = "spoken" /\ outcome = "ok"
                 \/ result = "failed" /\ outcome # "ok" /\ t.kind = "tutor"
                 \/ result = "silent" /\ outcome # "ok" /\ t.kind = "roleplay"
          PROVE  \E q : turn' = [turn EXCEPT ![c] = q] /\ TurnIsSound(q)
      <4>1. PICK q : q = P!Ended(a, result)
        OBVIOUS
      <4>2. /\ q \in Turn /\ q.pc = "ended" /\ q.result = result
            /\ q.kind = a.kind /\ q.skip = a.skip /\ q.attempts = a.attempts /\ q.last = a.last
        BY <3>2, <4>1, EndedIs
      <4>3. q.last["tts"] \in P!Permanent => result \in {"failed", "silent"}
        BY <3>2, <3>3, <4>2 DEF P!Permanent, P!Served, P!Usable
      <4>4. q.last["stt"] \in {"ok", "none"} /\ q.last["llm"] \in {"ok", "notJson"}
        BY <2>2, <3>2, <4>2 DEF Heard
      <4>5. TurnIsSound(q)
        <5>1. /\ hasKey /\ ~q.skip /\ P!Usable(q.kind, q.last["llm"])
              /\ q.last["tts"] = outcome /\ outcome \in {"ok", "refused", "connection", "limited"}
          BY <2>1, <2>4, <3>1, <3>2, <4>2 DEF P!Voiceless
        <5>2. (result = "failed") = ~P!Served(q)
          BY <3>2, <3>3, <4>2, <4>4, <5>1 DEF P!Served
        <5>3. Waits(q)
          BY <4>2, <5>1 DEF Waits
        <5> QED
          BY <3>2, <3>3, <4>2, <4>3, <4>4, <5>1, <5>2, <5>3
             DEF TurnIsSound, Justified, P!Providers, P!Permanent
      <4> QED
        BY <3>3, <4>1, <4>5
    <3>4. CASE outcome = "ok"
      BY <3>1, <3>3, <3>4
    <3>5. CASE outcome # "ok" /\ P!Again(t, "tts", outcome)
      <4>1. outcome \in P!Temporary /\ t.attempts["tts"] + 1 < P!Retries
        BY <3>5 DEF P!Again
      <4>2. TurnIsSound(a)
        BY <1>s, <2>1, <2>2, <2>4, <3>2, <4>1
           DEF TurnIsSound, Waits, Justified, Trying, Heard, P!Voiceless,
               P!Providers, P!Permanent, P!Temporary, P!Retries
      <4> QED
        BY <3>1, <3>5, <4>2
    <3>6. CASE outcome # "ok" /\ ~P!Again(t, "tts", outcome)
      <4>1. turn' = [turn EXCEPT ![c] = P!Ended(a, P!WithoutVoice(t.kind))]
        BY <3>1, <3>6
      <4>2. t.kind \in {"tutor", "roleplay"}
        BY <1>0 DEF Turn
      <4> QED
        BY <3>3, <3>6, <4>1, <4>2 DEF P!WithoutVoice
    <3> QED
      BY <3>4, <3>5, <3>6
  <2> QED
    BY <2>3, <2>4
<1> QED
  BY <1>1, <1>2, <1>3, <1>4, <1>5

-----------------------------------------------------------------------------
(***************************************************************************)
(* Tutor sessions.  A request that writes back the session it has read     *)
(* found it alive, unless it ends it.  A client turn whose key was never   *)
(* missed is made by one request at a time, and until that has stored the  *)
(* key, or after it has, by no other (OnceOnly).                           *)
(***************************************************************************)

LEMMA BoundedIs ==
    ASSUME NEW A, NEW n \in Nat, NEW s
    PROVE  s \in T!BoundedSeq(A, n) <=> s \in Seq(A) /\ Len(s) <= n
<1>1. ASSUME s \in T!BoundedSeq(A, n) PROVE s \in Seq(A) /\ Len(s) <= n
  <2>1. PICK m \in 0..n : s \in [1..m -> A]
    BY <1>1 DEF T!BoundedSeq, T!SeqOf
  <2> QED
    BY <2>1
<1>2. ASSUME s \in Seq(A), Len(s) <= n PROVE s \in T!BoundedSeq(A, n)
  <2>1. Len(s) \in 0..n /\ s \in [1..Len(s) -> A]
    BY <1>2, LenProperties
  <2> QED
    BY <2>1 DEF T!BoundedSeq, T!SeqOf
<1> QED
  BY <1>1, <1>2

\* c is how s ends.
Ends(c, s) ==
    /\ Len(c) <= Len(s)
    /\ \A i \in 1..Len(c) : c[i] = s[Len(s) - Len(c) + i]

LEMMA LastTurnsIs ==
    ASSUME NEW A, NEW s \in Seq(A)
    PROVE  /\ T!LastTurns(s) \in Seq(A)
           /\ Len(T!LastTurns(s)) = IF Len(s) > TurnsLimit THEN TurnsLimit ELSE Len(s)
           /\ Ends(T!LastTurns(s), s)
<1>0. TurnsLimit \in Nat \ {0}
  BY GenerativeAssumption
<1> USE <1>0 DEF Ends
<1>1. Len(s) \in Nat /\ \A i \in 1..Len(s) : s[i] \in A
  BY LenProperties
<1>2. CASE Len(s) > TurnsLimit
  <2>1. PICK m \in Int : m = Len(s) - TurnsLimit + 1
    BY <1>1
  <2>2. T!LastTurns(s) = SubSeq(s, m, Len(s)) /\ \A i \in m..Len(s) : s[i] \in A
    BY <1>1, <1>2, <2>1 DEF T!LastTurns
  <2>3. /\ SubSeq(s, m, Len(s)) \in Seq(A)
        /\ Len(SubSeq(s, m, Len(s))) = IF m <= Len(s) THEN Len(s) - m + 1 ELSE 0
        /\ \A i \in 1..Len(s) - m + 1 : SubSeq(s, m, Len(s))[i] = s[m + i - 1]
    BY <1>1, <2>2, SubSeqProperties
  <2> QED
    BY <1>1, <1>2, <2>1, <2>2, <2>3
<1>3. CASE ~(Len(s) > TurnsLimit)
  BY <1>1, <1>3 DEF T!LastTurns
<1> QED
  BY <1>2, <1>3

LEMMA EndsAppended ==
    ASSUME NEW A, NEW s \in Seq(A), NEW c \in Seq(A), NEW e \in A, Ends(c, s)
    PROVE  Ends(Append(c, e), Append(s, e))
<1>1. PICK n \in Nat, m \in Nat : n = Len(s) /\ m = Len(c)
  BY LenProperties
<1>2. /\ Len(Append(s, e)) = n + 1 /\ \A i \in 1..n : Append(s, e)[i] = s[i]
      /\ Append(s, e)[n + 1] = e
  BY <1>1, AppendProperties
<1>3. /\ Len(Append(c, e)) = m + 1 /\ \A i \in 1..m : Append(c, e)[i] = c[i]
      /\ Append(c, e)[m + 1] = e
  BY <1>1, AppendProperties
<1>4. m <= n /\ \A i \in 1..m : c[i] = s[n - m + i]
  BY <1>1 DEF Ends
<1>5. ASSUME NEW a, NEW b, Len(a) = n + 1, Len(b) = m + 1,
             \A i \in 1..n : a[i] = s[i], \A i \in 1..m : b[i] = c[i],
             a[n + 1] = e, b[m + 1] = e
      PROVE  Ends(b, a)
  <2>1. ASSUME NEW i \in 1..m PROVE b[i] = a[(n + 1) - (m + 1) + i]
    <3>1. PICK k \in 1..n : k = n - m + i
      BY <1>4
    <3>2. b[i] = a[k]
      BY <1>4, <1>5, <3>1
    <3> QED
      BY <3>1, <3>2
  <2>2. b[m + 1] = a[(n + 1) - (m + 1) + (m + 1)]
    BY <1>5
  <2>3. \A i \in 1..(m + 1) : i \in 1..m \/ i = m + 1
    OBVIOUS
  <2>4. \A i \in 1..(m + 1) : b[i] = a[(n + 1) - (m + 1) + i]
    BY <2>1, <2>2, <2>3
  <2> QED
    BY <1>4, <1>5, <2>4 DEF Ends
<1> QED
  BY <1>2, <1>3, <1>5

LEMMA EndsMeet ==
    ASSUME NEW A, NEW a \in Seq(A), NEW b \in Seq(A), Ends(b, a),
           Len(b) >= TurnsLimit \/ Len(b) = Len(a)
    PROVE  T!LastTurns(b) = T!LastTurns(a)
<1>1. PICK la \in Nat, lb \in Nat : la = Len(a) /\ lb = Len(b)
  BY LenProperties
<1>2. PICK x \in Seq(A), y \in Seq(A) : x = T!LastTurns(b) /\ y = T!LastTurns(a)
  BY LastTurnsIs
<1>3. /\ Len(y) = (IF la > TurnsLimit THEN TurnsLimit ELSE la) /\ Ends(y, a)
      /\ Len(x) = (IF lb > TurnsLimit THEN TurnsLimit ELSE lb) /\ Ends(x, b)
  BY <1>1, <1>2, LastTurnsIs
<1>4. PICK l \in Nat : l = Len(x) /\ l = Len(y)
  <2>1. lb <= la /\ (lb >= TurnsLimit \/ lb = la)
    BY <1>1 DEF Ends
  <2>2. TurnsLimit \in Nat
    BY GenerativeAssumption
  <2>3. CASE lb = la
    BY <1>3, <2>2, <2>3
  <2>4. CASE lb # la
    BY <1>3, <2>1, <2>2, <2>4
  <2> QED
    BY <2>3, <2>4
<1>5. ASSUME NEW i \in 1..l PROVE x[i] = y[i]
  <2>1. PICK k \in 1..lb : k = lb - l + i
    BY <1>1, <1>3, <1>4 DEF Ends
  <2>2. x[i] = b[k] /\ y[i] = a[la - l + i] /\ b[k] = a[la - lb + k]
    BY <1>1, <1>3, <1>4, <2>1 DEF Ends
  <2>3. la - lb + k = la - l + i
    BY <2>1
  <2> QED
    BY <2>2, <2>3
<1> QED
  BY <1>2, <1>4, <1>5, SeqEqual

\* Cutting after every turn is cutting at the end.
LEMMA CutAgain ==
    ASSUME NEW A, NEW s \in Seq(A), NEW e \in A
    PROVE  T!LastTurns(Append(T!LastTurns(s), e)) = T!LastTurns(Append(s, e))
<1>1. PICK c \in Seq(A) : c = T!LastTurns(s)
  BY LastTurnsIs
<1>2. PICK n \in Nat, m \in Nat : n = Len(s) /\ m = Len(c)
  BY LenProperties
<1>3. Ends(c, s) /\ m = (IF n > TurnsLimit THEN TurnsLimit ELSE n)
  BY <1>1, <1>2, LastTurnsIs
<1>4. PICK a \in Seq(A), b \in Seq(A) :
        a = Append(s, e) /\ b = Append(c, e) /\ Len(a) = n + 1 /\ Len(b) = m + 1
  BY <1>2, AppendProperties
<1>5. Ends(b, a)
  BY <1>3, <1>4, EndsAppended
<1>6. Len(b) >= TurnsLimit \/ Len(b) = Len(a)
  BY <1>3, <1>4, GenerativeAssumption
<1> QED
  BY <1>1, <1>4, <1>5, <1>6, EndsMeet

Stored == [exists : BOOLEAN, state : T!States, turns : T!BoundedSeq(Turns, TurnsLimit)]

TutorRequests ==
    [pc : {"idle"}]
      \cup [pc : {"transcript", "session", "key", "model", "write", "store"},
            kind : T!Kinds, turn : Turns \cup {"none"}, read : Stored]

TutorRequest(q) ==
    /\ q \in TutorRequests
    /\ q.pc = "idle" <=> q = T!Idle
    /\ q.pc # "idle" => q.turn \in T!TurnsOf(q.kind)
    /\ q.pc = "transcript" => q.kind = "voice"
    /\ q.pc \in {"session", "write"} => q.kind # "voice"
    /\ q.pc \in {"key", "model", "store"} => q.kind = "interact"
    /\ q.pc \in {"key", "model", "write"} =>
         q.read.exists /\ (q.kind # "end" => q.read.state # "COMPLETED")

IsMaker(q, t) == q.pc \in {"model", "write", "store"} /\ q.kind = "interact" /\ q.turn = t

Makers(t) == {r \in Requests : IsMaker(tutorReq[r], t)}

OnceOnly(t) ==
    /\ \A i, j \in T!Occurrences(t) : i = j
    /\ \A q, r \in Makers(t) : q = r
    /\ \A r \in Makers(t) : tutorReq[r].pc # "store" => T!Occurrences(t) = {}
    /\ T!Occurrences(t) # {} => t \in keys \/ \E r \in Makers(t) : tutorReq[r].pc = "store"

TutorTyped ==
    /\ session \in Stored
    /\ keys \subseteq Turns /\ excused \subseteq Turns
    /\ made \in Seq(Turns) /\ Len(made) <= MaxTurns
    /\ ended \in BOOLEAN /\ tutorOverlapped \in BOOLEAN
    /\ tutorReq = [r \in Requests |-> tutorReq[r]]

TutorInv ==
    /\ TutorTyped
    /\ \A r \in Requests : TutorRequest(tutorReq[r])
    /\ T!KeptUnlessOverlapped
    /\ \A t \in Turns \ excused : OnceOnly(t)

LEMMA TutorClaimed ==
    ASSUME TutorInv
    PROVE  T!TypeOK /\ T!TurnsAreKept
<1>1. made \in T!BoundedSeq(Turns, MaxTurns)
  BY BoundedIs, GenerativeAssumption DEF TutorInv, TutorTyped
<1>2. ASSUME NEW r \in Requests, tutorReq[r] # T!Idle
      PROVE  /\ tutorReq[r].pc \in {"transcript", "session", "key", "model", "write", "store"}
             /\ tutorReq[r].kind \in T!Kinds
             /\ tutorReq[r].turn \in T!TurnsOf(tutorReq[r].kind)
  BY <1>2 DEF TutorInv, TutorRequest, TutorRequests
<1>3. T!TypeOK
  BY <1>1, <1>2 DEF T!TypeOK, TutorInv, TutorTyped, Stored
<1>4. T!TurnsAreKept
  BY DEF T!TurnsAreKept, T!RetryMakesNoTurn, TutorInv, OnceOnly
<1> QED
  BY <1>3, <1>4

LEMMA NoSessionIs ==
    /\ T!NoSession \in Stored /\ ~T!NoSession.exists
    /\ [T!NoSession EXCEPT !.exists = TRUE] \in Stored
    /\ [T!NoSession EXCEPT !.exists = TRUE].turns = <<>>
<1>1. <<>> \in T!BoundedSeq(Turns, TurnsLimit)
  <2>1. <<>> \in Seq(Turns) /\ Len(<<>>) = 0
    BY EmptySeq
  <2>2. TurnsLimit \in Nat /\ 0 <= TurnsLimit
    BY GenerativeAssumption
  <2> QED
    BY <2>1, <2>2, BoundedIs
<1>2. /\ T!NoSession \in Stored /\ ~T!NoSession.exists /\ T!NoSession.turns = <<>>
  BY <1>1 DEF T!NoSession, Stored, T!States
<1> QED
  BY <1>2 DEF Stored

LEMMA TutorInit == ASSUME T!Init PROVE TutorInv
<1>1. TutorTyped
  <2>1. made \in Seq(Turns) /\ Len(made) <= MaxTurns
    BY EmptySeq, GenerativeAssumption DEF T!Init
  <2> QED
    BY <2>1, NoSessionIs DEF T!Init, TutorTyped
<1>2. \A r \in Requests : TutorRequest(tutorReq[r])
  BY DEF T!Init, T!Idle, TutorRequest, TutorRequests
<1>3. T!KeptUnlessOverlapped
  BY NoSessionIs DEF T!Init, T!KeptUnlessOverlapped, T!EndedStaysEnded, T!LastTurnsKept
<1>4. \A t \in Turns : T!Occurrences(t) = {} /\ Makers(t) = {}
  BY <1>2 DEF T!Init, T!Idle, T!Occurrences, Makers, IsMaker
<1> QED
  BY <1>1, <1>2, <1>3, <1>4 DEF TutorInv, OnceOnly

\* A step changes the request of r from q to v and leaves the others alone.
NowHas(r, v) == tutorReq' = [tutorReq EXCEPT ![r] = v] /\ TutorRequest(v)

LEMMA TurnsTyped ==
    ASSUME NEW r \in Requests, NEW v, TutorInv, NowHas(r, v)
    PROVE  /\ tutorReq' = [p \in Requests |-> tutorReq'[p]]
           /\ \A p \in Requests : TutorRequest(tutorReq'[p])
           /\ tutorReq'[r] = v
           /\ \A p \in Requests \ {r} : tutorReq'[p] = tutorReq[p]
BY DEF TutorInv, TutorTyped, NowHas

\* A request that makes turn t no more, or never did, leaves it made once.
LEMMA OnceDropped ==
    ASSUME NEW r \in Requests, NEW v, TutorInv, NowHas(r, v), NEW t, OnceOnly(t),
           ~IsMaker(v, t), made' = made, t \in keys => t \in keys',
           (IsMaker(tutorReq[r], t) /\ tutorReq[r].pc = "store") => t \in keys'
    PROVE  OnceOnly(t)'
<1>1. T!Occurrences(t)' = T!Occurrences(t)
  BY DEF T!Occurrences
<1>2. /\ Makers(t)' = Makers(t) \ {r}
      /\ \A p \in Makers(t)' : tutorReq'[p] = tutorReq[p]
  BY TurnsTyped DEF Makers
<1> QED
  BY <1>1, <1>2 DEF OnceOnly, Makers

\* The session is not written, no key is lost unnoticed and no turn is made:
\* what is left to show is that turns are made once.
LEMMA TutorMoves ==
    ASSUME NEW r \in Requests, NEW v, TutorInv, NowHas(r, v),
           UNCHANGED <<session, made, ended, tutorOverlapped>>,
           keys' \subseteq Turns, excused \subseteq excused', excused' \subseteq Turns,
           \A t \in Turns \ excused' : OnceOnly(t)'
    PROVE  TutorInv'
<1>1. TutorTyped'
  BY TurnsTyped DEF TutorInv, TutorTyped
<1>2. \A p \in Requests : TutorRequest(tutorReq[p])'
  BY TurnsTyped DEF TutorRequest
<1>3. T!KeptUnlessOverlapped'
  BY DEF TutorInv, T!KeptUnlessOverlapped, T!EndedStaysEnded, T!LastTurnsKept, T!LastTurns
<1> QED
  BY <1>1, <1>2, <1>3 DEF TutorInv

LEMMA TutorStays ==
    ASSUME NEW r \in Requests, NEW v, TutorInv, NowHas(r, v),
           v.pc \notin {"model", "store"}, v.pc = "write" => v.kind # "interact",
           tutorReq[r].pc # "store",
           UNCHANGED <<session, keys, made, ended, tutorOverlapped, excused>>
    PROVE  TutorInv'
<1>1. \A t \in Turns \ excused : OnceOnly(t)'
  BY OnceDropped DEF TutorInv, IsMaker
<1> QED
  BY <1>1, TutorMoves DEF TutorInv, TutorTyped

\* A request on its way to its turn makes it as before.
LEMMA OnceAdvanced ==
    ASSUME NEW r \in Requests, NEW v, TutorInv, NowHas(r, v), NEW t, OnceOnly(t),
           IsMaker(tutorReq[r], t), IsMaker(v, t), tutorReq[r].pc # "store",
           made' = made, keys' = keys
    PROVE  OnceOnly(t)'
<1>1. T!Occurrences(t)' = T!Occurrences(t)
  BY DEF T!Occurrences
<1>2. /\ Makers(t)' = Makers(t)
      /\ \A p \in Makers(t) \ {r} : tutorReq'[p] = tutorReq[p]
  BY TurnsTyped DEF Makers
<1>3. r \in Makers(t) /\ T!Occurrences(t) = {}
  BY DEF Makers, OnceOnly
<1> QED
  BY <1>1, <1>2, <1>3 DEF OnceOnly, Makers

\* The request that appends the turn was its only maker, and it was not made.
LEMMA OnceMade ==
    ASSUME NEW r \in Requests, NEW v, TutorInv, NowHas(r, v), NEW t \in Turns, OnceOnly(t),
           IsMaker(tutorReq[r], t), IsMaker(v, t), tutorReq[r].pc = "write", v.pc = "store",
           made' = Append(made, t)
    PROVE  OnceOnly(t)'
<1>1. T!Occurrences(t) = {} /\ Makers(t) = {r}
  BY DEF Makers, OnceOnly
<1>2. Makers(t)' = {r}
  BY <1>1, TurnsTyped DEF Makers
<1>3. T!Occurrences(t)' = {Len(made) + 1}
  <2>1. made \in Seq(Turns) /\ Len(made) \in Nat
    BY LenProperties DEF TutorInv, TutorTyped
  <2>2. /\ made' \in Seq(Turns) /\ Len(made') = Len(made) + 1
        /\ \A i \in 1..Len(made) : made'[i] = made[i]
        /\ made'[Len(made) + 1] = t
    BY <2>1, AppendProperties
  <2>3. DOMAIN made = 1..Len(made) /\ DOMAIN made' = 1..(Len(made) + 1)
    BY <2>1, <2>2, LenProperties
  <2>4. \A i \in 1..Len(made) : made[i] # t
    BY <1>1, <2>3 DEF T!Occurrences
  <2> QED
    BY <2>1, <2>2, <2>3, <2>4 DEF T!Occurrences
<1> QED
  BY <1>2, <1>3, TurnsTyped DEF OnceOnly

\* Another turn than the one appended.
LEMMA OthersMade ==
    ASSUME NEW u \in Turns, NEW t, t # u, made \in Seq(Turns), made' = Append(made, u)
    PROVE  T!Occurrences(t)' = T!Occurrences(t)
<1>1. Len(made) \in Nat /\ DOMAIN made = 1..Len(made)
  BY LenProperties
<1>2. /\ made' \in Seq(Turns) /\ Len(made') = Len(made) + 1
      /\ \A i \in 1..Len(made) : made'[i] = made[i]
      /\ made'[Len(made) + 1] = u
  BY AppendProperties
<1>3. DOMAIN made' = 1..(Len(made) + 1)
  BY <1>2, LenProperties
<1> QED
  BY <1>1, <1>2, <1>3 DEF T!Occurrences

\* What WriteSession makes of the session that was read.
LEMMA ChangedIs ==
    ASSUME NEW r \in Requests, TutorInv, tutorReq[r].pc = "write"
    PROVE  LET q == tutorReq[r]
               e == T!Changed(r) IN
           /\ e \in Stored /\ e.exists
           /\ q.kind \in {"interact", "interrupt", "end"}
           /\ q.kind = "interact" =>
                /\ q.turn \in Turns /\ e.state = "ACTIVE"
                /\ e.turns = T!LastTurns(Append(q.read.turns, q.turn))
           /\ q.kind # "interact" => e.turns = q.read.turns
           /\ q.kind = "interrupt" => e.state = "LISTENING"
           /\ q.kind = "end" => e.state = "COMPLETED"
<1> PICK q : q = tutorReq[r]
  OBVIOUS
<1> PICK e : e = T!Changed(r)
  OBVIOUS
<1>1. TutorRequest(q) /\ q.pc = "write"
  BY DEF TutorInv
<1>2. /\ q.read \in Stored /\ q.read.exists /\ q.kind \in {"interact", "interrupt", "end"}
      /\ q.kind = "interact" => q.turn \in Turns
  BY <1>1 DEF TutorRequest, TutorRequests, T!Kinds, T!TurnsOf
<1>3. CASE q.kind = "interact"
  <2>1. PICK s : s = T!LastTurns(Append(q.read.turns, q.turn))
    OBVIOUS
  <2>2. s \in T!BoundedSeq(Turns, TurnsLimit)
    <3>1. q.read.turns \in Seq(Turns)
      BY <1>2, BoundedIs, GenerativeAssumption DEF Stored
    <3>2. Append(q.read.turns, q.turn) \in Seq(Turns)
      BY <1>2, <1>3, <3>1, AppendProperties
    <3>3. s \in Seq(Turns) /\ Len(s) <= TurnsLimit
      <4>1. Len(Append(q.read.turns, q.turn)) \in Nat
        BY <3>2, LenProperties
      <4>2. /\ s \in Seq(Turns)
            /\ Len(s) = (IF Len(Append(q.read.turns, q.turn)) > TurnsLimit THEN TurnsLimit
                          ELSE Len(Append(q.read.turns, q.turn)))
        BY <2>1, <3>2, LastTurnsIs
      <4>3. TurnsLimit \in Nat
        BY GenerativeAssumption
      <4> QED
        BY <4>1, <4>2, <4>3
    <3> QED
      BY <3>3, BoundedIs, GenerativeAssumption
  <2>3. e = [q.read EXCEPT !.state = "ACTIVE", !.turns = s]
    BY <1>3, <2>1 DEF T!Changed
  <2>4. e \in Stored /\ e.exists /\ e.state = "ACTIVE" /\ e.turns = s
    BY <1>2, <2>2, <2>3 DEF Stored, T!States
  <2> QED
    BY <1>2, <1>3, <2>1, <2>4
<1>4. CASE q.kind = "interrupt"
  <2>1. e = [q.read EXCEPT !.state = "LISTENING"]
    BY <1>4 DEF T!Changed
  <2>2. e \in Stored /\ e.exists /\ e.state = "LISTENING" /\ e.turns = q.read.turns
    BY <1>2, <2>1 DEF Stored, T!States
  <2> QED
    BY <1>4, <2>2
<1>5. CASE q.kind = "end"
  <2>1. e = [q.read EXCEPT !.state = "COMPLETED"]
    BY <1>5 DEF T!Changed
  <2>2. e \in Stored /\ e.exists /\ e.state = "COMPLETED" /\ e.turns = q.read.turns
    BY <1>2, <2>1 DEF Stored, T!States
  <2> QED
    BY <1>5, <2>2
<1> QED
  BY <1>2, <1>3, <1>4, <1>5

\* Writing the session loses what others wrote only where that is noticed.
LEMMA WriteKeeps ==
    ASSUME NEW r \in Requests, TutorInv, T!WriteSession(r), session' = T!Changed(r),
           made' = IF tutorReq[r].kind = "interact"
                   THEN Append(made, tutorReq[r].turn) ELSE made,
           ended' = (ended \/ tutorReq[r].kind = "end"),
           tutorOverlapped' = (tutorOverlapped \/ session # tutorReq[r].read)
    PROVE  T!KeptUnlessOverlapped'
<1> PICK q : q = tutorReq[r]
  OBVIOUS
<1>1. TutorRequest(q) /\ q.pc = "write"
  BY DEF TutorInv, T!WriteSession
<1> SUFFICES ASSUME ~tutorOverlapped'
             PROVE  T!EndedStaysEnded' /\ T!LastTurnsKept'
  BY DEF T!KeptUnlessOverlapped
<1>2. ~tutorOverlapped /\ session = q.read /\ T!EndedStaysEnded /\ T!LastTurnsKept
  BY DEF TutorInv, TutorTyped, T!KeptUnlessOverlapped
<1>3. session.exists /\ (q.kind # "end" => ~ended)
  BY <1>1, <1>2 DEF TutorRequest, T!EndedStaysEnded
<1>4. session.turns = T!LastTurns(made)
  BY <1>2, <1>3 DEF T!LastTurnsKept
<1>5. /\ session' \in Stored /\ session'.exists
      /\ q.kind \in {"interact", "interrupt", "end"}
      /\ q.kind = "interact" => /\ q.turn \in Turns
                                /\ session'.turns = T!LastTurns(Append(session.turns, q.turn))
      /\ q.kind # "interact" => session'.turns = session.turns
      /\ q.kind = "end" => session'.state = "COMPLETED"
  BY <1>1, <1>2, ChangedIs
<1>6. T!EndedStaysEnded'
  BY <1>3, <1>5 DEF T!EndedStaysEnded
<1>7. made \in Seq(Turns)
  BY DEF TutorInv, TutorTyped
<1>8. CASE q.kind = "interact"
  <2>1. session'.turns = T!LastTurns(Append(made, q.turn))
    BY <1>4, <1>5, <1>7, <1>8, CutAgain
  <2>2. session'.turns = T!LastTurns(made')
    BY <1>8, <2>1
  <2> QED
    BY <1>6, <2>2 DEF T!LastTurnsKept, T!LastTurns
<1>9. CASE q.kind # "interact"
  <2>1. session'.turns = T!LastTurns(made')
    BY <1>4, <1>5, <1>9
  <2> QED
    BY <1>6, <2>1 DEF T!LastTurnsKept, T!LastTurns
<1> QED
  BY <1>8, <1>9

LEMMA WriteStep ==
    ASSUME NEW r \in Requests, TutorInv, T!WriteSession(r)
    PROVE  TutorInv'
<1> PICK q : q = tutorReq[r]
  OBVIOUS
<1>1. TutorRequest(q) /\ q.pc = "write" /\ TutorRequest(T!Idle) /\ T!Idle.pc = "idle"
  BY DEF TutorInv, T!WriteSession, TutorRequest, TutorRequests, T!Idle
<1>2. PICK v : v = IF q.kind = "interact" THEN [q EXCEPT !.pc = "store"] ELSE T!Idle
  OBVIOUS
<1>3. /\ q.kind = "interact" => v.pc = "store" /\ v.kind = "interact" /\ v.turn = q.turn
      /\ q.kind # "interact" => v.pc = "idle"
      /\ TutorRequest(v)
  BY <1>1, <1>2 DEF TutorRequest, TutorRequests, T!Idle
<1>4. NowHas(r, v)
  BY <1>2, <1>3 DEF NowHas, T!WriteSession, T!Goto, T!Respond
<1>5. UNCHANGED <<keys, excused>> /\ made \in Seq(Turns)
  BY DEF T!WriteSession, TutorInv, TutorTyped
<1>6. CASE UNCHANGED <<session, made, ended, tutorOverlapped>>
  <2>1. ASSUME NEW t \in Turns \ excused PROVE OnceOnly(t)'
    <3>1. OnceOnly(t)
      BY DEF TutorInv
    <3>2. CASE IsMaker(q, t)
      BY <1>1, <1>3, <1>4, <1>5, <1>6, <3>1, <3>2, OnceAdvanced DEF IsMaker
    <3>3. CASE ~IsMaker(q, t)
      BY <1>1, <1>3, <1>4, <1>5, <1>6, <3>1, <3>3, OnceDropped DEF IsMaker
    <3> QED
      BY <3>2, <3>3
  <2> QED
    BY <1>4, <1>5, <1>6, <2>1, TutorMoves DEF TutorInv, TutorTyped
<1>7. CASE /\ Len(made) < MaxTurns
           /\ session' = T!Changed(r)
           /\ made' = IF q.kind = "interact" THEN Append(made, q.turn) ELSE made
           /\ ended' = (ended \/ q.kind = "end")
           /\ tutorOverlapped' = (tutorOverlapped \/ session # q.read)
  <2>1. /\ session' \in Stored
        /\ q.kind = "interact" => q.turn \in Turns
    BY <1>1, <1>7, ChangedIs
  <2>2. made' \in Seq(Turns) /\ Len(made') <= MaxTurns
    <3>1. Len(made) \in Nat
      BY <1>5, LenProperties
    <3>2. CASE q.kind = "interact"
      BY <1>5, <1>7, <2>1, <3>1, <3>2, AppendProperties, GenerativeAssumption
    <3>3. CASE q.kind # "interact"
      BY <1>5, <1>7, <3>1, <3>3, GenerativeAssumption
    <3> QED
      BY <3>2, <3>3
  <2>3. TutorTyped'
    <3>1. ended' \in BOOLEAN /\ tutorOverlapped' \in BOOLEAN
      BY <1>7
    <3> QED
      BY <1>4, <1>5, <2>1, <2>2, <3>1, TurnsTyped DEF TutorInv, TutorTyped
  <2>4. \A p \in Requests : TutorRequest(tutorReq[p])'
    BY <1>4, TurnsTyped DEF TutorRequest
  <2>5. T!KeptUnlessOverlapped'
    BY <1>7, WriteKeeps
  <2>6. ASSUME NEW t \in Turns \ excused PROVE OnceOnly(t)'
    <3>1. OnceOnly(t)
      BY DEF TutorInv
    <3>2. CASE q.kind # "interact"
      BY <1>1, <1>3, <1>4, <1>5, <1>7, <3>1, <3>2, OnceDropped DEF IsMaker
    <3>3. CASE q.kind = "interact" /\ q.turn = t
      BY <1>1, <1>3, <1>4, <1>5, <1>7, <3>1, <3>3, OnceMade DEF IsMaker
    <3>4. CASE q.kind = "interact" /\ q.turn # t
      <4>1. T!Occurrences(t)' = T!Occurrences(t)
        BY <1>5, <1>7, <2>1, <3>4, OthersMade
      <4>2. ~IsMaker(q, t) /\ ~IsMaker(v, t)
        BY <1>3, <3>4 DEF IsMaker
      <4>3. Makers(t)' = Makers(t) /\ \A p \in Makers(t) : tutorReq'[p] = tutorReq[p]
        BY <1>4, <4>2, TurnsTyped DEF Makers
      <4> QED
        BY <1>5, <3>1, <4>1, <4>3 DEF OnceOnly
    <3> QED
      BY <3>2, <3>3, <3>4
  <2> QED
    BY <1>5, <2>3, <2>4, <2>5, <2>6 DEF TutorInv
<1> QED
  BY <1>6, <1>7 DEF T!WriteSession

LEMMA LookUpStep ==
    ASSUME NEW r \in Requests, TutorInv, T!LookUpKey(r)
    PROVE  TutorInv'
<1> PICK q : q = tutorReq[r]
  OBVIOUS
<1>1. /\ TutorRequest(q) /\ q.pc = "key" /\ q.kind = "interact" /\ q.turn \in Turns
      /\ TutorRequest(T!Idle) /\ T!Idle.pc = "idle"
  BY DEF TutorInv, T!LookUpKey, TutorRequest, TutorRequests, T!Idle, T!TurnsOf
<1>2. UNCHANGED <<session, keys, made, ended, tutorOverlapped>>
  BY DEF T!LookUpKey
<1>3. CASE q.turn \in keys /\ T!Respond(r) /\ UNCHANGED excused
  <2>1. NowHas(r, T!Idle)
    BY <1>1, <1>3 DEF NowHas, T!Respond
  <2> QED
    BY <1>1, <1>2, <1>3, <2>1, TutorStays
<1>4. CASE /\ T!Goto(r, "model")
           /\ excused' = IF q.turn \in keys \/ T!SameTurnInFlight(r)
                         THEN excused \cup {q.turn} ELSE excused
  <2>1. PICK v : v = [q EXCEPT !.pc = "model"]
    OBVIOUS
  <2>2. v.pc = "model" /\ v.kind = "interact" /\ v.turn = q.turn /\ TutorRequest(v)
    BY <1>1, <2>1 DEF TutorRequest, TutorRequests, T!Idle
  <2>3. NowHas(r, v)
    BY <1>4, <2>1, <2>2 DEF NowHas, T!Goto
  <2>4. ASSUME NEW t \in Turns \ excused' PROVE OnceOnly(t)'
    <3>1. OnceOnly(t)
      BY <1>4 DEF TutorInv
    <3>2. CASE t # q.turn
      <4>1. ~IsMaker(v, t) /\ ~IsMaker(q, t)
        BY <2>2, <3>2 DEF IsMaker
      <4> QED
        BY <1>2, <2>3, <3>1, <4>1, OnceDropped
    <3>3. CASE t = q.turn
      <4>1. t \notin keys /\ ~T!SameTurnInFlight(r)
        BY <1>4, <3>3
      <4>2. Makers(t) = {}
        <5> SUFFICES ASSUME NEW p \in Makers(t) PROVE FALSE
          OBVIOUS
        <5>1. /\ p \in Requests /\ tutorReq[p].turn = t /\ tutorReq[p].kind = "interact"
              /\ tutorReq[p].pc \in {"model", "write", "store"}
          BY DEF Makers, IsMaker
        <5>2. p # r
          BY <1>1, <5>1
        <5> QED
          BY <3>3, <4>1, <5>1, <5>2 DEF T!SameTurnInFlight, T!InFlight
      <4>3. T!Occurrences(t) = {}
        BY <3>1, <4>1, <4>2 DEF OnceOnly
      <4>4. T!Occurrences(t)' = {} /\ Makers(t)' = {r}
        BY <1>2, <2>2, <2>3, <3>3, <4>2, <4>3, TurnsTyped DEF Makers, IsMaker, T!Occurrences
      <4> QED
        BY <4>4 DEF OnceOnly
    <3> QED
      BY <3>2, <3>3
  <2>5. excused \subseteq excused' /\ excused' \subseteq Turns /\ keys' \subseteq Turns
    BY <1>1, <1>2, <1>4 DEF TutorInv, TutorTyped
  <2> QED
    BY <1>2, <2>3, <2>4, <2>5, TutorMoves
<1> QED
  BY <1>3, <1>4 DEF T!LookUpKey

\* The end of a request, which has stored its key if it was about to.
LEMMA RespondStep ==
    ASSUME NEW r \in Requests, TutorInv, T!Respond(r),
           UNCHANGED <<session, made, ended, tutorOverlapped>>,
           keys \subseteq keys', keys' \subseteq Turns,
           excused \subseteq excused', excused' \subseteq Turns,
           tutorReq[r].pc = "store" => tutorReq[r].turn \in keys' \cup excused'
    PROVE  TutorInv'
<1>1. NowHas(r, T!Idle) /\ T!Idle.pc = "idle"
  BY DEF NowHas, T!Respond, TutorRequest, TutorRequests, T!Idle
<1>2. ASSUME NEW t \in Turns \ excused' PROVE OnceOnly(t)'
  <2>1. OnceOnly(t)
    BY DEF TutorInv
  <2>2. ~IsMaker(T!Idle, t)
    BY <1>1 DEF IsMaker
  <2>3. (IsMaker(tutorReq[r], t) /\ tutorReq[r].pc = "store") => t \in keys'
    BY DEF IsMaker
  <2> QED
    BY <1>1, <2>1, <2>2, <2>3, OnceDropped
<1> QED
  BY <1>1, <1>2, TutorMoves

\* No request moves and no turn is made.
LEMMA OnceStays ==
    ASSUME NEW t, OnceOnly(t), made' = made, tutorReq' = tutorReq, t \in keys => t \in keys'
    PROVE  OnceOnly(t)'
BY DEF OnceOnly, Makers, T!Occurrences

LEMMA TutorStep ==
    ASSUME TutorInv, T!Next
    PROVE  TutorInv'
<1>1. CASE T!CreateSession
  <2>1. /\ session' \in Stored /\ session'.turns = <<>> /\ made = <<>> /\ ~ended
        /\ UNCHANGED <<keys, tutorReq, made, ended, tutorOverlapped, excused>>
    BY <1>1, NoSessionIs DEF T!CreateSession
  <2>2. TutorTyped'
    BY <2>1 DEF TutorInv, TutorTyped
  <2>3. T!LastTurns(<<>>) = <<>>
    <3>1. Len(<<>>) = 0 /\ ~(0 > TurnsLimit)
      BY GenerativeAssumption
    <3> QED
      BY <3>1 DEF T!LastTurns
  <2>4. T!KeptUnlessOverlapped'
    BY <2>1, <2>3 DEF T!KeptUnlessOverlapped, T!EndedStaysEnded, T!LastTurnsKept, T!LastTurns
  <2>5. \A r \in Requests : TutorRequest(tutorReq[r])'
    BY <2>1 DEF TutorInv, TutorRequest
  <2> QED
    BY <2>1, <2>2, <2>4, <2>5, OnceStays DEF TutorInv
<1>2. CASE T!ExpireSession
  <2>1. /\ session' \in Stored /\ ~session'.exists
        /\ UNCHANGED <<keys, tutorReq, made, ended, tutorOverlapped, excused>>
    BY <1>2, NoSessionIs DEF T!ExpireSession
  <2>2. TutorTyped' /\ \A r \in Requests : TutorRequest(tutorReq[r])'
    BY <2>1 DEF TutorInv, TutorTyped, TutorRequest
  <2>3. T!KeptUnlessOverlapped'
    BY <2>1 DEF T!KeptUnlessOverlapped, T!EndedStaysEnded, T!LastTurnsKept
  <2> QED
    BY <2>1, <2>2, <2>3, OnceStays DEF TutorInv
<1>3. ASSUME NEW u \in Turns, T!ExpireKey(u) PROVE TutorInv'
  <2>1. /\ keys' = keys \ {u} /\ excused' = excused \cup {u}
        /\ UNCHANGED <<session, tutorReq, made, ended, tutorOverlapped>>
    BY <1>3 DEF T!ExpireKey
  <2>2. TutorTyped' /\ \A r \in Requests : TutorRequest(tutorReq[r])'
    BY <2>1 DEF TutorInv, TutorTyped, TutorRequest
  <2>3. T!KeptUnlessOverlapped'
    BY <2>1 DEF TutorInv, T!KeptUnlessOverlapped, T!EndedStaysEnded, T!LastTurnsKept, T!LastTurns
  <2> QED
    BY <2>1, <2>2, <2>3, OnceStays DEF TutorInv
<1> SUFFICES ASSUME NEW r \in Requests,
                    \/ T!Begin(r) \/ T!GetOrCreateTranscript(r) \/ T!RequireSession(r)
                    \/ T!LookUpKey(r) \/ T!BuildTutorResponse(r) \/ T!WriteSession(r)
                    \/ T!StoreKey(r) \/ T!Crash(r)
             PROVE  TutorInv'
  BY <1>1, <1>2, <1>3 DEF T!Next
<1> PICK q : q = tutorReq[r]
  OBVIOUS
<1>0. /\ TutorRequest(q) /\ TutorTyped /\ \A t \in Turns \ excused : OnceOnly(t)
  BY DEF TutorInv
<1>4. CASE T!Begin(r)
  <2>1. PICK kind \in T!Kinds : \E t \in T!TurnsOf(kind) :
          tutorReq' = [tutorReq EXCEPT ![r] =
            [pc |-> IF kind = "voice" THEN "transcript" ELSE "session",
             kind |-> kind, turn |-> t, read |-> T!NoSession]]
    BY <1>4 DEF T!Begin
  <2>2. PICK t \in T!TurnsOf(kind), pc \in {"transcript", "session"} :
          /\ pc = "transcript" <=> kind = "voice"
          /\ tutorReq' = [tutorReq EXCEPT ![r] =
               [pc |-> pc, kind |-> kind, turn |-> t, read |-> T!NoSession]]
    BY <2>1
  <2>3. t \in Turns \cup {"none"}
    BY DEF T!TurnsOf
  <2>4. PICK v : v = [pc |-> pc, kind |-> kind, turn |-> t, read |-> T!NoSession]
    OBVIOUS
  <2>5. TutorRequest(v)
    BY <2>2, <2>3, <2>4, NoSessionIs DEF TutorRequest, TutorRequests, T!Idle
  <2>6. NowHas(r, v)
    BY <2>2, <2>4, <2>5 DEF NowHas
  <2> QED
    BY <1>4, <2>4, <2>6, TutorStays DEF T!Begin, T!InFlight
<1>5. CASE T!GetOrCreateTranscript(r)
  <2>1. q.pc = "transcript" /\ UNCHANGED <<session, keys, made, ended, tutorOverlapped, excused>>
    BY <1>5 DEF T!GetOrCreateTranscript
  <2>2. CASE T!Respond(r)
    BY <1>0, <2>1, <2>2, RespondStep DEF TutorTyped
  <2>3. CASE tutorReq' = [tutorReq EXCEPT ![r].pc = "session", ![r].kind = "interact"]
    <3>1. PICK v : v = [q EXCEPT !.pc = "session", !.kind = "interact"]
      OBVIOUS
    <3>2. v.pc = "session" /\ v \in TutorRequests /\ v.kind = "interact" /\ v.turn = q.turn
      BY <1>0, <2>1, <3>1 DEF TutorRequest, TutorRequests, T!Kinds
    <3>3. TutorRequest(v)
      BY <1>0, <2>1, <3>2 DEF TutorRequest, T!Idle, T!TurnsOf
    <3>4. NowHas(r, v)
      BY <1>0, <2>3, <3>1, <3>3 DEF NowHas, TutorTyped
    <3> QED
      BY <2>1, <3>2, <3>4, TutorStays
  <2> QED
    BY <1>5, <2>2, <2>3 DEF T!GetOrCreateTranscript
<1>6. CASE T!RequireSession(r)
  <2>1. q.pc = "session" /\ UNCHANGED <<session, keys, made, ended, tutorOverlapped, excused>>
    BY <1>6 DEF T!RequireSession
  <2>2. CASE T!Respond(r)
    BY <1>0, <2>1, <2>2, RespondStep DEF TutorTyped
  <2>3. CASE ~T!Respond(r)
    <3>1. PICK pc \in {"key", "write"} :
            /\ session.exists /\ ~T!Closed(q.kind)
            /\ pc = "key" <=> q.kind = "interact"
            /\ tutorReq' = [tutorReq EXCEPT ![r].pc = pc, ![r].read = session]
      BY <1>6, <2>3 DEF T!RequireSession
    <3>2. PICK v : v = [q EXCEPT !.pc = pc, !.read = session]
      OBVIOUS
    <3>3. /\ v.pc = pc /\ v.kind = q.kind /\ v.turn = q.turn /\ v.read = session
          /\ v \in TutorRequests
      BY <1>0, <2>1, <3>2 DEF TutorRequest, TutorRequests, TutorTyped
    <3>4. TutorRequest(v)
      BY <1>0, <2>1, <3>1, <3>3 DEF TutorRequest, T!Idle, T!Closed
    <3>5. NowHas(r, v)
      BY <1>0, <3>1, <3>2, <3>4 DEF NowHas, TutorTyped
    <3> QED
      BY <2>1, <3>1, <3>3, <3>5, TutorStays
  <2> QED
    BY <2>2, <2>3
<1>7. CASE T!BuildTutorResponse(r)
  <2>1. q.pc = "model" /\ UNCHANGED <<session, keys, made, ended, tutorOverlapped, excused>>
    BY <1>7 DEF T!BuildTutorResponse
  <2>2. CASE T!Respond(r)
    BY <1>0, <2>1, <2>2, RespondStep DEF TutorTyped
  <2>3. CASE T!Goto(r, "write")
    <3>1. PICK v : v = [q EXCEPT !.pc = "write"]
      OBVIOUS
    <3>2. /\ v.pc = "write" /\ v.kind = q.kind /\ v.turn = q.turn /\ v.read = q.read
          /\ v \in TutorRequests
      BY <1>0, <2>1, <3>1 DEF TutorRequest, TutorRequests
    <3>3. TutorRequest(v)
      BY <1>0, <2>1, <3>2 DEF TutorRequest, T!Idle
    <3>4. NowHas(r, v)
      BY <1>0, <2>3, <3>1, <3>3 DEF NowHas, T!Goto, TutorTyped
    <3>5. ASSUME NEW t \in Turns \ excused PROVE OnceOnly(t)'
      <4>1. CASE t = q.turn
        BY <1>0, <2>1, <3>2, <3>4, <4>1, OnceAdvanced DEF IsMaker, TutorRequest
      <4>2. CASE t # q.turn
        BY <1>0, <2>1, <3>2, <3>4, <4>2, OnceDropped DEF IsMaker
      <4> QED
        BY <4>1, <4>2
    <3> QED
      BY <1>0, <2>1, <3>4, <3>5, TutorMoves DEF TutorTyped
  <2> QED
    BY <1>7, <2>2, <2>3 DEF T!BuildTutorResponse
<1>8. CASE T!StoreKey(r)
  <2>1. q.turn \in Turns
    BY <1>0, <1>8 DEF T!StoreKey, TutorRequest, TutorRequests, T!TurnsOf
  <2> QED
    BY <1>0, <1>8, <2>1, RespondStep DEF T!StoreKey, T!KeysWith, TutorTyped
<1>9. CASE T!Crash(r)
  <2>1. q.pc = "store" => q.turn \in Turns
    BY <1>0 DEF TutorRequest, TutorRequests, T!TurnsOf
  <2> QED
    BY <1>0, <1>9, <2>1, RespondStep DEF T!Crash, TutorTyped
<1> QED
  BY <1>4, <1>5, <1>6, <1>7, <1>8, <1>9, LookUpStep, WriteStep

-----------------------------------------------------------------------------
(***************************************************************************)
(* The lesson of the listening service.  Until its job is done a lesson is *)
(* neither ready nor failed, so that who has seen it so knows that nobody  *)
(* but editors will write to it (Settled); a title such an editor has seen *)
(* to be edited still is.  A lesson has a transcript once it is ready, and *)
(* before that nothing (Stocked), so that an editor who has seen none of   *)
(* it can neither add a row nor take one away.                             *)
(***************************************************************************)

Stocked(l) ==
    /\ l.status = "READY" => l.rows["segments"] # {} /\ l.rows["quizzes"] # {}
    /\ l.status # "READY" => \A c \in S!Children : l.rows[c] = {}

Settled(e) == e.pc # "idle" /\ e.seen.status # "PROCESSING"

EditorKnows(e) ==
    /\ e.pc # "idle" =>
         /\ e.seen.exists /\ e.seen.status # "none" /\ Stocked(e.seen)
         /\ (e.seen.status = "READY" /\ lesson.exists) => lesson.status = "READY"
    /\ Settled(e) =>
         /\ job.pc = "done"
         /\ (lesson.exists /\ e.seen.title = "edited") => lesson.title = "edited"

Jobs == [pc : {"none", "queued", "generated", "failed", "done"}, seen : S!LessonType]
Edits == [pc : {"idle", "loaded", "changed"},
          kind : S!Lists \cup {"none", "title", "deletion"}, seen : S!LessonType]

LessonInv ==
    /\ S!TypeOK
    /\ lesson.exists => lesson.status # "none"
    /\ job.pc = "none" => lesson = S!NoLesson
    /\ lesson.status \in {"READY", "FAILED"} => job.pc = "done"
    /\ renamed => job.pc = "done"
    /\ lost => job.pc = "done"
    /\ Stocked(lesson)
    /\ \A e \in Requests : EditorKnows(editor[e])
    /\ S!LessonIsWhole

LEMMA SCardinality == \A A : S!Cardinality(A) = Cardinality(A)
BY DEF S!Cardinality, Cardinality

LEMMA NoLessonIs ==
    /\ S!NoLesson \in S!LessonType /\ ~S!NoLesson.exists
    /\ S!NoLesson.status = "none" /\ S!NoLesson.title = "none"
    /\ \A c \in S!Children : S!NoLesson.rows[c] = {}
<1>1. PICK none : none = [c \in S!Children |-> {}]
  OBVIOUS
<1>2. none \in [S!Children -> SUBSET (1..MaxGenerations)] /\ \A c \in S!Children : none[c] = {}
  BY <1>1
<1>3. S!NoLesson = [exists |-> FALSE, status |-> "none", title |-> "none", rows |-> none]
  BY <1>1 DEF S!NoLesson
<1> QED
  BY <1>2, <1>3 DEF S!LessonType

LEMMA FirstLessonIs ==
    ASSUME NEW l, l = [S!NoLesson EXCEPT !.exists = TRUE, !.status = "PROCESSING",
                                         !.title = "placeholder"]
    PROVE  /\ l \in S!LessonType /\ l.exists /\ l.status = "PROCESSING"
           /\ l.title = "placeholder" /\ l.rows = S!NoLesson.rows
BY NoLessonIs DEF S!LessonType

LEMMA LessonInit == ASSUME S!Init PROVE LessonInv
<1>1. S!TypeOK
  <2>1. generation \in 0..MaxGenerations
    BY GenerativeAssumption DEF S!Init
  <2>2. [pc |-> "none", seen |-> S!NoLesson] \in
          [pc : {"none", "queued", "generated", "failed", "done"}, seen : S!LessonType]
    BY NoLessonIs
  <2>3. S!Idle \in [pc : {"idle", "loaded", "changed"},
                   kind : S!Lists \cup {"none", "title", "deletion"}, seen : S!LessonType]
    BY NoLessonIs DEF S!Idle
  <2> QED
    BY <2>1, <2>2, <2>3, NoLessonIs DEF S!Init, S!TypeOK
<1>2. S!OfOneGeneration
  <2>1. Cardinality({}) = 0
    BY FS_EmptySet
  <2>2. ASSUME NEW c \in S!Children PROVE ~(S!Cardinality(lesson.rows[c]) > 1)
    <3>1. lesson.rows[c] = {}
      BY NoLessonIs DEF S!Init
    <3>2. S!Cardinality(lesson.rows[c]) = 0
      BY <2>1, <3>1, SCardinality
    <3> QED
      BY <3>2
  <2> QED
    BY <2>2 DEF S!OfOneGeneration
<1>3. S!StatusIsTrue
  BY NoLessonIs DEF S!Init, S!StatusIsTrue
<1> QED
  BY <1>1, <1>2, <1>3, NoLessonIs
     DEF S!Init, LessonInv, EditorKnows, Settled, Stocked, S!Idle, S!LessonIsWhole

\* A list that is replaced holds the new generation, if there is one, and
\* nothing else unless it was not what the session had loaded.
LEMMA ReplacedIs ==
    ASSUME NEW c \in S!Children, NEW seen, NEW new \in {{}, {generation + 1}},
           LessonInv, generation < MaxGenerations
    PROVE  /\ S!Replaced(c, seen, new) \in SUBSET (1..MaxGenerations)
           /\ S!Replaced(c, seen, new) = {} => new = {}
           /\ lesson.rows[c] = seen.rows[c] => ~(Cardinality(S!Replaced(c, seen, new)) > 1)
<1>1. generation + 1 \in 1..MaxGenerations /\ lesson.rows[c] \in SUBSET (1..MaxGenerations)
  <2>1. generation \in 0..MaxGenerations /\ lesson \in S!LessonType
    BY DEF LessonInv, S!TypeOK
  <2>2. generation + 1 \in 1..MaxGenerations
    BY <2>1, GenerativeAssumption
  <2>3. lesson.rows[c] \in SUBSET (1..MaxGenerations)
    BY <2>1 DEF S!LessonType
  <2> QED
    BY <2>2, <2>3
<1>2. S!Replaced(c, seen, new) = (lesson.rows[c] \ seen.rows[c]) \cup new
  BY DEF S!Replaced
<1>3. ASSUME lesson.rows[c] = seen.rows[c]
      PROVE  ~(Cardinality(S!Replaced(c, seen, new)) > 1)
  <2>1. S!Replaced(c, seen, new) = new
    BY <1>2, <1>3
  <2>2. Cardinality(new) = 0 \/ Cardinality(new) = 1
    BY FS_Singleton, FS_EmptySet
  <2> QED
    BY <2>1, <2>2
<1> QED
  BY <1>1, <1>2, <1>3

LEMMA LessonStep ==
    ASSUME LessonInv, S!Next
    PROVE  LessonInv'
<1>0. /\ lesson \in S!LessonType /\ job \in Jobs /\ editor \in [Requests -> Edits]
      /\ generation \in 0..MaxGenerations /\ listOverlapped \subseteq S!Children
      /\ lost \in BOOLEAN /\ renamed \in BOOLEAN /\ wordless \in BOOLEAN
      /\ \A e \in Requests : EditorKnows(editor[e])
      /\ S!OfOneGeneration /\ S!StatusIsTrue
  BY DEF LessonInv, S!TypeOK, S!LessonIsWhole, Jobs, Edits
<1>00. S!Idle \in Edits /\ S!Idle.pc = "idle"
  BY NoLessonIs DEF S!Idle, Edits
\* Steps that leave the lesson alone.
<1>1. ASSUME UNCHANGED <<lesson, generation, listOverlapped, renamed, wordless>>,
             job' \in Jobs, editor' \in [Requests -> Edits],
             lost' \in BOOLEAN, lost' => job'.pc = "done",
             job'.pc = "none" => job.pc = "none",
             job.pc = "done" => job'.pc = "done",
             lesson.exists => (lesson.status = "PROCESSING" <=>
               lost' \/ job'.pc \in {"queued", "generated", "failed"}),
             \A e \in Requests : EditorKnows(editor[e])'
      PROVE  LessonInv'
  <2>1. S!TypeOK'
    BY <1>0, <1>1 DEF S!TypeOK, Jobs, Edits
  <2>2. S!OfOneGeneration' /\ S!StatusIsTrue'
    BY <1>0, <1>1 DEF S!OfOneGeneration, S!StatusIsTrue, S!Cardinality
  <2> QED
    BY <1>1, <2>1, <2>2 DEF LessonInv, S!LessonIsWhole, Stocked
\* Steps that change its status or title, but no list.
<1>2. ASSUME NEW l, lesson' = l, l \in S!LessonType,
             l.rows = lesson.rows, l.exists, lesson.exists,
             UNCHANGED <<generation, listOverlapped, lost, wordless>>, Stocked(l),
             job' \in Jobs, editor' \in [Requests -> Edits], renamed' \in BOOLEAN,
             l.status # "none", job'.pc # "none",
             \/ l.status = lesson.status /\ job' = job
             \/ l.status = "FAILED" /\ job'.pc = "done" /\ ~lost,
             renamed' => job'.pc = "done" /\ l.title = "edited",
             \A e \in Requests : EditorKnows(editor[e])'
      PROVE  LessonInv'
  <2>1. S!TypeOK'
    BY <1>0, <1>2 DEF S!TypeOK, Jobs, Edits
  <2>2. S!OfOneGeneration'
    BY <1>0, <1>2 DEF S!OfOneGeneration, S!Cardinality
  <2>3. S!StatusIsTrue'
    BY <1>0, <1>2 DEF S!StatusIsTrue, LessonInv
  <2>4. Stocked(lesson)'
    BY <1>2
  <2> QED
    BY <1>2, <2>1, <2>2, <2>3, <2>4 DEF LessonInv, S!LessonIsWhole
<1>3. CASE S!ProcessVideo
  <2>1. PICK l : l = [S!NoLesson EXCEPT !.exists = TRUE, !.status = "PROCESSING",
                                        !.title = "placeholder"]
    OBVIOUS
  <2>2. /\ l \in S!LessonType /\ l.exists /\ l.status = "PROCESSING"
        /\ l.title = "placeholder" /\ l.rows = S!NoLesson.rows
    BY <2>1, FirstLessonIs
  <2>3. /\ lesson' = l /\ lesson = S!NoLesson /\ job.pc = "none" /\ ~renamed /\ ~lost
        /\ UNCHANGED <<editor, generation, listOverlapped, lost, renamed, wordless>>
    BY <1>3, <2>1 DEF S!ProcessVideo, LessonInv
  <2>4. job' \in Jobs /\ job'.pc = "queued"
    BY <1>0, <1>3 DEF S!ProcessVideo, Jobs
  <2>5. S!TypeOK'
    BY <1>0, <2>2, <2>3, <2>4 DEF S!TypeOK, Jobs, Edits
  <2>6. S!OfOneGeneration'
    BY <1>0, <2>2, <2>3 DEF S!OfOneGeneration, S!Cardinality
  <2>7. S!StatusIsTrue'
    BY <2>2, <2>3, <2>4 DEF S!StatusIsTrue
  <2>8. \A e \in Requests : editor[e].pc # "idle" => ~(editor[e].seen.status = "READY")
    BY <1>0, <2>3 DEF EditorKnows, Settled
  <2>9. \A e \in Requests : EditorKnows(editor[e])'
    BY <1>0, <2>2, <2>3, <2>4, <2>8 DEF EditorKnows, Settled
  <2>10. Stocked(lesson)'
    BY <2>2, <2>3, NoLessonIs DEF Stocked
  <2> QED
    BY <2>2, <2>3, <2>4, <2>5, <2>6, <2>7, <2>9, <2>10 DEF LessonInv, S!LessonIsWhole
<1>4. CASE S!JobGenerate
  <2>1. PICK pc \in {"generated", "failed", "done"} :
          /\ job' = [pc |-> pc, seen |-> lesson] /\ job.pc = "queued"
          /\ lesson.exists => pc \in {"generated", "failed"}
    BY <1>4 DEF S!JobGenerate
  <2>2. UNCHANGED <<lesson, editor, generation, listOverlapped, lost, renamed, wordless>>
    BY <1>4 DEF S!JobGenerate
  <2>3. job' \in Jobs /\ job'.pc = pc
    BY <1>0, <2>1 DEF Jobs
  <2>4. ~lost /\ (lesson.exists => lesson.status = "PROCESSING")
    BY <1>0, <2>1 DEF LessonInv, S!StatusIsTrue
  <2>5. \A e \in Requests : EditorKnows(editor[e])'
    BY <1>0, <2>1, <2>2, <2>3 DEF EditorKnows
  <2> QED
    BY <1>0, <1>1, <2>1, <2>2, <2>3, <2>4, <2>5
<1>5. CASE S!JobBreaks
  <2>1. /\ job' \in Jobs /\ job'.pc = "done" /\ lost' = TRUE
        /\ UNCHANGED <<lesson, editor, generation, listOverlapped, renamed, wordless>>
        /\ lesson.exists => lesson.status = "PROCESSING"
    BY <1>0, <1>5 DEF S!JobBreaks, Jobs, S!StatusIsTrue
  <2>2. \A e \in Requests : EditorKnows(editor[e])'
    BY <1>0, <2>1 DEF EditorKnows
  <2> QED
    BY <1>0, <1>1, <2>1, <2>2
<1>6. CASE S!Restart
  <2>1. /\ job' \in Jobs /\ job'.pc = "done" /\ lost' = TRUE
        /\ editor' = [e \in Requests |-> S!Idle]
        /\ UNCHANGED <<lesson, generation, listOverlapped, renamed, wordless>>
        /\ lesson.exists => lesson.status = "PROCESSING"
    BY <1>0, <1>6 DEF S!Restart, Jobs, S!StatusIsTrue
  <2>2. editor' \in [Requests -> Edits] /\ \A e \in Requests : EditorKnows(editor[e])'
    BY <1>00, <2>1 DEF EditorKnows, Settled
  <2> QED
    BY <1>0, <1>1, <2>1, <2>2
<1>7. CASE S!MarkLessonFailed
  <2>1. PICK l : l = [lesson EXCEPT !.status = "FAILED"]
    OBVIOUS
  <2>2. /\ l \in S!LessonType /\ l.status = "FAILED" /\ l.rows = lesson.rows
        /\ l.exists = lesson.exists /\ l.title = lesson.title
    BY <1>0, <2>1 DEF S!LessonType
  <2>3. /\ lesson' = l /\ job.pc = "failed" /\ lesson.exists /\ ~renamed /\ ~lost
        /\ UNCHANGED <<editor, generation, listOverlapped, lost, renamed, wordless>>
    BY <1>7, <2>1 DEF S!MarkLessonFailed, LessonInv
  <2>4. job' \in Jobs /\ job'.pc = "done"
    BY <1>0, <1>7 DEF S!MarkLessonFailed, Jobs
  <2>5. lesson.status = "PROCESSING" /\ Stocked(l)
    BY <1>0, <2>2, <2>3 DEF LessonInv, Stocked, S!StatusIsTrue
  <2>6. \A e \in Requests : EditorKnows(editor[e])'
    BY <1>0, <2>3, <2>4, <2>5 DEF EditorKnows
  <2> QED
    BY <1>0, <1>2, <2>2, <2>3, <2>4, <2>5, <2>6
<1>8. CASE S!PopulateLessonContent
  <2>0. PICK title \in {"placeholder", "generated"},
             words \in S!Generated("vocabularies", {generation + 1}) :
          /\ lesson' = [lesson EXCEPT !.status = "READY",
               !.title = S!Titled(title, job.seen),
               !.rows = [c \in S!Children |->
                   S!Replaced(c, job.seen,
                              IF c = "vocabularies" THEN words ELSE {generation + 1})]]
          /\ wordless' = (words = {})
    BY <1>8, Zenon DEF S!PopulateLessonContent
  <2>1. PICK name, rows, l :
          /\ name = S!Titled(title, job.seen)
          /\ rows = [c \in S!Children |->
                      S!Replaced(c, job.seen,
                                 IF c = "vocabularies" THEN words ELSE {generation + 1})]
          /\ l = [lesson EXCEPT !.status = "READY", !.title = name, !.rows = rows]
          /\ lesson' = l
    BY <2>0
  <2>2. /\ job.pc = "generated" /\ lesson.exists /\ generation < MaxGenerations
        /\ generation' = generation + 1 /\ ~renamed /\ ~lost
        /\ listOverlapped' = listOverlapped
             \cup {c \in S!Children : lesson.rows[c] # job.seen.rows[c]}
        /\ UNCHANGED <<editor, lost, renamed>>
    BY <1>8 DEF S!PopulateLessonContent, S!Overlap, LessonInv
  <2>12. words \in {{}, {generation + 1}}
    BY <2>0 DEF S!Generated
  <2>3. name \in {"none", "placeholder", "generated", "edited"}
    BY <1>0, <2>0, <2>1 DEF S!Titled, S!LessonType
  <2>4. /\ rows \in [S!Children -> SUBSET (1..MaxGenerations)]
        /\ \A c \in S!Children \ {"vocabularies"} : rows[c] # {}
        /\ rows["vocabularies"] = {} => words = {}
        /\ \A c \in S!Children : Cardinality(rows[c]) > 1 => c \in listOverlapped'
    <3>1. \A c \in S!Children :
            /\ rows[c] \in SUBSET (1..MaxGenerations)
            /\ rows[c] = {} => c = "vocabularies" /\ words = {}
            /\ lesson.rows[c] = job.seen.rows[c] => ~(Cardinality(rows[c]) > 1)
      <4> SUFFICES ASSUME NEW c \in S!Children
                   PROVE  /\ rows[c] \in SUBSET (1..MaxGenerations)
                          /\ rows[c] = {} => c = "vocabularies" /\ words = {}
                          /\ lesson.rows[c] = job.seen.rows[c] => ~(Cardinality(rows[c]) > 1)
        OBVIOUS
      <4>1. PICK new : new = IF c = "vocabularies" THEN words ELSE {generation + 1}
        OBVIOUS
      <4>2. rows[c] = S!Replaced(c, job.seen, new) /\ new \in {{}, {generation + 1}}
        BY <2>1, <2>12, <4>1
      <4>3. new = {} => c = "vocabularies" /\ words = {}
        BY <4>1
      <4>4. PICK left : left = S!Replaced(c, job.seen, new)
        OBVIOUS
      <4>5. /\ left \in SUBSET (1..MaxGenerations)
            /\ left = {} => new = {}
            /\ lesson.rows[c] = job.seen.rows[c] => ~(Cardinality(left) > 1)
        BY <2>2, <4>2, <4>4, ReplacedIs
      <4>6. rows[c] = left
        BY <4>2, <4>4
      <4> QED
        BY <4>3, <4>5, <4>6
    <3>2. rows = [c \in S!Children |-> rows[c]]
      BY <2>1
    <3>3. rows \in [S!Children -> SUBSET (1..MaxGenerations)]
      BY <3>1, <3>2
    <3>4. ASSUME NEW c \in S!Children, Cardinality(rows[c]) > 1 PROVE c \in listOverlapped'
      <4>1. SUFFICES ASSUME lesson.rows[c] = job.seen.rows[c] PROVE FALSE
        BY <2>2
      <4> QED
        BY <3>1, <3>4, <4>1
    <3>5. "vocabularies" \in S!Children
      BY DEF S!Children, S!Lists
    <3> QED
      BY <3>1, <3>3, <3>4, <3>5
  <2>5. l \in S!LessonType /\ l.status = "READY" /\ l.rows = rows /\ l.exists
    BY <1>0, <2>1, <2>2, <2>3, <2>4 DEF S!LessonType
  <2>6. job' \in Jobs /\ job'.pc = "done"
    BY <1>0, <1>8 DEF S!PopulateLessonContent, Jobs
  <2>7. generation' \in 0..MaxGenerations
    <3>1. generation < MaxGenerations /\ generation' = generation + 1
      BY <2>2
    <3>2. generation \in 0..MaxGenerations
      BY <1>0
    <3>3. MaxGenerations \in Nat
      BY GenerativeAssumption
    <3> QED
      BY <3>1, <3>2, <3>3
  <2>15. wordless' \in BOOLEAN
    BY <2>0
  <2>16. listOverlapped' \subseteq S!Children
    BY <1>0, <2>2
  <2>8. S!TypeOK'
    BY <1>0, <2>1, <2>2, <2>5, <2>6, <2>7, <2>15, <2>16 DEF S!TypeOK, Jobs, Edits
  <2>9. S!OfOneGeneration'
    BY <2>1, <2>4, <2>5, SCardinality DEF S!OfOneGeneration
  <2>13. {"segments", "quizzes"} \subseteq S!Children \ {"vocabularies"}
    BY DEF S!Children, S!Lists
  <2>17. rows["segments"] # {} /\ rows["quizzes"] # {} /\ (rows["vocabularies"] = {} => wordless')
    BY <2>0, <2>4, <2>13
  <2>10. S!StatusIsTrue'
    BY <2>1, <2>2, <2>5, <2>6, <2>17 DEF S!StatusIsTrue
  <2>11. \A e \in Requests : EditorKnows(editor[e])'
    BY <1>0, <2>1, <2>2, <2>5, <2>6 DEF EditorKnows, Settled
  <2>14. Stocked(lesson)'
    BY <2>1, <2>5, <2>17 DEF Stocked
  <2> QED
    BY <2>1, <2>2, <2>5, <2>6, <2>8, <2>9, <2>10, <2>11, <2>14 DEF LessonInv, S!LessonIsWhole
<1> SUFFICES ASSUME NEW e \in Requests,
                    \/ S!Load(e) \/ S!Regenerate(e) \/ S!EditorFails(e)
                    \/ S!ReplaceList(e) \/ S!UpdateLesson(e) \/ S!DeleteLesson(e)
             PROVE  LessonInv'
  BY <1>3, <1>4, <1>5, <1>6, <1>7, <1>8 DEF S!Next
<1> PICK q : q = editor[e]
  OBVIOUS
<1>9. q \in Edits /\ EditorKnows(q) /\ q.seen \in S!LessonType
  BY <1>0 DEF Edits
\* What an editor knows stays true while the job is what it was.
<1>10. ASSUME NEW v \in Edits, editor' = [editor EXCEPT ![e] = v], job' = job,
              v.pc # "idle" => EditorKnows(v)',
              (lesson'.exists /\ lesson.exists /\ lesson.title = "edited") =>
                lesson'.title = "edited",
              lesson'.exists => lesson.exists /\ lesson'.status = lesson.status
       PROVE  editor' \in [Requests -> Edits] /\ \A d \in Requests : EditorKnows(editor[d])'
  <2>1. editor' \in [Requests -> Edits] /\ editor'[e] = v
    BY <1>0, <1>10
  <2>2. ASSUME NEW d \in Requests PROVE EditorKnows(editor[d])'
    <3>1. CASE d = e
      BY <1>10, <2>1, <3>1 DEF EditorKnows, Settled
    <3>2. CASE d # e
      <4>1. editor'[d] = editor[d] /\ EditorKnows(editor[d])
        BY <1>0, <1>10, <3>2
      <4> QED
        BY <1>10, <4>1 DEF EditorKnows, Settled
    <3> QED
      BY <3>1, <3>2
  <2> QED
    BY <2>1, <2>2
\* A step of an editor that leaves the lesson alone.
<1>11. ASSUME NEW v \in Edits, editor' = [editor EXCEPT ![e] = v],
              v.pc # "idle" => EditorKnows(v),
              UNCHANGED <<lesson, job, generation, listOverlapped, lost, renamed, wordless>>
       PROVE  LessonInv'
  <2>1. EditorKnows(v)' <=> EditorKnows(v)
    BY <1>11 DEF EditorKnows, Settled
  <2>2. editor' \in [Requests -> Edits] /\ \A d \in Requests : EditorKnows(editor[d])'
    BY <1>10, <1>11, <2>1
  <2>3. /\ lost => job.pc = "done"
        /\ lesson.exists => (lesson.status = "PROCESSING" <=>
             lost \/ job.pc \in {"queued", "generated", "failed"})
    BY <1>0 DEF S!StatusIsTrue, LessonInv
  <2> QED
    BY <1>0, <1>1, <1>11, <2>2, <2>3
<1>12. CASE S!Load(e)
  <2>1. PICK kind, pc, v :
          /\ kind \in S!Lists \cup {"title", "deletion"}
          /\ pc \in {"loaded", "changed"}
          /\ v = [pc |-> pc, kind |-> kind, seen |-> lesson]
          /\ editor' = [editor EXCEPT ![e] = v]
    <3>1. PICK kind \in S!Lists \cup {"title", "deletion"} :
            editor' = [editor EXCEPT ![e] =
              [pc |-> IF kind \in S!Lists THEN "loaded" ELSE "changed",
               kind |-> kind, seen |-> lesson]]
      BY <1>12 DEF S!Load
    <3>2. PICK pc \in {"loaded", "changed"} :
            pc = IF kind \in S!Lists THEN "loaded" ELSE "changed"
      OBVIOUS
    <3> QED
      BY <3>1, <3>2
  <2>2. v \in Edits /\ v.pc # "idle" /\ v.seen = lesson
    BY <1>0, <2>1 DEF Edits
  <2>3. /\ lesson.exists
        /\ UNCHANGED <<lesson, job, generation, listOverlapped, lost, renamed, wordless>>
    BY <1>12 DEF S!Load
  <2>4. lesson.status \in {"READY", "FAILED", "PROCESSING"}
    BY <1>0, <2>3 DEF LessonInv, S!LessonType
  <2>5. EditorKnows(v)
    BY <2>2, <2>3, <2>4 DEF EditorKnows, Settled, LessonInv
  <2> QED
    BY <1>11, <2>1, <2>2, <2>3, <2>5
<1>13. CASE S!Regenerate(e) \/ S!EditorFails(e)
  <2>1. UNCHANGED <<lesson, job, generation, listOverlapped, lost, renamed, wordless>> /\ q.pc # "idle"
    BY <1>13 DEF S!Regenerate, S!EditorFails
  <2>2. CASE editor' = [editor EXCEPT ![e] = S!Idle]
    BY <1>00, <1>11, <2>1, <2>2
  <2>3. CASE editor' = [editor EXCEPT ![e] = [editor[e] EXCEPT !.pc = "changed"]]
    <3>1. PICK v : v = [q EXCEPT !.pc = "changed"]
      OBVIOUS
    <3>2. v \in Edits /\ v.pc = "changed" /\ v.seen = q.seen
      BY <1>9, <3>1 DEF Edits
    <3>3. EditorKnows(v)
      BY <1>9, <2>1, <3>2 DEF EditorKnows, Settled
    <3> QED
      BY <1>11, <2>1, <2>3, <3>1, <3>2, <3>3
  <2> QED
    BY <1>13, <2>2, <2>3 DEF S!Regenerate, S!EditorFails
<1>14. CASE S!ReplaceList(e)
  <2>0. PICK new \in S!Generated(q.kind, q.seen.rows["segments"]) :
          /\ lesson' = [lesson EXCEPT !.rows[q.kind] = S!Replaced(q.kind, q.seen, new)]
          /\ wordless' = IF q.kind = "vocabularies" /\ q.seen.rows["segments"] # {}
                          THEN new = {} ELSE wordless
    BY <1>14, Zenon DEF S!ReplaceList
  <2>1. PICK list, rows, l : /\ list = S!Replaced(q.kind, q.seen, new)
                            /\ rows = [lesson.rows EXCEPT ![q.kind] = list]
                            /\ l = [lesson EXCEPT !.rows = rows]
    OBVIOUS
  <2>2. /\ q.kind \in S!Lists /\ q.kind \in S!Children /\ q.pc # "idle"
        /\ lesson.exists /\ generation < MaxGenerations
        /\ generation' = generation + 1
        /\ listOverlapped' = listOverlapped
             \cup {c \in {q.kind} : lesson.rows[c] # q.seen.rows[c]}
        /\ editor' = [editor EXCEPT ![e] = S!Idle]
        /\ UNCHANGED <<job, lost, renamed>>
    BY <1>14 DEF S!ReplaceList, S!Writes, S!Overlap, S!Children
  <2>3. lesson' = l
    BY <1>0, <2>0, <2>1 DEF S!LessonType
  <2>12. /\ new \in {{}, {generation + 1}}
         /\ (q.seen.rows["segments"] # {} /\ q.kind = "quizzes") => new # {}
         /\ q.seen.rows["segments"] = {} => new = {}
    BY <2>0 DEF S!Generated
  <2>13. /\ list \in SUBSET (1..MaxGenerations)
         /\ list = {} => new = {}
         /\ lesson.rows[q.kind] = q.seen.rows[q.kind] => ~(Cardinality(list) > 1)
    BY <2>1, <2>2, <2>12, ReplacedIs
  <2>14. lesson.rows \in [S!Children -> SUBSET (1..MaxGenerations)]
    BY <1>0 DEF S!LessonType
  <2>4. /\ rows \in [S!Children -> SUBSET (1..MaxGenerations)]
        /\ rows[q.kind] = list
        /\ \A c \in S!Children \ {q.kind} : rows[c] = lesson.rows[c]
    <3>1. rows = [lesson.rows EXCEPT ![q.kind] = list] /\ q.kind \in S!Children
      BY <2>1, <2>2
    <3>2. list \in SUBSET (1..MaxGenerations)
      BY <2>13
    <3> QED
      BY <3>1, <3>2, <2>14
  <2>15. ASSUME NEW c \in S!Children, Cardinality(rows[c]) > 1
         PROVE  c \in listOverlapped'
    <3>1. CASE c = q.kind
      BY <2>2, <2>4, <2>13, <2>15, <3>1
    <3>2. CASE c # q.kind
      BY <1>0, <2>2, <2>4, <2>15, <3>2, SCardinality DEF S!OfOneGeneration
    <3> QED
      BY <3>1, <3>2
  \* An editor who has seen no transcript changes nothing.
  <2>16. q.seen.rows["segments"] = {} => list = lesson.rows[q.kind]
    <3>1. SUFFICES ASSUME q.seen.rows["segments"] = {} PROVE list = lesson.rows[q.kind]
      OBVIOUS
    <3>2. Stocked(q.seen)
      BY <1>9, <2>2 DEF EditorKnows
    <3>3. q.seen.rows[q.kind] = {}
      BY <2>2, <3>1, <3>2 DEF Stocked
    <3> QED
      BY <2>1, <2>12, <3>1, <3>3 DEF S!Replaced
  <2>17. q.seen.rows["segments"] # {} => lesson.status = "READY"
    <3>1. Stocked(q.seen) /\ (q.seen.status = "READY" => lesson.status = "READY")
      BY <1>9, <2>2 DEF EditorKnows
    <3> QED
      BY <3>1 DEF Stocked, S!Children
  <2>18. "segments" \in S!Children /\ "quizzes" \in S!Children /\ "vocabularies" \in S!Children
         /\ q.kind # "segments"
    BY <2>2 DEF S!Children, S!Lists
  <2>5. /\ l \in S!LessonType /\ l.rows = rows /\ l.exists
        /\ l.status = lesson.status /\ l.title = lesson.title
    BY <1>0, <2>1, <2>2, <2>4 DEF S!LessonType
  <2>6. editor' \in [Requests -> Edits] /\ \A d \in Requests : EditorKnows(editor[d])'
    BY <1>00, <1>10, <2>2, <2>3, <2>5
  <2>7. S!TypeOK'
    <3>1. generation' \in 0..MaxGenerations /\ listOverlapped' \subseteq S!Children
      BY <1>0, <2>2, GenerativeAssumption
    <3>2. wordless' \in BOOLEAN
      BY <1>0, <2>0
    <3> QED
      BY <1>0, <2>2, <2>3, <2>5, <2>6, <3>1, <3>2 DEF S!TypeOK, Jobs, Edits
  <2>8. S!OfOneGeneration'
    BY <2>3, <2>15, <2>5, SCardinality DEF S!OfOneGeneration
  <2>9. Stocked(l)
    <3>1. Stocked(lesson)
      BY DEF LessonInv
    <3>2. CASE q.seen.rows["segments"] = {}
      <4>1. \A c \in S!Children : rows[c] = lesson.rows[c]
        BY <2>4, <2>16, <3>2
      <4> QED
        BY <2>5, <2>18, <3>1, <4>1 DEF Stocked
    <3>3. CASE q.seen.rows["segments"] # {}
      <4>1. rows["segments"] = lesson.rows["segments"]
        BY <2>4, <2>18
      <4>2. lesson.rows["quizzes"] # {} => rows["quizzes"] # {}
        BY <2>4, <2>12, <2>13, <2>18, <3>3
      <4> QED
        BY <2>5, <2>17, <3>1, <3>3, <4>1, <4>2 DEF Stocked
    <3> QED
      BY <3>2, <3>3
  <2>10. l.status = "READY" => (rows["vocabularies"] = {} => wordless')
    <3>1. lesson.status = "READY" => (lesson.rows["vocabularies"] = {} => wordless)
      BY <1>0 DEF S!StatusIsTrue
    <3>2. CASE q.kind = "vocabularies" /\ q.seen.rows["segments"] # {}
      BY <2>0, <2>4, <2>13, <3>2
    <3>3. CASE ~(q.kind = "vocabularies" /\ q.seen.rows["segments"] # {})
      <4>1. wordless' = wordless /\ rows["vocabularies"] = lesson.rows["vocabularies"]
        BY <2>0, <2>4, <2>16, <2>18, <3>3
      <4> QED
        BY <2>5, <3>1, <4>1
    <3> QED
      BY <3>2, <3>3
  <2>11. S!StatusIsTrue'
    BY <1>0, <2>2, <2>3, <2>5, <2>9, <2>10 DEF S!StatusIsTrue, Stocked
  <2> QED
    BY <2>2, <2>3, <2>5, <2>6, <2>7, <2>8, <2>9, <2>11, NoLessonIs
       DEF LessonInv, S!LessonIsWhole
<1>15. CASE S!UpdateLesson(e)
  <2>1. PICK title, l : /\ title = IF q.seen.title = "edited" THEN lesson.title ELSE "edited"
                       /\ l = [lesson EXCEPT !.title = title]
    OBVIOUS
  <2>2. /\ lesson.exists /\ q.pc = "changed" /\ lesson' = l
        /\ renamed' = (renamed \/ q.seen.status # "PROCESSING")
        /\ editor' = [editor EXCEPT ![e] = S!Idle]
        /\ UNCHANGED <<job, generation, listOverlapped, lost, wordless>>
    BY <1>15, <2>1 DEF S!UpdateLesson, S!Writes, S!Titled
  <2>3. title \in {"none", "placeholder", "generated", "edited"}
    BY <1>0, <2>1 DEF S!LessonType
  <2>4. /\ l \in S!LessonType /\ l.title = title /\ l.exists
        /\ l.status = lesson.status /\ l.rows = lesson.rows
    BY <1>0, <2>1, <2>2, <2>3 DEF S!LessonType
  <2>5. editor' \in [Requests -> Edits] /\ \A d \in Requests : EditorKnows(editor[d])'
    BY <1>00, <1>10, <2>1, <2>2, <2>4
  <2>6. renamed' => job.pc = "done" /\ title = "edited"
    <3>1. CASE q.seen.status # "PROCESSING"
      BY <1>9, <2>1, <2>2, <3>1 DEF EditorKnows, Settled
    <3>2. CASE q.seen.status = "PROCESSING"
      BY <1>0, <2>1, <2>2, <3>2 DEF LessonInv, S!StatusIsTrue
    <3> QED
      BY <3>1, <3>2
  <2>7. /\ job.pc # "none" /\ lesson.status # "none" /\ renamed' \in BOOLEAN
        /\ Stocked(l)
    BY <1>0, <2>2, <2>4, NoLessonIs DEF LessonInv, Stocked
  <2> QED
    BY <1>0, <1>2, <2>2, <2>4, <2>5, <2>6, <2>7
<1>16. CASE S!DeleteLesson(e)
  <2>1. /\ lesson' = S!NoLesson /\ editor' = [editor EXCEPT ![e] = S!Idle]
        /\ UNCHANGED <<job, generation, listOverlapped, lost, renamed, wordless>>
    BY <1>16 DEF S!DeleteLesson, S!Writes
  <2>2. editor' \in [Requests -> Edits] /\ \A d \in Requests : EditorKnows(editor[d])'
    BY <1>00, <1>10, <2>1, NoLessonIs
  <2>3. S!TypeOK'
    BY <1>0, <2>1, <2>2, NoLessonIs DEF S!TypeOK, Jobs, Edits
  <2>4. S!OfOneGeneration'
    <3>1. \A c \in S!Children : S!Cardinality(S!NoLesson.rows[c]) = 0
      BY NoLessonIs, FS_EmptySet, SCardinality
    <3> QED
      BY <2>1, <3>1 DEF S!OfOneGeneration
  <2>5. S!StatusIsTrue'
    BY <2>1, NoLessonIs DEF S!StatusIsTrue
  <2> QED
    BY <2>1, <2>2, <2>3, <2>4, <2>5, NoLessonIs DEF LessonInv, S!LessonIsWhole, Stocked
<1> QED
  BY <1>12, <1>13, <1>14, <1>15, <1>16

(***************************************************************************)
(* The content of a lesson.  What the model answers is anything the code   *)
(* lets through; the words of the transcript, the positions of the         *)
(* checkpoints and the place of the right option are worked out here.      *)
(* That the chunks are the transcript needs induction on its segments: the *)
(* set of the numbers for which a claim holds is shown to be all of Nat.   *)
(***************************************************************************)

ContentInv ==
    /\ L!TypeOK
    /\ text \in Seq(MCTexts)
    /\ L!VocabularyIsFull
    /\ L!RightOptionMarked

LEMMA ShortTexts ==
    ASSUME NEW A, NEW s \in L!BoundedSeq(A, MaxSegments)
    PROVE  s \in Seq(A) /\ Len(s) <= MaxSegments
<1>1. PICK m \in 0..MaxSegments : s \in [1..m -> A]
  BY DEF L!BoundedSeq, L!SeqOf
<1> QED
  BY <1>1, GenerativeAssumption

\* A quotient grows with its dividend, by one at least if that does by the
\* divisor.
LEMMA QuotientGrows ==
    ASSUME NEW x \in Nat, NEW y \in Nat, NEW d \in Nat \ {0}, x <= y
    PROVE  /\ x \div d \in Nat /\ x \div d <= y \div d
           /\ x + d <= y => x \div d < y \div d
<1>1. PICK m \in Nat : m = x \div d /\ d * m <= x /\ x < d * m + d
  OBVIOUS
<1>2. PICK n \in Nat : n = y \div d /\ d * n <= y /\ y < d * n + d
  OBVIOUS
<1>3. ASSUME NEW a \in Nat, NEW b \in Nat, a < b PROVE d * a + d <= d * b
  <2>1. d * b = d * a + d * (b - a) /\ b - a >= 1
    BY <1>3
  <2> QED
    BY <1>3, <2>1
<1>4. m <= n
  BY <1>1, <1>2, <1>3
<1>5. ASSUME x + d <= y PROVE m < n
  <2>1. m # n
    BY <1>1, <1>2, <1>5
  <2> QED
    BY <1>4, <2>1
<1> QED
  BY <1>1, <1>2, <1>4, <1>5

\* The checkpoints of a transcript longer than the quiz lie within it, in
\* order, and apart if there are segments enough.
LEMMA CheckpointIs ==
    ASSUME NEW n \in Nat, n > TargetQuiz, NEW i \in 1..TargetQuiz, NEW j \in 1..TargetQuiz
    PROVE  /\ L!Checkpoint(i, n) \in 0..(n - 1)
           /\ i < j => /\ L!Checkpoint(i, n) <= L!Checkpoint(j, n)
                       /\ n # TargetQuiz + 1 => L!Checkpoint(i, n) < L!Checkpoint(j, n)
<1>0. TargetQuiz \in Nat /\ n - 1 \in Nat /\ n - 1 >= TargetQuiz
  BY GenerativeAssumption
<1>1. PICK d \in Nat \ {0} : d = 2 * (TargetQuiz + 1)
  BY <1>0
<1>2. PICK x \in Nat : x = 2 * i * (n - 1) + TargetQuiz + 1
  BY <1>0
<1>3. PICK y \in Nat : y = 2 * j * (n - 1) + TargetQuiz + 1
  BY <1>0
<1>4. L!Checkpoint(i, n) = x \div d /\ L!Checkpoint(j, n) = y \div d
  BY <1>1, <1>2, <1>3 DEF L!Checkpoint
<1>5. x < d * n
  <2>1. i * (n - 1) <= TargetQuiz * (n - 1)
    BY <1>0
  <2>2. x <= 2 * TargetQuiz * (n - 1) + TargetQuiz + 1
    BY <1>0, <1>2, <2>1
  <2>3. d * n = 2 * TargetQuiz * (n - 1) + 2 * TargetQuiz + 2 * n
    BY <1>0, <1>1
  <2> QED
    BY <1>0, <2>2, <2>3
<1>6. x \div d \in 0..(n - 1)
  <2>1. PICK m \in Nat : m = x \div d /\ d * m <= x
    OBVIOUS
  <2>2. d * m < d * n
    BY <1>5, <2>1
  <2>3. m < n
    BY <2>2
  <2> QED
    BY <2>1, <2>3
<1>7. ASSUME i < j
      PROVE  /\ x \div d <= y \div d
             /\ n # TargetQuiz + 1 => x \div d < y \div d
  <2>1. y >= x + 2 * (n - 1)
    <3>1. j * (n - 1) = i * (n - 1) + (j - i) * (n - 1) /\ j - i >= 1
      BY <1>0, <1>7
    <3>2. (j - i) * (n - 1) >= n - 1
      BY <1>0, <3>1
    <3> QED
      BY <1>0, <1>2, <1>3, <3>1, <3>2
  <2>2. x <= y
    BY <1>0, <2>1
  <2>3. n # TargetQuiz + 1 => x + d <= y
    BY <1>0, <1>1, <2>1
  <2> QED
    BY <2>2, <2>3, QuotientGrows
<1> QED
  BY <1>4, <1>6, <1>7

LEMMA CheckpointsSpread ==
    ASSUME ContentInv
    PROVE  /\ L!CheckpointsAreSpread
           /\ Len(L!SelectCheckpoints(Len(text))) \in 0..TargetQuiz
<1>0. Len(text) \in Nat /\ TargetQuiz \in Nat
  BY GenerativeAssumption DEF ContentInv
<1>1. CASE Len(text) <= TargetQuiz
  <2>1. L!SelectCheckpoints(Len(text)) = [i \in 1..Len(text) |-> i - 1]
    BY <1>1 DEF L!SelectCheckpoints
  <2> QED
    BY <1>0, <1>1, <2>1 DEF L!CheckpointsAreSpread
<1>2. CASE Len(text) > TargetQuiz
  <2>1. L!SelectCheckpoints(Len(text)) = [i \in 1..TargetQuiz |-> L!Checkpoint(i, Len(text))]
    BY <1>0, <1>2 DEF L!SelectCheckpoints
  <2>2. DOMAIN L!SelectCheckpoints(Len(text)) = 1..TargetQuiz
    BY <2>1
  <2>3. Len(L!SelectCheckpoints(Len(text))) = TargetQuiz
    BY <1>0, <2>1
  <2>4. L!CheckpointsAreSpread
    <3>1. \A i \in 1..TargetQuiz :
            L!SelectCheckpoints(Len(text))[i] = L!Checkpoint(i, Len(text))
      BY <2>1
    <3> QED
      BY <1>0, <1>2, <2>2, <3>1, CheckpointIs DEF L!CheckpointsAreSpread
  <2> QED
    BY <1>0, <2>3, <2>4
<1> QED
  BY <1>0, <1>1, <1>2

LEMMA LCardinality == \A A : L!Cardinality(A) = Cardinality(A)
BY DEF L!Cardinality, Cardinality

\* A set that has 0 and, with each number, the next has every number: else
\* one of the intervals that end outside it would be smallest.
LEMMA AllNumbers ==
    ASSUME NEW Good, 0 \in Good, \A n \in Nat : n \in Good => n + 1 \in Good
    PROVE  Nat \subseteq Good
<1> SUFFICES ASSUME NEW m \in Nat, m \notin Good PROVE FALSE
  OBVIOUS
<1> DEFINE Failing == {0..x : x \in (0..m) \ Good}
           Below == StrictSubsetOrdering(0..m)
<1>1. IsWellFoundedOn(Below, SUBSET (0..m))
  <2>1. IsFiniteSet(0..m)
    BY FS_Interval
  <2> QED
    BY <2>1, FS_FiniteSubsetsOfFinite, FS_StrictSubsetOrderingWellFounded
<1>2. Failing \subseteq SUBSET (0..m) /\ 0..m \in Failing
  <2>1. \A x \in (0..m) \ Good : 0..x \in SUBSET (0..m)
    OBVIOUS
  <2> QED
    BY <2>1
<1>3. PICK I \in Failing : \A J \in Failing : ~(<<J, I>> \in Below)
  <2> HIDE DEF Failing, Below
  <2> QED
    BY <1>1, <1>2, WFMin
<1>4. PICK x \in (0..m) \ Good : I = 0..x
  OBVIOUS
<1>5. x # 0 /\ x - 1 \in Nat /\ (x - 1) + 1 = x
  OBVIOUS
<1>6. x - 1 \notin Good
  BY <1>5
<1>7. 0..(x - 1) \in Failing /\ 0..(x - 1) \subseteq I /\ 0..(x - 1) # I
  BY <1>4, <1>5, <1>6
<1> QED
  BY <1>2, <1>3, <1>4, <1>7 DEF StrictSubsetOrdering

\* g is what comes of base by the first N of the steps, which stay within D.
Keeps(step, D, N) == \A n \in 1..N : \A c \in D : step[n][c] \in D

Iterated(g, step, base, D, N) ==
    g \in [0..N -> D] /\ g[0] = base /\ \A n \in 1..N : g[n] = step[n][g[n - 1]]

\* Hence steps that stay within D can be made one after the other.
LEMMA Iterates ==
    ASSUME NEW D, NEW base \in D, NEW N \in Nat, NEW step, Keeps(step, D, N)
    PROVE  \E g : Iterated(g, step, base, D, N)
<1> DEFINE Good == {m \in Nat : m <= N => \E g : Iterated(g, step, base, D, m)}
<1>1. 0 \in Good
  <2>1. PICK g : g = [n \in 0..0 |-> base]
    OBVIOUS
  <2>2. g \in [0..0 -> D] /\ g[0] = base /\ 1..0 = {}
    BY <2>1
  <2>3. Iterated(g, step, base, D, 0)
    BY <2>2 DEF Iterated
  <2> QED
    BY <2>3
<1>2. ASSUME NEW m \in Nat, m \in Good PROVE m + 1 \in Good
  <2> SUFFICES ASSUME m + 1 <= N PROVE \E g : Iterated(g, step, base, D, m + 1)
    OBVIOUS
  <2>1. PICK g : Iterated(g, step, base, D, m)
    BY <1>2
  <2>2. g[m] \in D /\ step[m + 1][g[m]] \in D
    BY <2>1 DEF Iterated, Keeps
  <2>3. PICK c : c = step[m + 1][g[m]]
    OBVIOUS
  <2>4. PICK h : h = [n \in 0..(m + 1) |-> IF n = m + 1 THEN c ELSE g[n]]
    OBVIOUS
  <2>5. h[m + 1] = c /\ \A n \in 0..m : h[n] = g[n]
    BY <2>4
  <2>6. h \in [0..(m + 1) -> D]
    BY <2>1, <2>2, <2>3, <2>4 DEF Iterated
  <2>7. ASSUME NEW n \in 1..(m + 1) PROVE h[n] = step[n][h[n - 1]]
    <3>1. CASE n = m + 1
      BY <2>3, <2>5, <3>1
    <3>2. CASE n \in 1..m
      <4>1. n - 1 \in 0..m /\ n \in 0..m
        BY <3>2
      <4> QED
        BY <2>1, <2>5, <3>2, <4>1 DEF Iterated
    <3> QED
      BY <3>1, <3>2
  <2>8. Iterated(h, step, base, D, m + 1)
    BY <2>1, <2>5, <2>6, <2>7 DEF Iterated
  <2> QED
    BY <2>8
<1> HIDE DEF Good
<1>3. N \in Good
  BY <1>1, <1>2, AllNumbers
<1> QED
  BY <1>3 DEF Good

\* The recursive function of AllTaken exists, and is what it says.
LEMMA TakingSegments ==
    ASSUME NEW D, NEW s, Len(s) \in Nat, L!NoChunks \in D,
           \A c \in D : \A n \in 1..Len(s) : L!Taken(c, s[n]) \in D
    PROVE  \E f :
             /\ f[0] = L!NoChunks
             /\ \A n \in 1..Len(s) : f[n] = L!Taken(f[n - 1], s[n])
             /\ L!AllTaken(s) = f[Len(s)]
<1> DEFINE Body(f) == [n \in 0..Len(s) |-> IF n = 0 THEN L!NoChunks ELSE L!Taken(f[n - 1], s[n])]
<1>1. \E g : g = Body(g)
  <2>1. PICK step : step = [n \in 1..Len(s) |-> [c \in D |-> L!Taken(c, s[n])]]
    OBVIOUS
  <2>2. Keeps(step, D, Len(s))
    BY <2>1 DEF Keeps
  <2>3. PICK g : Iterated(g, step, L!NoChunks, D, Len(s))
    BY <2>2, Iterates
  <2>4. \A n \in 1..Len(s) : g[n] = L!Taken(g[n - 1], s[n])
    <3> TAKE n \in 1..Len(s)
    <3>1. g[n - 1] \in D
      BY <2>3 DEF Iterated
    <3> QED
      BY <2>1, <2>3, <3>1 DEF Iterated
  <2>5. g = Body(g)
    BY <2>3, <2>4 DEF Iterated
  <2> QED
    BY <2>5
<1>4. PICK f : f = CHOOSE g : g = Body(g)
  OBVIOUS
<1>5. f = Body(f)
  BY <1>1, <1>4, Zenon
<1>6. f[0] = L!NoChunks /\ \A n \in 1..Len(s) : f[n] = L!Taken(f[n - 1], s[n])
  BY <1>5
<1>7. L!AllTaken(s) = f[Len(s)]
  BY <1>4 DEF L!AllTaken
<1> QED
  BY <1>6, <1>7

LEMMA TextCounts == \A t \in MCTexts : L!Cardinality(t) \in Nat
<1>1. \A x : IsFiniteSet({x})
  BY FS_Singleton
<1>2. {"w2", "w3"} = {"w2"} \cup {"w3"}
  OBVIOUS
<1>3. IsFiniteSet({"w2"} \cup {"w3"})
  BY <1>1, FS_Union
<1>4. \A t \in MCTexts : IsFiniteSet(t)
  BY <1>1, <1>2, <1>3 DEF MCTexts
<1> QED
  BY <1>4, LCardinality, FS_CardinalityType

\* f counts the words of the chunk, segment by segment.
Counts(f, chunk) ==
    /\ f[0] = 0
    /\ \A n \in 1..Len(chunk) : f[n] = f[n - 1] + L!Cardinality(chunk[n])

LEMMA Counting ==
    ASSUME NEW chunk \in Seq(MCTexts)
    PROVE  \E f : Counts(f, chunk) /\ L!WordCount(chunk) = f[Len(chunk)]
<1> DEFINE Body(f) == [n \in 0..Len(chunk) |->
                         IF n = 0 THEN 0 ELSE f[n - 1] + L!Cardinality(chunk[n])]
<1>0. Len(chunk) \in Nat /\ \A n \in 1..Len(chunk) : chunk[n] \in MCTexts
  OBVIOUS
<1>1. \E g : g = Body(g)
  <2>1. PICK step :
          step = [n \in 1..Len(chunk) |-> [c \in Nat |-> c + L!Cardinality(chunk[n])]]
    OBVIOUS
  <2>2. Keeps(step, Nat, Len(chunk))
    <3>1. \A n \in 1..Len(chunk) : L!Cardinality(chunk[n]) \in Nat
      BY <1>0, TextCounts, Zenon
    <3>2. \A n \in 1..Len(chunk) : \A c \in Nat : c + L!Cardinality(chunk[n]) \in Nat
      BY <3>1
    <3>3. \A n \in 1..Len(chunk) : \A c \in Nat : step[n][c] = c + L!Cardinality(chunk[n])
      BY <2>1, Zenon
    <3> QED
      BY <3>2, <3>3, Zenon DEF Keeps
  <2>3. PICK g : Iterated(g, step, 0, Nat, Len(chunk))
    BY <1>0, <2>2, Iterates
  <2>4. \A n \in 1..Len(chunk) : g[n] = g[n - 1] + L!Cardinality(chunk[n])
    <3> TAKE n \in 1..Len(chunk)
    <3>1. g[n - 1] \in Nat
      BY <1>0, <2>3 DEF Iterated
    <3> QED
      BY <2>1, <2>3, <3>1 DEF Iterated
  <2>5. g = Body(g)
    BY <1>0, <2>3, <2>4 DEF Iterated
  <2> QED
    BY <2>5
<1>2. PICK f : f = CHOOSE g : g = Body(g)
  OBVIOUS
<1>3. f = Body(f)
  BY <1>1, <1>2, Zenon
<1>4. Counts(f, chunk)
  BY <1>0, <1>3 DEF Counts
<1>5. L!WordCount(chunk) = f[Len(chunk)]
  BY <1>2 DEF L!WordCount
<1> QED
  BY <1>4, <1>5

LEMMA CountOfAppend ==
    ASSUME NEW chunk \in Seq(MCTexts), NEW segment \in MCTexts
    PROVE  /\ L!WordCount(<<>>) = 0
           /\ L!WordCount(chunk) \in Nat
           /\ L!WordCount(Append(chunk, segment)) =
                L!WordCount(chunk) + L!Cardinality(segment)
<1> DEFINE longer == Append(chunk, segment)
<1>1. /\ longer \in Seq(MCTexts)
      /\ Len(longer) = Len(chunk) + 1
      /\ Len(chunk) \in Nat
      /\ longer[Len(chunk) + 1] = segment
      /\ \A n \in 1..Len(chunk) : longer[n] = chunk[n] /\ chunk[n] \in MCTexts
  OBVIOUS
<1>2. PICK f : Counts(f, chunk) /\ L!WordCount(chunk) = f[Len(chunk)]
  BY Counting
<1>3. PICK g : Counts(g, longer) /\ L!WordCount(longer) = g[Len(longer)]
  BY <1>1, Counting
<1> HIDE DEF longer
<1> DEFINE Good == {n \in Nat : n <= Len(chunk) => f[n] \in Nat /\ g[n] = f[n]}
<1>4. 0 \in Good
  BY <1>2, <1>3 DEF Counts
<1>5. ASSUME NEW n \in Nat, n \in Good PROVE n + 1 \in Good
  <2> SUFFICES ASSUME n + 1 <= Len(chunk) PROVE f[n + 1] \in Nat /\ g[n + 1] = f[n + 1]
    OBVIOUS
  <2>1. n + 1 \in 1..Len(chunk) /\ n + 1 \in 1..Len(longer) /\ (n + 1) - 1 = n
    BY <1>1
  <2>2. f[n + 1] = f[n] + L!Cardinality(chunk[n + 1])
    BY <1>2, <2>1 DEF Counts
  <2>3. g[n + 1] = g[n] + L!Cardinality(chunk[n + 1])
    BY <1>1, <1>3, <2>1 DEF Counts
  <2>4. f[n] \in Nat /\ g[n] = f[n]
    BY <1>1, <1>5
  <2>5. L!Cardinality(chunk[n + 1]) \in Nat
    BY <1>1, <2>1, TextCounts
  <2> QED
    BY <2>2, <2>3, <2>4, <2>5
<1>6. Len(chunk) \in Good
  <2> HIDE DEF Good
  <2> QED
    BY <1>1, <1>4, <1>5, AllNumbers
<1>7. g[Len(longer)] = g[Len(chunk)] + L!Cardinality(segment)
  <2>1. Len(longer) \in 1..Len(longer) /\ Len(longer) - 1 = Len(chunk)
    BY <1>1
  <2> QED
    BY <1>1, <1>3, <2>1 DEF Counts
<1>8. L!WordCount(<<>>) = 0
  <2>1. <<>> \in Seq(MCTexts) /\ Len(<<>>) = 0
    OBVIOUS
  <2>2. PICK e : Counts(e, <<>>) /\ L!WordCount(<<>>) = e[Len(<<>>)]
    BY <2>1, Counting
  <2> QED
    BY <2>1, <2>2 DEF Counts
<1>9. L!WordCount(longer) = L!WordCount(chunk) + L!Cardinality(segment)
  BY <1>1, <1>2, <1>3, <1>6, <1>7
<1> QED
  BY <1>1, <1>2, <1>6, <1>8, <1>9 DEF longer

\* f strings the chunks together, one after the other.
Strings(f, chunks) ==
    /\ f[0] = <<>>
    /\ \A n \in 1..Len(chunks) : f[n] = f[n - 1] \o chunks[n]

LEMMA Stringing ==
    ASSUME NEW chunks \in Seq(Seq(MCTexts))
    PROVE  \E f : Strings(f, chunks) /\ L!FlattenSeq(chunks) = f[Len(chunks)]
<1> DEFINE Body(f) == [i \in 1..Len(chunks) |->
                         IF i = 1 THEN chunks[i] ELSE f[i - 1] \o chunks[i]]
<1>0. Len(chunks) \in Nat /\ \A n \in 1..Len(chunks) : chunks[n] \in Seq(MCTexts)
  OBVIOUS
<1>1. \E g : g = Body(g)
  <2>1. PICK step :
          step = [n \in 1..Len(chunks) |-> [c \in Seq(MCTexts) |-> c \o chunks[n]]]
    OBVIOUS
  <2>2. Keeps(step, Seq(MCTexts), Len(chunks))
    <3>1. \A n \in 1..Len(chunks) : \A c \in Seq(MCTexts) : c \o chunks[n] \in Seq(MCTexts)
      BY <1>0, ConcatProperties
    <3> QED
      BY <2>1, <3>1 DEF Keeps
  <2>3. <<>> \in Seq(MCTexts)
    OBVIOUS
  <2>4. PICK h : Iterated(h, step, <<>>, Seq(MCTexts), Len(chunks))
    BY <1>0, <2>2, <2>3, Iterates
  <2>5. \A n \in 1..Len(chunks) : h[n] = h[n - 1] \o chunks[n]
    <3> TAKE n \in 1..Len(chunks)
    <3>1. n - 1 \in 0..Len(chunks) /\ n \in 1..Len(chunks)
      BY <1>0
    <3>2. h[n - 1] \in Seq(MCTexts)
      BY <2>4, <3>1, Zenon DEF Iterated
    <3>3. h[n] = step[n][h[n - 1]]
      BY <2>4 DEF Iterated
    <3>4. step[n][h[n - 1]] = h[n - 1] \o chunks[n]
      BY <2>1, <3>2
    <3> QED
      BY <3>3, <3>4
  <2>6. 1 \in 1..Len(chunks) => h[1] = chunks[1]
    <3> SUFFICES ASSUME 1 \in 1..Len(chunks) PROVE h[1] = chunks[1]
      OBVIOUS
    <3>1. h[0] = <<>>
      BY <2>4 DEF Iterated
    <3>2. h[1] = h[1 - 1] \o chunks[1]
      BY <2>5, Zenon
    <3>4. 1 - 1 = 0
      OBVIOUS
    <3>3. h[1] = <<>> \o chunks[1]
      BY <3>1, <3>2, <3>4, Zenon
    <3> QED
      BY <1>0, <3>3, ConcatEmptySeq
  <2>7. PICK g : g = [n \in 1..Len(chunks) |-> h[n]]
    OBVIOUS
  <2>8. \A n \in 1..Len(chunks) : g[n] = IF n = 1 THEN chunks[n] ELSE g[n - 1] \o chunks[n]
    <3> TAKE n \in 1..Len(chunks)
    <3>1. CASE n = 1
      BY <2>6, <2>7, <3>1
    <3>2. CASE n # 1
      <4>1. n - 1 \in 1..Len(chunks)
        BY <1>0, <3>2
      <4> QED
        BY <2>5, <2>7, <3>2, <4>1
    <3> QED
      BY <3>1, <3>2
  <2>9. g = Body(g)
    BY <2>7, <2>8
  <2> QED
    BY <2>9
<1>2. PICK f : f = CHOOSE g : g = Body(g)
  OBVIOUS
<1>3. f = Body(f)
  BY <1>1, <1>2, Zenon
<1>4. PICK h : h = [n \in 0..Len(chunks) |-> IF n = 0 THEN <<>> ELSE f[n]]
  OBVIOUS
<1>5. h[0] = <<>> /\ \A n \in 1..Len(chunks) : h[n] = f[n]
  BY <1>0, <1>4
<1>6. \A n \in 1..Len(chunks) : h[n] = h[n - 1] \o chunks[n]
  <2> TAKE n \in 1..Len(chunks)
  <2>1. CASE n = 1
    <3>1. h[n] = chunks[n]
      BY <1>3, <1>5, <2>1
    <3>2. n - 1 = 0
      BY <2>1
    <3>3. h[n - 1] = <<>>
      BY <1>5, <3>2, Zenon
    <3>4. chunks[n] \in Seq(MCTexts)
      BY <1>0
    <3>5. <<>> \o chunks[n] = chunks[n]
      BY <3>4, ConcatEmptySeq
    <3> QED
      BY <3>1, <3>3, <3>5, Zenon
  <2>2. CASE n # 1
    <3>1. n - 1 \in 1..Len(chunks)
      BY <1>0, <2>2
    <3>2. f[n] = f[n - 1] \o chunks[n]
      BY <1>3, <2>2
    <3> QED
      BY <1>5, <3>1, <3>2
  <2> QED
    BY <2>1, <2>2
<1>7. L!FlattenSeq(chunks) = h[Len(chunks)]
  <2>1. CASE Len(chunks) = 0
    <3>1. chunks = <<>>
      BY <2>1, EmptySeq
    <3> QED
      BY <1>5, <2>1, <3>1 DEF L!FlattenSeq
  <2>2. CASE Len(chunks) # 0
    <3>1. L!FlattenSeq(chunks) = f[Len(chunks)]
      BY <1>2, <2>2 DEF L!FlattenSeq
    <3> QED
      BY <1>0, <1>5, <2>2, <3>1
  <2> QED
    BY <2>1, <2>2
<1>8. Strings(h, chunks)
  BY <1>5, <1>6 DEF Strings
<1> QED
  BY <1>7, <1>8

LEMMA FlattenOfAppend ==
    ASSUME NEW chunks \in Seq(Seq(MCTexts)), NEW chunk \in Seq(MCTexts)
    PROVE  /\ L!FlattenSeq(<<>>) = <<>>
           /\ L!FlattenSeq(chunks) \in Seq(MCTexts)
           /\ L!FlattenSeq(Append(chunks, chunk)) = L!FlattenSeq(chunks) \o chunk
<1> DEFINE longer == Append(chunks, chunk)
<1>1. /\ longer \in Seq(Seq(MCTexts))
      /\ Len(longer) = Len(chunks) + 1
      /\ Len(chunks) \in Nat
      /\ longer[Len(chunks) + 1] = chunk
      /\ \A n \in 1..Len(chunks) : longer[n] = chunks[n] /\ chunks[n] \in Seq(MCTexts)
  OBVIOUS
<1>2. PICK f : Strings(f, chunks) /\ L!FlattenSeq(chunks) = f[Len(chunks)]
  BY Stringing
<1>3. PICK g : Strings(g, longer) /\ L!FlattenSeq(longer) = g[Len(longer)]
  BY <1>1, Stringing
<1> HIDE DEF longer
<1> DEFINE Good == {n \in Nat : n <= Len(chunks) => f[n] \in Seq(MCTexts) /\ g[n] = f[n]}
<1>4. 0 \in Good
  <2>1. f[0] = <<>> /\ g[0] = <<>>
    BY <1>2, <1>3 DEF Strings
  <2>2. <<>> \in Seq(MCTexts)
    OBVIOUS
  <2>3. f[0] \in Seq(MCTexts) /\ g[0] = f[0]
    BY <2>1, <2>2, Zenon
  <2> QED
    BY <2>3
<1>5. ASSUME NEW n \in Nat, n \in Good PROVE n + 1 \in Good
  <2> SUFFICES ASSUME n + 1 <= Len(chunks)
               PROVE  f[n + 1] \in Seq(MCTexts) /\ g[n + 1] = f[n + 1]
    OBVIOUS
  <2>1. n + 1 \in 1..Len(chunks) /\ n + 1 \in 1..Len(longer) /\ (n + 1) - 1 = n
    BY <1>1
  <2>2. f[n + 1] = f[n] \o chunks[n + 1]
    BY <1>2, <2>1 DEF Strings
  <2>3. g[n + 1] = g[n] \o chunks[n + 1]
    BY <1>1, <1>3, <2>1 DEF Strings
  <2>4. f[n] \in Seq(MCTexts) /\ g[n] = f[n]
    BY <1>1, <1>5
  <2>5. chunks[n + 1] \in Seq(MCTexts)
    BY <1>1, <2>1
  <2> QED
    BY <2>2, <2>3, <2>4, <2>5, ConcatProperties
<1>6. f[Len(chunks)] \in Seq(MCTexts) /\ g[Len(chunks)] = f[Len(chunks)]
  <2>1. Len(chunks) \in Good
    <3> HIDE DEF Good
    <3> QED
      BY <1>1, <1>4, <1>5, AllNumbers
  <2> QED
    BY <1>1, <2>1
<1>7. g[Len(longer)] = g[Len(chunks)] \o chunk
  <2>1. Len(longer) \in 1..Len(longer) /\ Len(longer) - 1 = Len(chunks)
    BY <1>1
  <2> QED
    BY <1>1, <1>3, <2>1 DEF Strings
<1>8. L!FlattenSeq(<<>>) = <<>>
  BY DEF L!FlattenSeq
<1>9. L!FlattenSeq(longer) = L!FlattenSeq(chunks) \o chunk
  BY <1>2, <1>3, <1>6, <1>7, Zenon
<1> QED
  BY <1>1, <1>2, <1>6, <1>8, <1>9 DEF longer

\* What has been cut when the segments of prefix are taken.
Cut(c, prefix) ==
    /\ c.closed \in Seq(Seq(MCTexts)) /\ c.current \in Seq(MCTexts)
    /\ c.words = L!WordCount(c.current)
    /\ L!FlattenSeq(c.closed) \o c.current = prefix
    /\ \A k \in 1..Len(c.closed) : L!WordCount(c.closed[k]) >= ChunkWords

LEMMA NothingCut == Cut(L!NoChunks, <<>>)
<1>1. <<>> \in Seq(Seq(MCTexts)) /\ <<>> \in Seq(MCTexts) /\ {"w1"} \in MCTexts
  BY DEF MCTexts
<1>2. L!WordCount(<<>>) = 0 /\ L!FlattenSeq(<<>>) = <<>>
  BY <1>1, CountOfAppend, FlattenOfAppend
<1>3. <<>> \o <<>> = <<>>
  BY <1>1, ConcatEmptySeq
<1>4. L!NoChunks.closed = <<>> /\ L!NoChunks.current = <<>> /\ L!NoChunks.words = 0
  BY DEF L!NoChunks
<1>5. \A k \in 1..Len(L!NoChunks.closed) : L!WordCount(L!NoChunks.closed[k]) >= ChunkWords
  BY <1>4
<1> QED
  BY <1>1, <1>2, <1>3, <1>4, <1>5, Zenon DEF Cut

\* A segment goes behind those cut before it.
LEMMA CutTaken ==
    ASSUME NEW c, NEW prefix \in Seq(MCTexts), NEW segment \in MCTexts, Cut(c, prefix)
    PROVE  Cut(L!Taken(c, segment), Append(prefix, segment))
<1> DEFINE now  == Append(c.current, segment)
           size == c.words + L!Cardinality(segment)
           d == L!Taken(c, segment)
<1>1. c.closed \in Seq(Seq(MCTexts)) /\ c.current \in Seq(MCTexts)
  BY DEF Cut
<1>2. now \in Seq(MCTexts) /\ <<segment>> \in Seq(MCTexts)
  BY <1>1
<1>3. L!WordCount(now) = size /\ L!WordCount(<<>>) = 0
  BY <1>1, CountOfAppend DEF Cut
<1>4. L!FlattenSeq(c.closed) \in Seq(MCTexts)
  BY <1>1, FlattenOfAppend
<1>5. L!FlattenSeq(c.closed) \o now = Append(prefix, segment)
  <2>1. now = c.current \o <<segment>>
    BY <1>1, AppendIsConcat
  <2>2. Append(prefix, segment) = prefix \o <<segment>>
    BY AppendIsConcat
  <2>3. (L!FlattenSeq(c.closed) \o c.current) \o <<segment>> =
          L!FlattenSeq(c.closed) \o (c.current \o <<segment>>)
    <3>1. \A a, b, e \in Seq(MCTexts) : (a \o b) \o e = a \o (b \o e)
      BY ConcatAssociative
    <3> QED
      BY <1>1, <1>2, <1>4, <3>1, Zenon
  <2>4. L!FlattenSeq(c.closed) \o c.current = prefix
    BY DEF Cut
  <2> HIDE DEF now
  <2> QED
    BY <2>1, <2>2, <2>3, <2>4, Zenon
<1>6. CASE size >= ChunkWords
  <2>1. d = [closed |-> Append(c.closed, now), current |-> <<>>, words |-> 0]
    BY <1>6 DEF L!Taken
  <2> HIDE DEF now, size, d
  <2>2. d.closed = Append(c.closed, now) /\ d.current = <<>> /\ d.words = 0
    BY <2>1
  <2>3. Append(c.closed, now) \in Seq(Seq(MCTexts)) /\ <<>> \in Seq(MCTexts)
    BY <1>1, <1>2, AppendProperties, EmptySeq
  <2>4. L!FlattenSeq(Append(c.closed, now)) \o <<>> = Append(prefix, segment)
    <3>1. L!FlattenSeq(Append(c.closed, now)) = Append(prefix, segment)
      BY <1>1, <1>2, <1>5, FlattenOfAppend
    <3>2. Append(prefix, segment) \in Seq(MCTexts)
      BY AppendProperties
    <3> QED
      BY <3>1, <3>2, ConcatEmptySeq
  <2>5. ASSUME NEW k \in 1..Len(d.closed)
        PROVE  L!WordCount(d.closed[k]) >= ChunkWords
    <3>1. /\ Len(d.closed) = Len(c.closed) + 1 /\ Len(c.closed) \in Nat
          /\ d.closed[Len(c.closed) + 1] = now
          /\ \A n \in 1..Len(c.closed) : d.closed[n] = c.closed[n]
      BY <1>1, <1>2, <2>2, AppendProperties, LenProperties
    <3>2. CASE k = Len(c.closed) + 1
      <4>1. L!WordCount(d.closed[k]) = size
        BY <1>3, <3>1, <3>2, Zenon
      <4> QED
        BY <1>6, <4>1
    <3>3. CASE k \in 1..Len(c.closed)
      <4>1. d.closed[k] = c.closed[k]
        BY <3>1, <3>3
      <4>2. L!WordCount(c.closed[k]) >= ChunkWords
        BY <3>3 DEF Cut
      <4> QED
        BY <4>1, <4>2
    <3>4. k = Len(c.closed) + 1 \/ k \in 1..Len(c.closed)
      BY <3>1
    <3> QED
      BY <3>2, <3>3, <3>4, Zenon
  <2>6. Cut(d, Append(prefix, segment))
    BY <1>3, <2>2, <2>3, <2>4, <2>5, Zenon DEF Cut
  <2> QED
    BY <2>6 DEF d
<1>7. CASE ~(size >= ChunkWords)
  <2>1. d = [closed |-> c.closed, current |-> now, words |-> size]
    BY <1>7 DEF L!Taken
  <2> HIDE DEF now, size, d
  <2>2. d.closed = c.closed /\ d.current = now /\ d.words = size
    BY <2>1
  <2>3. \A k \in 1..Len(c.closed) : L!WordCount(c.closed[k]) >= ChunkWords
    BY DEF Cut
  <2>4. Cut(d, Append(prefix, segment))
    BY <1>1, <1>2, <1>3, <1>5, <2>2, <2>3, Zenon DEF Cut
  <2> QED
    BY <2>4 DEF d
<1> QED
  BY <1>6, <1>7

LEMMA AllCut ==
    ASSUME NEW s \in Seq(MCTexts)
    PROVE  Cut(L!AllTaken(s), s)
<1> DEFINE D == {c \in [closed : Seq(Seq(MCTexts)), current : Seq(MCTexts), words : Nat] : TRUE}
<1>0. Len(s) \in Nat /\ \A n \in 1..Len(s) : s[n] \in MCTexts
  BY LenProperties
<1>1. L!NoChunks \in D
  BY DEF L!NoChunks
<1>2. ASSUME NEW c \in D, NEW n \in 1..Len(s) PROVE L!Taken(c, s[n]) \in D
  <2>1. s[n] \in MCTexts /\ L!Cardinality(s[n]) \in Nat
    BY <1>0, TextCounts
  <2>2. /\ c.closed \in Seq(Seq(MCTexts)) /\ c.current \in Seq(MCTexts)
        /\ c.words + L!Cardinality(s[n]) \in Nat
    BY <2>1
  <2>3. Append(c.current, s[n]) \in Seq(MCTexts)
    BY <2>1, <2>2, AppendProperties
  <2>4. Append(c.closed, Append(c.current, s[n])) \in Seq(Seq(MCTexts))
    BY <2>2, <2>3, AppendProperties
  <2>5. <<>> \in Seq(MCTexts) /\ 0 \in Nat
    BY EmptySeq
  <2> QED
    BY <2>2, <2>3, <2>4, <2>5 DEF L!Taken
<1> HIDE DEF D
<1>3. PICK f :
        /\ f[0] = L!NoChunks
        /\ \A n \in 1..Len(s) : f[n] = L!Taken(f[n - 1], s[n])
        /\ L!AllTaken(s) = f[Len(s)]
  BY <1>0, <1>1, <1>2, TakingSegments
<1> DEFINE Good == {n \in Nat : n <= Len(s) => Cut(f[n], SubSeq(s, 1, n))}
<1>4. 0 \in Good
  <2>1. SubSeq(s, 1, 0) = <<>>
    BY SubSeqEmpty
  <2>2. Cut(f[0], SubSeq(s, 1, 0))
    BY <1>3, <2>1, NothingCut
  <2> QED
    BY <2>2
<1>5. ASSUME NEW n \in Nat, n \in Good PROVE n + 1 \in Good
  <2> SUFFICES ASSUME n + 1 <= Len(s) PROVE Cut(f[n + 1], SubSeq(s, 1, n + 1))
    OBVIOUS
  <2>1. Cut(f[n], SubSeq(s, 1, n))
    BY <1>0, <1>5
  <2>2. n + 1 \in 1..Len(s) /\ (n + 1) - 1 = n
    BY <1>0
  <2>3. s[n + 1] \in MCTexts /\ f[n + 1] = L!Taken(f[n], s[n + 1])
    BY <1>0, <1>3, <2>2
  <2>4. SubSeq(s, 1, n) \in Seq(MCTexts)
    <3>1. \A i \in 1..n : s[i] \in MCTexts
      BY <1>0, <2>2
    <3> QED
      BY <3>1, SubSeqProperties
  <2>5. SubSeq(s, 1, n + 1) = Append(SubSeq(s, 1, n), s[n + 1])
    <3>1. 1 \in 1..Len(s) /\ n + 1 \in 1..Len(s)
      BY <1>0, <2>2
    <3>2. SubSeq(s, 1, n + 1) = SubSeq(s, 1, (n + 1) - 1) \o <<s[n + 1]>>
      BY <3>1, SubSeqRecursiveSecond
    <3> QED
      BY <2>2, <2>3, <2>4, <3>2, AppendIsConcat
  <2>6. Cut(L!Taken(f[n], s[n + 1]), Append(SubSeq(s, 1, n), s[n + 1]))
    BY <2>1, <2>3, <2>4, CutTaken
  <2> QED
    BY <2>3, <2>5, <2>6, Zenon
<1>6. Len(s) \in Good
  <2> HIDE DEF Good
  <2> QED
    BY <1>0, <1>4, <1>5, AllNumbers
<1>7. Cut(f[Len(s)], SubSeq(s, 1, Len(s)))
  BY <1>0, <1>6
<1>8. SubSeq(s, 1, Len(s)) = s
  BY SubSeqFull
<1> QED
  BY <1>3, <1>7, <1>8

LEMMA ChunksHold ==
    ASSUME text \in Seq(MCTexts)
    PROVE  L!ChunksAreTheText
<1> DEFINE last == L!AllTaken(text)
           all == IF last.current = <<>> THEN last.closed ELSE Append(last.closed, last.current)
           chunks == L!ChunkSegments(text)
<1>1. Cut(last, text)
  BY AllCut
<1>2. chunks = IF all = <<>> THEN <<text>> ELSE all
  BY DEF L!ChunkSegments
<1> HIDE DEF last
<1>3. last.closed \in Seq(Seq(MCTexts)) /\ last.current \in Seq(MCTexts)
  BY <1>1 DEF Cut
<1>4. L!FlattenSeq(last.closed) \o last.current = text
  BY <1>1 DEF Cut
<1>5. L!FlattenSeq(last.closed) \in Seq(MCTexts)
  BY <1>3, FlattenOfAppend
<1>6. \A k \in 1..Len(last.closed) : L!WordCount(last.closed[k]) >= ChunkWords
  BY <1>1 DEF Cut
<1>7. Len(last.closed) \in Nat
  BY <1>3, LenProperties
<1>8. CASE last.current = <<>> /\ last.closed = <<>>
  <2>1. chunks = <<text>>
    BY <1>2, <1>8
  <2>2. <<>> \in Seq(Seq(MCTexts)) /\ <<text>> = Append(<<>>, text) /\ Len(<<text>>) = 1
    OBVIOUS
  <2>3. L!FlattenSeq(<<text>>) = <<>> \o text
    BY <2>2, FlattenOfAppend
  <2>4. L!FlattenSeq(chunks) = text
    BY <2>1, <2>3, ConcatEmptySeq
  <2>5. 1..(Len(chunks) - 1) = {}
    BY <2>1, <2>2
  <2> QED
    BY <2>4, <2>5 DEF L!ChunksAreTheText
<1>9. CASE last.current = <<>> /\ last.closed # <<>>
  <2>1. chunks = last.closed
    BY <1>2, <1>9
  <2>2. L!FlattenSeq(chunks) = text
    BY <1>4, <1>5, <1>9, <2>1, ConcatEmptySeq
  <2>3. \A k \in 1..(Len(chunks) - 1) : k \in 1..Len(last.closed)
    BY <1>7, <2>1
  <2>4. \A k \in 1..(Len(chunks) - 1) : L!WordCount(chunks[k]) >= ChunkWords
    BY <1>6, <2>1, <2>3
  <2> QED
    BY <2>2, <2>4 DEF L!ChunksAreTheText
<1>10. CASE last.current # <<>>
  <2>1. chunks = Append(last.closed, last.current)
    <3>1. Append(last.closed, last.current) # <<>>
      BY <1>3, AppendProperties
    <3> QED
      BY <1>2, <1>10, <3>1
  <2>2. L!FlattenSeq(chunks) = text
    BY <1>3, <1>4, <2>1, FlattenOfAppend
  <2>3. /\ Len(chunks) = Len(last.closed) + 1
        /\ \A n \in 1..Len(last.closed) : chunks[n] = last.closed[n]
    BY <1>3, <2>1, AppendProperties
  <2> HIDE DEF chunks
  <2>4. \A k \in 1..(Len(chunks) - 1) : k \in 1..Len(last.closed)
    BY <1>7, <2>3
  <2>5. \A k \in 1..(Len(chunks) - 1) : L!WordCount(chunks[k]) >= ChunkWords
    BY <1>6, <2>3, <2>4
  <2> QED
    BY <2>2, <2>5 DEF L!ChunksAreTheText, chunks
<1> QED
  BY <1>8, <1>9, <1>10

LEMMA FewWords ==
    ASSUME NEW A, A \subseteq L!Words
    PROVE  IsFiniteSet(A) /\ Cardinality(A) \in Nat
<1>1. L!Words = {"w1", "w2", "w3"}
  BY DEF L!Words, MCTexts
<1>2. IsFiniteSet({"w1", "w2", "w3"})
  <2>1. IsFiniteSet({"w1"}) /\ IsFiniteSet({"w2"}) /\ IsFiniteSet({"w3"})
    BY FS_Singleton
  <2>2. IsFiniteSet({"w1"} \cup {"w2"})
    BY <2>1, FS_Union
  <2>3. IsFiniteSet(({"w1"} \cup {"w2"}) \cup {"w3"})
    BY <2>1, <2>2, FS_Union
  <2>4. {"w1", "w2", "w3"} = ({"w1"} \cup {"w2"}) \cup {"w3"}
    OBVIOUS
  <2> QED
    BY <2>3, <2>4
<1> QED
  BY <1>1, <1>2, FS_Subset, FS_CardinalityType

LEMMA ContentInit == ASSUME L!Init PROVE ContentInv
<1>1. text \in Seq(MCTexts) /\ Len(text) <= MaxSegments
  BY ShortTexts DEF L!Init
<1>2. L!TypeOK
  <2>1. open \subseteq 1..Len(L!ChunkSegments(text))
    BY DEF L!Init
  <2>2. found = {} /\ vocabulary = {} /\ extraction = "none"
    BY DEF L!Init
  <2>3. question.number = 0 /\ question.correct = 0
    BY DEF L!Init, L!NoQuestion
  <2>4. question.number \in 0..TargetQuiz /\ question.correct \in 0..3
    BY <2>3, GenerativeAssumption
  <2>5. /\ found \subseteq L!Words \cup {L!NoWord} /\ vocabulary \subseteq L!Words
        /\ extraction \in {"none", "selected", "failed"}
    BY <2>2
  <2> QED
    BY <1>1, <2>1, <2>4, <2>5 DEF L!TypeOK
<1> QED
  BY <1>1, <1>2
     DEF L!Init, L!NoQuestion, ContentInv, L!VocabularyIsFull, L!RightOptionMarked

\* The four options of a question, and the right one where it belongs.
LEMMA QuestionIs ==
    ASSUME NEW n \in 1..TargetQuiz, NEW offered \in 2..5, NEW index \in -1..4,
           question' = L!MakeQuestion(n, offered, index)
    PROVE  /\ question'.number = n /\ question'.correct \in 0..3
           /\ L!RightOptionMarked'
<1>1. PICK desired \in 0..3 : desired = (n - 1) % 4
  BY GenerativeAssumption
<1>2. PICK c \in 0..3 : c = L!Clamp(index) /\ (index \in 0..3 => c = index)
  BY DEF L!Clamp
<1>3. PICK options : options = L!FourOptions(offered)
  OBVIOUS
<1>4. /\ options \in [1..4 -> -1..3]
      /\ \A o \in 0..3 : o < offered => options[o + 1] = o
  BY <1>3 DEF L!FourOptions
<1>5. PICK placed : placed = IF c = desired THEN options
                             ELSE L!Swapped(options, c + 1, desired + 1)
  OBVIOUS
<1>6. /\ placed[desired + 1] = options[c + 1]
      /\ placed[c + 1] = options[desired + 1]
      /\ \A i \in 1..4 : i \notin {c + 1, desired + 1} => placed[i] = options[i]
  BY <1>4, <1>5 DEF L!Swapped
<1>7. /\ question'.number = n /\ question'.correct = desired /\ question'.index = index
      /\ question'.offered = offered /\ question'.options = placed
  BY <1>1, <1>2, <1>3, <1>5 DEF L!MakeQuestion
<1>8. ASSUME index \in 0..3, index < offered
      PROVE  /\ placed[desired + 1] = index
             /\ \A o \in 0..3 : o < offered => \E i \in 1..4 : placed[i] = o
  <2>1. placed[desired + 1] = index
    BY <1>2, <1>4, <1>6, <1>8
  <2>2. ASSUME NEW o \in 0..3, o < offered PROVE \E i \in 1..4 : placed[i] = o
    <3>1. CASE o = c
      BY <1>2, <1>8, <2>1, <3>1
    <3>2. CASE o # c /\ o = desired
      BY <1>4, <1>6, <2>2, <3>2
    <3>3. CASE o # c /\ o # desired
      BY <1>4, <1>6, <2>2, <3>3
    <3> QED
      BY <3>1, <3>2, <3>3
  <2> QED
    BY <2>1, <2>2
<1>9. L!RightOptionMarked'
  BY <1>7, <1>8 DEF L!RightOptionMarked
<1> QED
  BY <1>7, <1>9

LEMMA StockIs ==
    ASSUME NEW n \in 1..TargetQuiz, question' = L!StockQuestion(n)
    PROVE  /\ question'.number = n /\ question'.correct = 0
           /\ L!RightOptionMarked'
<1>1. /\ question'.number = n /\ question'.correct = 0 /\ question'.index = 0
      /\ question'.offered = 4 /\ question'.options = L!FourOptions(4)
  BY DEF L!StockQuestion
<1>2. \A o \in 0..3 : L!FourOptions(4)[o + 1] = o
  BY DEF L!FourOptions
<1> QED
  BY <1>1, <1>2 DEF L!RightOptionMarked

LEMMA ContentStep ==
    ASSUME ContentInv, L!Next
    PROVE  ContentInv'
<1>0. /\ text \in Seq(MCTexts) /\ Len(text) <= MaxSegments
      /\ open \subseteq 1..Len(L!ChunkSegments(text))
      /\ found \subseteq L!Words \cup {L!NoWord} /\ vocabulary \subseteq L!Words
      /\ extraction \in {"none", "selected", "failed"}
      /\ question.number \in 0..TargetQuiz /\ question.correct \in 0..3
      /\ TargetQuiz \in Nat /\ TargetVocab \in Nat
  BY GenerativeAssumption DEF ContentInv, L!TypeOK
<1>1. text' = text
  BY DEF L!Next, L!ExtractChunk, L!SelectWords, L!FailExtraction, L!AskQuestion
<1>2. L!EligibleWords \subseteq L!Words
  BY <1>0 DEF L!EligibleWords, L!Words
<1>3. L!EligibleWords' = L!EligibleWords
  BY <1>1 DEF L!EligibleWords
<1>4. ASSUME NEW k \in open, L!ExtractChunk(k) PROVE ContentInv'
  <2>1. /\ open' \subseteq open /\ found' \subseteq L!Words \cup {L!NoWord}
        /\ found \subseteq found'
        /\ UNCHANGED <<vocabulary, extraction, question>>
    BY <1>0, <1>4 DEF L!ExtractChunk
  <2>2. L!TypeOK'
    BY <1>0, <1>1, <2>1 DEF L!TypeOK, L!Words
  <2> QED
    BY <1>0, <1>1, <1>3, <2>1, <2>2
       DEF ContentInv, L!VocabularyIsFull, L!RightOptionMarked
<1>5. CASE L!SelectWords
  <2>1. PICK pool : pool = IF L!TooFew(found) THEN found \cup L!EligibleWords ELSE found
    OBVIOUS
  <2>2. PICK chosen \in SUBSET pool :
          /\ Cardinality(chosen) =
               IF Cardinality(pool) < TargetVocab THEN Cardinality(pool) ELSE TargetVocab
          /\ vocabulary' = chosen
    BY <1>5, <2>1, LCardinality DEF L!SelectWords
  <2>3. extraction' = "selected" /\ UNCHANGED <<open, found, question>>
    BY <1>5 DEF L!SelectWords
  <2>0. found \subseteq L!Words
    BY <1>0, <1>5 DEF L!SelectWords
  <2>4. pool \subseteq L!Words
    BY <1>2, <2>0, <2>1
  <2>5. /\ Cardinality(pool) \in Nat /\ Cardinality(L!EligibleWords) \in Nat
        /\ Cardinality(found) \in Nat
    BY <1>2, <2>0, <2>4, FewWords
  <2>6. Cardinality(pool) >= TargetVocab \/ Cardinality(pool) >= Cardinality(L!EligibleWords)
    <3>1. CASE L!TooFew(found)
      <4>1. L!EligibleWords \subseteq pool
        BY <2>1, <3>1
      <4> QED
        BY <2>4, <2>5, <4>1, FewWords, FS_Subset
    <3>2. CASE ~L!TooFew(found)
      BY <1>0, <2>1, <2>5, <3>2, LCardinality DEF L!TooFew
    <3> QED
      BY <3>1, <3>2
  <2>7. Cardinality(vocabulary') >= IF Cardinality(L!EligibleWords) < TargetVocab
                                    THEN Cardinality(L!EligibleWords) ELSE TargetVocab
    BY <1>0, <2>2, <2>5, <2>6
  <2>8. L!VocabularyIsFull'
    BY <1>3, <2>3, <2>7, LCardinality DEF L!VocabularyIsFull
  <2>9. L!TypeOK'
    BY <1>0, <1>1, <2>2, <2>3, <2>4 DEF L!TypeOK, L!Words
  <2> QED
    BY <1>0, <1>1, <2>3, <2>8, <2>9 DEF ContentInv, L!RightOptionMarked
<1>7. CASE L!FailExtraction
  <2>1. /\ extraction' = "failed" /\ L!NoWord \in found
        /\ UNCHANGED <<text, open, found, vocabulary, question>>
    BY <1>7 DEF L!FailExtraction
  <2>2. L!TypeOK'
    BY <1>0, <2>1 DEF L!TypeOK, L!Words
  <2> QED
    BY <1>0, <2>1, <2>2 DEF ContentInv, L!VocabularyIsFull, L!RightOptionMarked
<1>6. CASE L!AskQuestion
  <2>1. PICK n : n = question.number + 1
    OBVIOUS
  <2>2. n \in 1..TargetQuiz
    <3>1. question.number < Len(L!SelectCheckpoints(Len(text)))
      BY <1>6 DEF L!AskQuestion
    <3> QED
      BY <1>0, <2>1, <3>1, CheckpointsSpread
  <2>3. /\ \/ question' = L!StockQuestion(n)
           \/ \E offered \in 2..5, index \in -1..4 :
                question' = L!MakeQuestion(n, offered, index)
        /\ UNCHANGED <<open, found, vocabulary, extraction>>
    BY <1>6, <2>1 DEF L!AskQuestion
  <2>4. question'.number = n /\ question'.correct \in 0..3 /\ L!RightOptionMarked'
    BY <2>2, <2>3, QuestionIs, StockIs
  <2>5. L!TypeOK'
    BY <1>0, <1>1, <2>2, <2>3, <2>4 DEF L!TypeOK, L!Words
  <2> QED
    BY <1>0, <1>1, <1>3, <2>3, <2>4, <2>5 DEF ContentInv, L!VocabularyIsFull
<1> QED
  BY <1>4, <1>5, <1>6, <1>7 DEF L!Next

-----------------------------------------------------------------------------
(***************************************************************************)
(* All parts together.  Each invariant stays while the state of its part   *)
(* does, whatever else moves.                                              *)
(***************************************************************************)

LEMMA FilesUnmoved == ASSUME FilesInv, UNCHANGED fileState PROVE FilesInv'
<1>1. UNCHANGED <<source, asset, row, fileReq, reuploaded, claimed, broken>>
  BY DEF fileState
<1>2. FilesTyped' /\ \A r \in Requests : FileRequest(fileReq[r])' /\ Holds(fileReq[r])'
  BY <1>1 DEF FilesInv, FilesTyped, FileRequest, Holds
<1>3. F!RowsDescribeUploads'
  BY <1>1 DEF FilesInv, F!RowsDescribeUploads, F!AwaitsRow
<1> QED
  BY <1>2, <1>3 DEF FilesInv

LEMMA PlayUnmoved == ASSUME PlayInv, UNCHANGED playState PROVE PlayInv'
<1>1. UNCHANGED <<user, scenario, play, evaluation, said, replies, playReq, sent,
                  earned, given, playOverlapped>>
  BY DEF playState
<1>2. PlayTyped'
  BY <1>1 DEF PlayInv, PlayTyped, R!TypeOK
<1>3. \A r \in Requests : PlayRequest(playReq[r])'
  BY <1>1 DEF PlayInv, PlayRequest
<1>4. R!ProgressKeptUnlessOverlapped' /\ R!ConversationsAreWhole'
  BY <1>1 DEF PlayInv, R!ProgressKeptUnlessOverlapped, R!ConversationsAreWhole
<1> QED
  BY <1>2, <1>3, <1>4 DEF PlayInv

LEMMA ProvidersUnmoved == ASSUME ProvidersInv, UNCHANGED providerState PROVE ProvidersInv'
<1>1. UNCHANGED <<hasKey, turn>>
  BY DEF providerState
<1>2. \A c \in Requests : TurnIsSound(turn[c])'
  BY <1>1 DEF ProvidersInv, TurnIsSound, Justified, Waits, Untried, Trying, Heard,
              P!Served, P!Usable, P!Permanent
<1> QED
  BY <1>1, <1>2 DEF ProvidersInv

LEMMA TutorUnmoved == ASSUME TutorInv, UNCHANGED tutorState PROVE TutorInv'
<1>1. UNCHANGED <<session, keys, tutorReq, made, ended, tutorOverlapped, excused>>
  BY DEF tutorState
<1>2. TutorTyped' /\ \A r \in Requests : TutorRequest(tutorReq[r])'
  BY <1>1 DEF TutorInv, TutorTyped, TutorRequest
<1>3. T!KeptUnlessOverlapped'
  BY <1>1 DEF TutorInv, T!KeptUnlessOverlapped, T!EndedStaysEnded, T!LastTurnsKept
<1>4. ASSUME NEW t PROVE OnceOnly(t)' <=> OnceOnly(t)
  <2>1. T!Occurrences(t)' = T!Occurrences(t)
    BY <1>1 DEF T!Occurrences
  <2>2. Makers(t)' = Makers(t)
    BY <1>1 DEF Makers
  <2> QED
    BY <1>1, <2>1, <2>2 DEF OnceOnly
<1> QED
  BY <1>1, <1>2, <1>3, <1>4 DEF TutorInv

LEMMA ContentUnmoved == ASSUME ContentInv, UNCHANGED contentState PROVE ContentInv'
<1>1. UNCHANGED <<half, text, open, found, vocabulary, extraction, question>>
  BY DEF contentState
<1>2. L!TypeOK'
  BY <1>1 DEF ContentInv, L!TypeOK
<1>3. L!VocabularyIsFull'
  <2>1. L!EligibleWords' = L!EligibleWords
    BY <1>1 DEF L!EligibleWords
  <2> QED
    BY <1>1, <2>1 DEF ContentInv, L!VocabularyIsFull
<1>4. L!RightOptionMarked'
  BY <1>1 DEF ContentInv, L!RightOptionMarked
<1> QED
  BY <1>1, <1>2, <1>3, <1>4 DEF ContentInv

LEMMA LessonUnmoved == ASSUME LessonInv, UNCHANGED lessonState PROVE LessonInv'
<1>1. UNCHANGED <<lesson, job, editor, generation, listOverlapped, lost, renamed, wordless>>
  BY DEF lessonState
<1>2. S!TypeOK'
  BY <1>1 DEF LessonInv, S!TypeOK
<1>3. \A e \in Requests : EditorKnows(editor[e])'
  BY <1>1 DEF LessonInv, EditorKnows, Settled, Stocked
<1>4. S!LessonIsWhole'
  BY <1>1 DEF LessonInv, S!LessonIsWhole, S!OfOneGeneration, S!StatusIsTrue
<1> QED
  BY <1>1, <1>2, <1>3, <1>4 DEF LessonInv, Stocked

GenerativeInv ==
    TutorInv /\ PlayInv /\ ProvidersInv /\ ContentInv /\ LessonInv /\ FilesInv

LEMMA GenerativeStep ==
    ASSUME GenerativeInv,
           [GenerativeNext]_<<part, tutorState, playState, providerState,
                              contentState, lessonState, fileState>>
    PROVE  GenerativeInv'
<1>1. /\ T!Next \/ UNCHANGED tutorState
      /\ R!Next \/ UNCHANGED playState
      /\ P!Next \/ UNCHANGED providerState
      /\ L!Next \/ UNCHANGED contentState
      /\ S!Next \/ UNCHANGED lessonState
      /\ F!Next \/ UNCHANGED fileState
  BY DEF GenerativeNext
<1>2. TutorInv'
  BY <1>1, TutorStep, TutorUnmoved DEF GenerativeInv
<1>3. PlayInv'
  BY <1>1, PlayStep, PlayUnmoved DEF GenerativeInv
<1>4. ProvidersInv'
  BY <1>1, ProvidersStep, ProvidersUnmoved DEF GenerativeInv
<1>5. ContentInv'
  BY <1>1, ContentStep, ContentUnmoved DEF GenerativeInv
<1>6. LessonInv'
  BY <1>1, LessonStep, LessonUnmoved DEF GenerativeInv
<1>7. FilesInv'
  BY <1>1, FilesStep, FilesUnmoved DEF GenerativeInv
<1> QED
  BY <1>2, <1>3, <1>4, <1>5, <1>6, <1>7 DEF GenerativeInv

LEMMA GenerativeInvariant == GenerativeSpec => []GenerativeInv
<1>1. GenerativeInit => GenerativeInv
  BY TutorInit, PlayInit, ProvidersInit, ContentInit, LessonInit, FilesInit
     DEF GenerativeInit, GenerativeInv
<1>2. GenerativeInv /\ [GenerativeNext]_<<part, tutorState, playState, providerState,
                                          contentState, lessonState, fileState>>
        => GenerativeInv'
  BY GenerativeStep
<1> QED
  BY <1>1, <1>2, PTL DEF GenerativeSpec

\* Every part keeps its types, within the bounds that the model names.
THEOREM GenerativeTyped == GenerativeSpec => []GenerativeTypeOK
<1>1. FilesInv => F!TypeOK
  BY DEF FilesInv, FilesTyped, FileRequest, F!TypeOK, F!Contents
<1>2. GenerativeInv => GenerativeTypeOK
  BY <1>1, TutorClaimed, ProvidersClaimed
     DEF GenerativeInv, PlayInv, PlayTyped, ContentInv, LessonInv, GenerativeTypeOK
<1> QED
  BY <1>2, GenerativeInvariant, PTL

\* Unless two requests overlapped, a tutor session holds the last turns made
\* and stays ended; a client turn id sent again makes no second turn, unless
\* the first answer was still under way or its key is gone.
THEOREM TurnsKept == GenerativeSpec => []TurnsAreKept
<1>1. GenerativeInv => TurnsAreKept
  BY TutorClaimed DEF GenerativeInv, TurnsAreKept
<1> QED
  BY <1>1, GenerativeInvariant, PTL

\* Progress in a role play is lost to overlapping messages only, and whatever
\* breaks off, every message has its evaluation and every reply its message.
THEOREM PlayKept == GenerativeSpec => []PlayIsKept
<1>1. GenerativeInv => PlayIsKept
  BY DEF GenerativeInv, PlayInv, PlayIsKept
<1> QED
  BY <1>1, GenerativeInvariant, PTL

\* Whatever the providers answer, each is asked only where its answer can help
\* and a permanent failure ends the turn.
THEOREM TurnsJustified == GenerativeSpec => []TurnsAreJustified
<1>1. GenerativeInv => TurnsAreJustified
  BY ProvidersClaimed DEF GenerativeInv, TurnsAreJustified
<1> QED
  BY <1>1, GenerativeInvariant, PTL

\* The chunks are the transcript in order with only the last one short, the
\* checkpoints spread, the vocabulary has the words wanted or all the transcript
\* has to offer, unless the model named what is no word, and the right option
\* is marked.  A lesson shown as ready has transcript and questions, and words
\* unless the last generation found none; it never mixes two generations but
\* for requests that overlap.
THEOREM ListeningSound == GenerativeSpec => []ListeningIsSound
<1>1. GenerativeInv => ListeningIsSound
  <2>1. ContentInv => L!ContentIsSound
    BY CheckpointsSpread, ChunksHold DEF ContentInv, L!ContentIsSound
  <2> QED
    BY <2>1 DEF GenerativeInv, LessonInv, ListeningIsSound
<1> QED
  BY <1>1, GenerativeInvariant, PTL

\* A row that no client has described by itself names an upload, and describes
\* it unless the file was uploaded again; an upload gets a row unless its
\* request broke off in between.
THEOREM RowsDescribe == GenerativeSpec => []RowsDescribeUploads
<1>1. GenerativeInv => RowsDescribeUploads
  BY DEF GenerativeInv, FilesInv, RowsDescribeUploads
<1> QED
  BY <1>1, GenerativeInvariant, PTL
=============================================================================
