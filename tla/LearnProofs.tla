----------------------------- MODULE LearnProofs -----------------------------
(* The parts of the learn service that MCLearn checks: the notes of a word, *)
(* the words of a dictionary entry, the cache and the submits of a          *)
(* practice, for any number of users, requests, rows and days.              *)
EXTENDS MCLearn, Sequences, StreakProofs

-----------------------------------------------------------------------------
(***************************************************************************)
(* Notes.  A save beyond its note's upsert finds the note there unless a    *)
(* removal has marked it, and one that is about to answer finds progress.   *)
(***************************************************************************)

Saving == {"progress", "track", "answer"}

NotesInv ==
    /\ N!TypeOK /\ N!NotesAreKept
    /\ \A r \in NoteRequests :
         /\ noteReq[r].pc # "idle" => noteReq[r].user \in NoteUsers
         /\ (word /\ noteReq[r].pc \in Saving /\ ~noteReq[r].undone) => note[noteReq[r].user] # "none"
         /\ (word /\ noteReq[r].pc = "answer") => noteReq[r].user \in tracked

LEMMA NotesInit == N!Init => NotesInv
BY DEF N!Init, NotesInv, N!TypeOK, N!NotesAreKept, N!SavedIsTracked, N!TogglesCount, N!Idle, N!Notes, Saving

LEMMA NotesStep == NotesInv /\ [N!Next]_noteState => NotesInv'
<1> SUFFICES ASSUME NotesInv, [N!Next]_noteState PROVE NotesInv'
  OBVIOUS
<1> USE DEF NotesInv, N!TypeOK, N!NotesAreKept, N!SavedIsTracked, N!TogglesCount, N!Notes, Saving
<1>1. CASE UNCHANGED noteState
  BY <1>1 DEF noteState
<1>2. CASE N!RemoveWord
  BY <1>2 DEF N!RemoveWord
<1>3. ASSUME NEW u \in NoteUsers, N!RemoveNote(u) PROVE NotesInv'
  BY <1>3 DEF N!RemoveNote, N!Put
<1>4. ASSUME NEW u \in NoteUsers, NEW n \in {"plain", "favorite"}, N!UpsertNote(u, n) \/ N!UpdateNote(u, n)
      PROVE  NotesInv'
  BY <1>4 DEF N!UpsertNote, N!UpdateNote, N!Put
<1>5. ASSUME NEW r \in NoteRequests, NEW u \in NoteUsers, N!CreateFromDictionary(r, u) \/ N!ReadFavorite(r, u)
      PROVE  NotesInv'
  <2>1. ASSUME NEW pc \in {"note", "toggle"}, NEW read \in N!Notes, N!Arrive(r, u, pc, read),
               UNCHANGED <<word, note, tracked, cards, saved, expected, noteRaced>>
        PROVE  NotesInv'
    <3> DEFINE x == [N!Idle EXCEPT !.pc = pc, !.user = u, !.read = read]
    <3>1. noteReq' = [noteReq EXCEPT ![r] = x]
      BY <2>1 DEF N!Arrive
    <3>2. /\ x \in [pc : {"note", "toggle"}, user : NoteUsers, read : N!Notes, undone : BOOLEAN]
          /\ x.pc = pc /\ x.user = u
      BY DEF N!Idle
    <3> HIDE DEF x
    <3> QED
      BY <2>1, <3>1, <3>2
  <2>2. CASE N!CreateFromDictionary(r, u)
    BY <2>1, <2>2 DEF N!CreateFromDictionary
  <2>3. CASE N!ReadFavorite(r, u)
    BY <2>1, <2>3 DEF N!ReadFavorite
  <2> QED
    BY <1>5, <2>2, <2>3
<1>6. ASSUME NEW r \in NoteRequests, N!UpsertOwnNote(r) PROVE NotesInv'
  <2> DEFINE u == noteReq[r].user
  <2>1. noteReq[r].pc = "note" /\ u \in NoteUsers /\ UNCHANGED <<word, tracked, cards, saved>>
    BY <1>6 DEF N!UpsertOwnNote
  <2>2. CASE word
    <3>1. PICK n \in {"plain", "favorite"} :
            /\ note' = [note EXCEPT ![u] = n] /\ expected' = [expected EXCEPT ![u] = n]
            /\ noteRaced' = noteRaced \ {u}
      BY <1>6, <2>2 DEF N!UpsertOwnNote, N!Put
    <3>2. noteReq' = [noteReq EXCEPT ![r].pc = "progress", ![r].read = note[u]]
      BY <1>6, <2>2 DEF N!UpsertOwnNote
    <3>3. N!TypeOK'
      <4>1. note' \in [NoteUsers -> N!Notes] /\ expected' \in [NoteUsers -> N!Notes]
        BY <3>1
      <4>2. /\ word' \in BOOLEAN /\ tracked' \subseteq NoteUsers /\ cards' \subseteq NoteUsers
            /\ saved' \subseteq NoteUsers /\ noteRaced' \subseteq NoteUsers
        BY <2>1, <3>1
      <4>3. note[u] \in N!Notes
        BY <2>1
      <4>4. noteReq' \in [NoteRequests -> [pc : {"idle", "note", "progress", "track", "answer", "toggle"},
                                           user : NoteUsers \union {"none"}, read : N!Notes,
                                           undone : BOOLEAN]]
        <5> DEFINE Request == [pc : {"idle", "note", "progress", "track", "answer", "toggle"},
                               user : NoteUsers \union {"none"}, read : N!Notes, undone : BOOLEAN]
        <5>1. PICK x : x = [noteReq[r] EXCEPT !.pc = "progress", !.read = note[u]]
          OBVIOUS
        <5>2. noteReq \in [NoteRequests -> Request] /\ noteReq[r] \in Request
          OBVIOUS
        <5>3. x \in Request
          BY <4>3, <5>1, <5>2
        <5>4. noteReq' = [noteReq EXCEPT ![r] = x]
          BY <3>2, <5>1
        <5> HIDE DEF Request, NotesInv, N!TypeOK, N!NotesAreKept
        <5>5. noteReq' \in [NoteRequests -> Request]
          BY <5>2, <5>3, <5>4
        <5> QED
          BY <5>5 DEF Request
      <4> QED
        BY <4>1, <4>2, <4>4
    <3>4. ASSUME NEW q \in NoteRequests
          PROVE  /\ noteReq'[q].pc # "idle" => noteReq'[q].user \in NoteUsers
                 /\ (word' /\ noteReq'[q].pc \in Saving /\ ~noteReq'[q].undone)
                       => note'[noteReq'[q].user] # "none"
                 /\ (word' /\ noteReq'[q].pc = "answer") => noteReq'[q].user \in tracked'
      <4>1. CASE q = r
        BY <2>1, <3>1, <3>2, <4>1
      <4>2. CASE q # r
        BY <2>1, <3>1, <3>2, <4>2
      <4> QED
        BY <4>1, <4>2
    <3>5. N!NotesAreKept'
      BY <2>1, <3>1
    <3> QED
      BY <3>3, <3>4, <3>5
  <2>3. CASE ~word
    <3>1. noteReq' = [noteReq EXCEPT ![r] = N!Idle] /\ UNCHANGED <<note, expected, noteRaced>>
      BY <1>6, <2>3 DEF N!UpsertOwnNote, N!Drop
    <3> QED
      BY <2>1, <2>3, <3>1 DEF N!Idle
  <2> QED
    BY <2>2, <2>3
<1>7. ASSUME NEW r \in NoteRequests, N!FindProgress(r) PROVE NotesInv'
  BY <1>7 DEF N!FindProgress, N!NeedsProgress, N!Goto
<1>8. ASSUME NEW r \in NoteRequests, N!Track(r) PROVE NotesInv'
  <2> DEFINE u == noteReq[r].user
  <2>1. /\ noteReq[r].pc = "track" /\ u \in NoteUsers
        /\ UNCHANGED <<word, note, cards, saved, expected, noteRaced>>
    BY <1>8 DEF N!Track
  <2>2. CASE word /\ u \notin tracked
    <3>1. tracked' = tracked \union {u} /\ noteReq' = [noteReq EXCEPT ![r].pc = "answer"]
      BY <1>8, <2>2 DEF N!Track, N!Goto
    <3> QED
      BY <2>1, <3>1
  <2>3. CASE ~(word /\ u \notin tracked)
    <3>1. tracked' = tracked /\ noteReq' = [noteReq EXCEPT ![r] = N!Idle]
      BY <1>8, <2>3 DEF N!Track, N!Drop
    <3> QED
      BY <2>1, <3>1 DEF N!Idle
  <2> QED
    BY <2>2, <2>3
<1>9. ASSUME NEW r \in NoteRequests, N!Answer(r) PROVE NotesInv'
  BY <1>9 DEF N!Answer, N!Drop, N!Idle
<1>10. ASSUME NEW r \in NoteRequests, N!WriteFavorite(r) PROVE NotesInv'
  BY <1>10 DEF N!WriteFavorite, N!Negated, N!Drop, N!Idle
<1>11. ASSUME NEW r \in NoteRequests, N!Fail(r) PROVE NotesInv'
  BY <1>11 DEF N!Fail, N!Drop, N!Idle
<1> QED
  BY <1>1, <1>2, <1>3, <1>4, <1>5, <1>6, <1>7, <1>8, <1>9, <1>10, <1>11 DEF N!Next

-----------------------------------------------------------------------------
(***************************************************************************)
(* Words.  As long as no other write came between, a request that looks for *)
(* a word of the entry, to save it, knows of every row that carries the id, *)
(* and holds the row it is about to update as it is.                        *)
(***************************************************************************)

Looking == {"similar", "insert", "update"}

SaveRequest ==
    [op : {"none", "save", "sync"}, pc : Looking \union {"idle", "audio", "done"},
     id : Words \union {"none"}, external : BOOLEAN, alone : BOOLEAN,
     read : [exists : BOOLEAN, external : BOOLEAN, audio : {"none", "source", "stored"}]]

Carries(w) == row[w].exists /\ row[w].external

KnowsRows(q) ==
    /\ q.pc \in {"similar", "insert"} => q.id = "none"
    /\ (q.pc \in Looking /\ q.alone /\ q.external /\ ~duplicated) => \A v \in Words : Carries(v) => v = q.id
    /\ (q.pc = "update" /\ q.alone /\ q.id # "none") => row[q.id] = q.read

WordsInv ==
    /\ row \in [Words -> [exists : BOOLEAN, external : BOOLEAN, audio : {"none", "source", "stored"}]]
    /\ duplicated \in BOOLEAN
    /\ saveReq \in [Requests -> SaveRequest]
    /\ duplicated \/ \A v, w \in Words : Carries(v) /\ Carries(w) => v = w
    /\ \A r \in Requests : KnowsRows(saveReq[r])

LEMMA WordsInit == D!Init => WordsInv
<1>1. D!Idle \in SaveRequest /\ D!Idle.pc = "idle"
  BY DEF D!Idle, D!NoWord, SaveRequest
<1>2. /\ D!NoWord \in [exists : BOOLEAN, external : BOOLEAN, audio : {"none", "source", "stored"}]
      /\ ~D!NoWord.exists
  BY DEF D!NoWord
<1> QED
  BY <1>1, <1>2 DEF D!Init, WordsInv, Looking, Carries, KnowsRows

LEMMA WordsClaimed == WordsInv => D!TypeOK /\ D!OneWordPerEntry
BY DEF WordsInv, SaveRequest, Carries, D!TypeOK, D!OneWordPerEntry, D!Rows

\* A request begins to look, goes on without a write, or ends.
LEMMA WordsSlot ==
    ASSUME WordsInv, NEW r \in Requests, NEW q \in SaveRequest, KnowsRows(q),
           saveReq' = [saveReq EXCEPT ![r] = q], UNCHANGED <<row, duplicated>>
    PROVE  WordsInv'
BY DEF WordsInv, KnowsRows, Carries

LEMMA WordsIdle == D!Idle \in SaveRequest /\ KnowsRows(D!Idle)
BY DEF D!Idle, D!NoWord, SaveRequest, KnowsRows, Looking

LEMMA WordsWrite ==
    ASSUME WordsInv, NEW r \in Requests, NEW w \in Words, NEW pc \in {"audio", "done"},
           NEW x \in [exists : BOOLEAN, external : BOOLEAN, audio : {"none", "source", "stored"}],
           D!Write(r, w, x, pc), duplicated' \in BOOLEAN, duplicated => duplicated',
           duplicated' \/ ~(x.exists /\ x.external) \/ Carries(w) \/ \A v \in Words : ~Carries(v)
    PROVE  WordsInv'
<1>1. row' = [row EXCEPT ![w] = x]
  BY DEF D!Write
<1>2. ASSUME NEW o \in Requests
      PROVE  saveReq'[o] \in SaveRequest /\ KnowsRows(saveReq[o])'
  <2>1. CASE o = r
    <3>1. saveReq'[o] = [saveReq[r] EXCEPT !.pc = pc, !.id = w, !.read = x]
      BY <2>1 DEF D!Write
    <3>2. saveReq[r] \in SaveRequest
      BY DEF WordsInv
    <3> QED
      BY <3>1, <3>2 DEF SaveRequest, KnowsRows, Looking
  <2>2. CASE o # r /\ (saveReq[o].pc \in Looking \/ saveReq[o].id = w)
    <3>1. saveReq'[o] = [saveReq[o] EXCEPT !.alone = FALSE]
      BY <2>2 DEF D!Write, Looking
    <3>2. saveReq[o] \in SaveRequest /\ KnowsRows(saveReq[o])
      BY DEF WordsInv
    <3> QED
      BY <3>1, <3>2 DEF SaveRequest, KnowsRows
  <2>3. CASE o # r /\ ~(saveReq[o].pc \in Looking \/ saveReq[o].id = w)
    <3>1. saveReq'[o] = saveReq[o]
      BY <2>3 DEF D!Write, Looking
    <3>2. saveReq[o] \in SaveRequest
      BY DEF WordsInv
    <3> QED
      BY <2>3, <3>1, <3>2 DEF KnowsRows, Looking
  <2> QED
    BY <2>1, <2>2, <2>3
<1>3. saveReq' \in [Requests -> SaveRequest]
  BY <1>2 DEF D!Write
<1>4. duplicated' \/ \A u, v \in Words : Carries(u)' /\ Carries(v)' => u = v
  BY <1>1 DEF WordsInv, Carries
<1> QED
  BY <1>1, <1>2, <1>3, <1>4 DEF WordsInv

LEMMA WordsStep == WordsInv /\ [D!Next]_wordState => WordsInv'
<1> SUFFICES ASSUME WordsInv, [D!Next]_wordState PROVE WordsInv'
  OBVIOUS
<1>1. CASE UNCHANGED wordState
  BY <1>1 DEF wordState, WordsInv, KnowsRows, Carries
<1> DEFINE Row == [exists : BOOLEAN, external : BOOLEAN, audio : {"none", "source", "stored"}]
<1> row \in [Words -> Row] /\ saveReq \in [Requests -> SaveRequest] /\ duplicated \in BOOLEAN
  BY DEF WordsInv
<1>2. ASSUME NEW w \in Words, D!RemoveWord(w) PROVE WordsInv'
  <2>1. row' = [row EXCEPT ![w] = D!NoWord] /\ UNCHANGED duplicated /\ D!NoWord \in Row /\ ~D!NoWord.exists
    BY <1>2 DEF D!RemoveWord, D!NoWord
  <2>2. ASSUME NEW r \in Requests
        PROVE  saveReq'[r] \in SaveRequest /\ KnowsRows(saveReq[r])'
    <3>1. KnowsRows(saveReq[r]) /\ saveReq[r] \in SaveRequest
      BY DEF WordsInv
    <3>2. CASE saveReq[r].id = w
      <4>1. saveReq'[r] = [saveReq[r] EXCEPT !.id = "none"]
        BY <1>2, <3>2 DEF D!RemoveWord
      <4> QED
        BY <2>1, <3>1, <3>2, <4>1 DEF SaveRequest, KnowsRows, Carries
    <3>3. CASE saveReq[r].id # w
      <4>1. saveReq'[r] = saveReq[r]
        BY <1>2, <3>3 DEF D!RemoveWord
      <4> QED
        BY <2>1, <3>1, <3>3, <4>1 DEF SaveRequest, KnowsRows, Carries
    <3> QED
      BY <3>2, <3>3
  <2>3. saveReq' \in [Requests -> SaveRequest]
    BY <1>2, <2>2 DEF D!RemoveWord
  <2>4. duplicated' \/ \A v, u \in Words : Carries(v)' /\ Carries(u)' => v = u
    BY <2>1 DEF WordsInv, Carries
  <2> HIDE DEF Row
  <2> QED
    BY <2>1, <2>2, <2>3, <2>4 DEF WordsInv, Row
<1>3. ASSUME NEW r \in Requests, NEW external \in BOOLEAN, D!CreateFromDictionary(r, external) PROVE WordsInv'
  <2>1. PICK w \in D!ByExternalId \union {"none"} :
          /\ w = "none" <=> (D!ByExternalId = {} \/ ~external)
          /\ saveReq' = [saveReq EXCEPT ![r] =
               IF w = "none" THEN [D!Idle EXCEPT !.op = "save", !.pc = "similar", !.external = external]
               ELSE [D!Idle EXCEPT !.op = "save", !.pc = "update", !.external = external, !.id = w, !.read = row[w]]]
    BY <1>3 DEF D!CreateFromDictionary
  <2>2. UNCHANGED <<row, duplicated>>
    BY <1>3 DEF D!CreateFromDictionary
  <2>3. \A v \in Words : Carries(v) <=> v \in D!ByExternalId
    BY DEF Carries, D!ByExternalId, D!Rows
  <2>4. CASE w = "none"
    <3> DEFINE q == [D!Idle EXCEPT !.op = "save", !.pc = "similar", !.external = external]
    <3>1. q \in SaveRequest /\ KnowsRows(q)
      BY <2>1, <2>3, <2>4 DEF D!Idle, D!NoWord, SaveRequest, KnowsRows, Looking
    <3>2. saveReq' = [saveReq EXCEPT ![r] = q]
      BY <2>1, <2>4
    <3> HIDE DEF q
    <3> QED
      BY <2>2, <3>1, <3>2, WordsSlot
  <2>5. CASE w # "none"
    <3> DEFINE q == [D!Idle EXCEPT !.op = "save", !.pc = "update", !.external = external, !.id = w, !.read = row[w]]
    <3>1. w \in Words /\ Carries(w)
      BY <2>1, <2>5 DEF Carries, D!ByExternalId, D!Rows
    <3>2. q \in SaveRequest /\ q.id = w /\ q.read = row[w] /\ q.pc = "update"
      BY <3>1 DEF D!Idle, D!NoWord, SaveRequest, Looking
    <3>3. KnowsRows(q)
      BY <3>1, <3>2 DEF WordsInv, KnowsRows
    <3>4. saveReq' = [saveReq EXCEPT ![r] = q]
      BY <2>1, <2>5
    <3> HIDE DEF q
    <3> QED
      BY <2>2, <3>2, <3>3, <3>4, WordsSlot
  <2> QED
    BY <2>4, <2>5
<1>4. ASSUME NEW r \in Requests, D!Goto(r, "insert"), saveReq[r].pc = "similar", UNCHANGED <<row, duplicated>>
      PROVE  WordsInv'
  <2> DEFINE q == [saveReq[r] EXCEPT !.pc = "insert"]
  <2>1. q \in SaveRequest /\ KnowsRows(q)
    BY <1>4 DEF WordsInv, SaveRequest, KnowsRows, Looking
  <2>2. saveReq' = [saveReq EXCEPT ![r] = q]
    BY <1>4 DEF D!Goto
  <2> HIDE DEF q
  <2> QED
    BY <1>4, <2>1, <2>2, WordsSlot
<1>5. ASSUME NEW r \in Requests, D!FindDuplicate(r) PROVE WordsInv'
  <2>1. saveReq[r].pc = "similar" /\ UNCHANGED <<row, duplicated>>
    BY <1>5 DEF D!FindDuplicate
  <2>2. ASSUME NEW w \in D!Rows, D!Hold(r, w) PROVE WordsInv'
    <3> DEFINE q == [saveReq[r] EXCEPT !.pc = "update", !.id = w, !.read = row[w]]
    <3>1. w \in Words
      BY DEF D!Rows
    <3>2. KnowsRows(saveReq[r]) /\ saveReq[r].id = "none"
      BY <2>1 DEF WordsInv, KnowsRows
    <3>3. q \in SaveRequest /\ KnowsRows(q)
      BY <2>1, <3>1, <3>2, LearnAssumption DEF SaveRequest, KnowsRows, Looking
    <3>4. saveReq' = [saveReq EXCEPT ![r] = q]
      BY <2>2 DEF D!Hold
    <3> HIDE DEF q
    <3> QED
      BY <2>1, <3>3, <3>4, WordsSlot
  <2> QED
    BY <1>4, <1>5, <2>1, <2>2 DEF D!FindDuplicate
<1>6. ASSUME NEW r \in Requests, D!Insert(r) PROVE WordsInv'
  <2>1. PICK w \in Words \ D!Rows, audio \in {"none", "source"} :
          /\ D!Write(r, w, [exists |-> TRUE, external |-> saveReq[r].external, audio |-> audio],
                     IF saveReq[r].op = "save" THEN "audio" ELSE "done")
          /\ IF saveReq[r].external THEN D!Given(r, w) ELSE UNCHANGED duplicated
    BY <1>6 DEF D!Insert
  <2>2. KnowsRows(saveReq[r]) /\ saveReq[r].pc = "insert" /\ saveReq[r] \in SaveRequest
    BY <1>6 DEF D!Insert, WordsInv
  <2>3. duplicated' \in BOOLEAN /\ (duplicated => duplicated')
    BY <2>1 DEF D!Given
  <2>4. duplicated' \/ ~saveReq[r].external \/ \A v \in Words : ~Carries(v)
    <3> SUFFICES ASSUME saveReq[r].external, ~duplicated', NEW v \in Words, Carries(v) PROVE FALSE
      OBVIOUS
    <3>1. v \in D!Rows \ {w}
      BY DEF Carries, D!Rows
    <3>2. saveReq[r].alone
      BY <2>1, <3>1 DEF D!Given, Carries
    <3> QED
      BY <2>2, <2>3, <3>2, LearnAssumption DEF KnowsRows, Looking
  <2> DEFINE x == [exists |-> TRUE, external |-> saveReq[r].external, audio |-> audio]
             pc == IF saveReq[r].op = "save" THEN "audio" ELSE "done"
  <2>5. x \in Row /\ x.external = saveReq[r].external /\ pc \in {"audio", "done"} /\ D!Write(r, w, x, pc)
    BY <2>1, <2>2 DEF SaveRequest
  <2> HIDE DEF x, pc
  <2> QED
    BY <2>3, <2>4, <2>5, WordsWrite
<1>7. ASSUME NEW r \in Requests, D!Update(r) PROVE WordsInv'
  <2> DEFINE w == saveReq[r].id
             external == saveReq[r].read.external \/ saveReq[r].external
             x == [row[w] EXCEPT !.external = external]
  <2>1. KnowsRows(saveReq[r]) /\ saveReq[r].pc = "update" /\ saveReq[r] \in SaveRequest
    BY <1>7 DEF D!Update, WordsInv
  <2>2. CASE w = "none"
    BY <1>7, <2>2, WordsSlot, WordsIdle DEF D!Update, D!Live, D!Drop
  <2>3. CASE w # "none"
    <3>1. w \in Words /\ external \in BOOLEAN /\ x \in Row /\ x.external = external /\ x.exists = row[w].exists
      BY <2>1, <2>3 DEF SaveRequest
    <3>2. D!Write(r, w, x, "audio") /\ IF external /\ ~row[w].external THEN D!Given(r, w) ELSE UNCHANGED duplicated
      BY <1>7, <2>3 DEF D!Update, D!Live
    <3>3. duplicated' \in BOOLEAN /\ (duplicated => duplicated')
      BY <3>2 DEF D!Given
    <3>4. duplicated' \/ ~(x.exists /\ x.external) \/ Carries(w) \/ \A v \in Words : ~Carries(v)
      <4> SUFFICES ASSUME ~duplicated', x.exists, external, ~Carries(w), NEW v \in Words, Carries(v) PROVE FALSE
        BY <3>1
      <4>1. ~row[w].external /\ v \in D!Rows \ {w}
        BY <3>1 DEF Carries, D!Rows
      <4>2. saveReq[r].alone
        BY <3>2, <4>1 DEF D!Given, Carries
      <4>3. saveReq[r].external
        BY <2>1, <2>3, <4>1, <4>2 DEF KnowsRows
      <4> QED
        BY <2>1, <3>3, <4>1, <4>2, <4>3 DEF KnowsRows, Looking
    <3> HIDE DEF x, external
    <3> QED
      BY <3>1, <3>2, <3>3, <3>4, WordsWrite
  <2> QED
    BY <2>2, <2>3
<1>8. ASSUME NEW r \in Requests, D!UpdateAudio(r) PROVE WordsInv'
  <2> DEFINE w == saveReq[r].id
  <2>1. UNCHANGED duplicated /\ saveReq[r] \in SaveRequest
    BY <1>8 DEF D!UpdateAudio
  <2>2. CASE w = "none"
    BY <1>8, <2>2, WordsSlot, WordsIdle DEF D!UpdateAudio, D!UpsertWordExamples, D!Live, D!Drop
  <2>3. CASE w # "none"
    <3>1. PICK audio \in D!SyncWordAudios(r) : D!Write(r, w, [row[w] EXCEPT !.audio = audio], "done")
      BY <1>8, <2>3 DEF D!UpdateAudio, D!UpsertWordExamples, D!Live
    <3> DEFINE x == [row[w] EXCEPT !.audio = audio]
    <3>2. w \in Words /\ audio \in {"none", "source", "stored"}
      BY <2>1, <2>3 DEF SaveRequest, D!SyncWordAudios, D!Fallback
    <3>3. x \in Row /\ x.external = row[w].external /\ x.exists = row[w].exists
      BY <3>2
    <3> HIDE DEF x
    <3> QED
      BY <2>1, <3>1, <3>2, <3>3, WordsWrite DEF Carries, x
  <2> QED
    BY <2>2, <2>3
<1>9. ASSUME NEW r \in Requests, D!SyncWords(r) PROVE WordsInv'
  <2>1. UNCHANGED <<row, duplicated>>
    BY <1>9 DEF D!SyncWords
  <2>2. CASE D!ByExternalId = {} /\ saveReq' = [saveReq EXCEPT ![r] =
               [D!Idle EXCEPT !.op = "sync", !.pc = "similar", !.external = TRUE]]
    <3> DEFINE q == [D!Idle EXCEPT !.op = "sync", !.pc = "similar", !.external = TRUE]
    <3>1. q \in SaveRequest /\ KnowsRows(q)
      BY <2>2 DEF D!Idle, D!NoWord, D!ByExternalId, D!Rows, SaveRequest, KnowsRows, Looking, Carries
    <3> HIDE DEF q
    <3> QED
      BY <2>1, <2>2, <3>1, WordsSlot DEF q
  <2> QED
    BY <1>4, <1>9, <2>1, <2>2, WordsSlot, WordsIdle DEF D!SyncWords, D!Drop
<1>10. ASSUME NEW r \in Requests, D!Leave(r) PROVE WordsInv'
  BY <1>10, WordsSlot, WordsIdle DEF D!Leave, D!Drop
<1> QED
  BY <1>1, <1>2, <1>3, <1>5, <1>6, <1>7, <1>8, <1>9, <1>10 DEF D!Next

-----------------------------------------------------------------------------
(***************************************************************************)
(* Submits of a practice.  A submit is under way or answered, never both;   *)
(* one that is about to store its session has a review no session is for;   *)
(* and every review belongs to one of the tries.                            *)
(***************************************************************************)

Justified(c) ==
    /\ kept[c] <= reviewed[c]
    /\ reviewed[c] = unheard[c] + IF answered[c] \/ Holding(c) THEN 1 ELSE 0
    /\ answered[c] => submit[c] \in {"none", "elsewhere"}
    /\ submit[c] = "session" => kept[c] < reviewed[c]
    /\ reviewed[c] + (IF submit[c] = "review" THEN 1 ELSE 0) <= tries[c]

SubmitsInv ==
    /\ submit \in [Calls -> Stages] /\ answered \in [Calls -> BOOLEAN]
    /\ tries \in [Calls -> 0..MaxTries] /\ reviewed \in [Calls -> Nat]
    /\ kept \in [Calls -> Nat] /\ unheard \in [Calls -> Nat]
    /\ \A c \in Calls : Justified(c)

PracticeInv == ExactInv /\ SubmitsInv

LEMMA PracticeStarts == PracticeInit => PracticeInv
BY ExactInit, PracticeAssumption DEF PracticeInit, PracticeInv, SubmitsInv, Justified, Holding, Stages

LEMMA PracticeClaimed == PracticeInv => PracticeTypeOK /\ ReviewsExplained
<1> SUFFICES ASSUME PracticeInv PROVE PracticeTypeOK /\ ReviewsExplained
  OBVIOUS
<1>1. ASSUME NEW c \in Calls
      PROVE  reviewed[c] \in 0..MaxTries /\ kept[c] \in 0..MaxTries /\ unheard[c] \in 0..MaxTries
  BY PracticeAssumption DEF PracticeInv, SubmitsInv, Justified
<1>2. PracticeTypeOK
  BY <1>1 DEF PracticeInv, SubmitsInv, ExactInv, StreakInv, PracticeTypeOK
<1>3. ReviewsExplained
  BY DEF PracticeInv, SubmitsInv, Justified, ReviewsExplained
<1> QED
  BY <1>2, <1>3

\* A step of the request of c, whatever it does to the streak.
LEMMA SubmitStep ==
    ASSUME SubmitsInv, NEW c \in Calls, NEW stage \in Stages, Goto(c, stage),
           \A d \in Calls \ {c} : /\ tries'[d] = tries[d] /\ reviewed'[d] = reviewed[d] /\ kept'[d] = kept[d]
                                  /\ answered'[d] = answered[d] /\ unheard'[d] = unheard[d],
           tries' \in [Calls -> 0..MaxTries], reviewed' \in [Calls -> Nat], kept' \in [Calls -> Nat],
           answered' \in [Calls -> BOOLEAN], unheard' \in [Calls -> Nat], Justified(c)'
    PROVE  SubmitsInv'
<1>1. submit' = [submit EXCEPT ![c] = stage] /\ submit \in [Calls -> Stages]
  BY DEF Goto, SubmitsInv
<1>2. ASSUME NEW d \in Calls \ {c} PROVE Justified(d)'
  BY <1>1 DEF SubmitsInv, Justified, Holding
<1> QED
  BY <1>1, <1>2 DEF SubmitsInv

LEMMA RestartStep == PracticeInv /\ Restart => PracticeInv'
<1> SUFFICES ASSUME PracticeInv, Restart PROVE PracticeInv'
  OBVIOUS
<1>1. /\ UNCHANGED <<streak, day, recorded, raced, tries, kept, answered>>
      /\ call' = [c \in Calls |-> Idle] /\ submit' = [c \in Calls |-> "none"]
  BY DEF Restart
<1>2. StreakInv'
  <2>1. Covered(streak)' /\ Covered(Idle.read)'
    BY <1>1, IdleTyped DEF PracticeInv, ExactInv, StreakInv, Covered
  <2> QED
    BY <1>1, <2>1, IdleTyped DEF PracticeInv, ExactInv, StreakInv, TypeOK
<1>3. ExactInv'
  BY <1>1, <1>2, IdleTyped DEF PracticeInv, ExactInv, Exact
<1>4. PICK committed \in SUBSET {c \in Calls : submit[c] = "review"} :
        /\ reviewed' = [c \in Calls |-> reviewed[c] + IF c \in committed THEN 1 ELSE 0]
        /\ unheard' = [c \in Calls |-> unheard[c] +
             IF c \in committed \/ submit[c] \in {"session", "streak", "recording", "answer"} THEN 1 ELSE 0]
  BY DEF Restart
<1>5. reviewed' \in [Calls -> Nat] /\ unheard' \in [Calls -> Nat]
  BY <1>4 DEF PracticeInv, SubmitsInv
<1>6. ASSUME NEW c \in Calls PROVE Justified(c)'
  BY <1>1, <1>4 DEF PracticeInv, SubmitsInv, Justified, Holding
<1>7. SubmitsInv'
  BY <1>1, <1>5, <1>6 DEF PracticeInv, SubmitsInv, Stages
<1> QED
  BY <1>3, <1>7 DEF PracticeInv

LEMMA PracticeStep == PracticeInv /\ [PracticeNext]_practiceState => PracticeInv'
<1> SUFFICES ASSUME PracticeInv, [PracticeNext]_practiceState PROVE PracticeInv'
  OBVIOUS
<1>1. ASSUME UNCHANGED practiceVars PROVE SubmitsInv'
  BY <1>1 DEF practiceVars, PracticeInv, SubmitsInv, Justified, Holding
<1>2. ASSUME [Next]_vars, SubmitsInv' PROVE PracticeInv'
  BY <1>2, ExactStep DEF PracticeInv
<1>3. CASE UNCHANGED practiceState
  BY <1>1, <1>2, <1>3 DEF practiceState
<1>4. CASE Midnight /\ UNCHANGED practiceVars
  BY <1>1, <1>2, <1>4 DEF Next
<1>. SubmitsInv
  BY DEF PracticeInv
<1>5. ASSUME NEW c \in Calls, Submit(c) PROVE PracticeInv'
  <2>1. /\ Goto(c, "review") /\ UNCHANGED <<reviewed, kept, answered, unheard, vars>>
        /\ tries' = [tries EXCEPT ![c] = @ + 1]
    BY <1>5 DEF Submit
  <2>2. tries' \in [Calls -> 0..MaxTries]
    BY <1>5, <2>1, PracticeAssumption DEF Submit, SubmitsInv
  <2>3. Justified(c)'
    BY <1>5, <2>1, PracticeAssumption DEF Submit, SubmitsInv, Justified, Holding, Goto
  <2>4. SubmitsInv'
    BY <2>1, <2>2, <2>3, SubmitStep DEF SubmitsInv, Stages
  <2> QED
    BY <1>2, <2>1, <2>4
<1>6. ASSUME NEW c \in Calls, BulkReview(c) PROVE PracticeInv'
  <2>1. PICK ok \in BOOLEAN, heard \in BOOLEAN :
          /\ Goto(c, IF ~heard \/ ~ok THEN "none" ELSE "session")
          /\ reviewed' = [reviewed EXCEPT ![c] = IF ok THEN @ + 1 ELSE @]
          /\ unheard' = [unheard EXCEPT ![c] = IF ok /\ ~heard THEN @ + 1 ELSE @]
    BY <1>6 DEF BulkReview, Refused
  <2>2. submit[c] = "review" /\ UNCHANGED <<tries, kept, answered, vars>>
    BY <1>6 DEF BulkReview
  <2>3. reviewed' \in [Calls -> Nat] /\ unheard' \in [Calls -> Nat]
    BY <2>1 DEF SubmitsInv
  <2>4. Justified(c)'
    BY <2>1, <2>2, <2>3 DEF SubmitsInv, Justified, Holding, Goto
  <2>5. PICK stage \in Stages : Goto(c, stage)
    BY <2>1 DEF Stages
  <2>6. SubmitsInv'
    BY <2>1, <2>2, <2>3, <2>4, <2>5, SubmitStep DEF SubmitsInv
  <2> QED
    BY <1>2, <2>2, <2>6
<1>7. ASSUME NEW c \in Calls, CreatePracticeSession(c) PROVE PracticeInv'
  <2>1. PICK stored \in {0, 1} : kept' = [kept EXCEPT ![c] = @ + stored]
    BY <1>7 DEF CreatePracticeSession
  <2>2. /\ submit[c] = "session" /\ Goto(c, "streak") /\ UNCHANGED <<tries, reviewed, answered, unheard, vars>>
        /\ kept' \in [Calls -> Nat]
    BY <1>7, <2>1 DEF CreatePracticeSession, SubmitsInv
  <2>3. Justified(c)'
    BY <2>1, <2>2 DEF SubmitsInv, Justified, Holding, Goto
  <2>4. SubmitsInv'
    BY <2>1, <2>2, <2>3, SubmitStep DEF SubmitsInv, Stages
  <2> QED
    BY <1>2, <2>2, <2>4
\* Only the place of the request changes.
<1>8. ASSUME NEW c \in Calls, NEW stage \in Stages, Goto(c, stage), [Next]_vars,
             UNCHANGED <<tries, reviewed, kept, answered, unheard>>, Justified(c)'
      PROVE  PracticeInv'
  <2>1. SubmitsInv'
    BY <1>8, SubmitStep DEF SubmitsInv
  <2> QED
    BY <1>2, <1>8, <2>1
<1>9. ASSUME NEW c \in Calls, RecordActivity(c) PROVE PracticeInv'
  <2>1. submit[c] = "streak" /\ Goto(c, "recording") /\ UNCHANGED <<tries, reviewed, kept, answered, unheard>> /\ Next
    BY <1>9 DEF RecordActivity, Next
  <2>2. Justified(c)'
    BY <2>1 DEF SubmitsInv, Justified, Holding, Goto
  <2> QED
    BY <1>8, <2>1, <2>2 DEF Stages
<1>10. ASSUME NEW c \in Calls, RecordElsewhere(c) PROVE PracticeInv'
  <2>1. submit[c] = "none" /\ Goto(c, "elsewhere") /\ UNCHANGED <<tries, reviewed, kept, answered, unheard>> /\ Next
    BY <1>10 DEF RecordElsewhere, Next
  <2>2. Justified(c)'
    BY <2>1 DEF SubmitsInv, Justified, Holding, Goto
  <2> QED
    BY <1>8, <2>1, <2>2 DEF Stages
<1>11. ASSUME NEW c \in Calls, Recording(c) PROVE PracticeInv'
  <2>1. submit[c] \in {"recording", "elsewhere"} /\ UNCHANGED <<tries, reviewed, kept, answered, unheard>> /\ Next
    BY <1>11 DEF Recording, Next
  <2>2. \/ Goto(c, submit[c])
        \/ submit[c] = "recording" /\ Goto(c, "answer")
        \/ submit[c] = "elsewhere" /\ Goto(c, "none")
    BY <1>11 DEF Recording
  <2>3. PICK stage \in Stages : Goto(c, stage)
    BY <2>1, <2>2 DEF Stages
  <2>4. Justified(c)'
    BY <2>1, <2>2 DEF SubmitsInv, Justified, Holding, Goto
  <2> QED
    BY <1>8, <2>1, <2>3, <2>4
<1>12. ASSUME NEW c \in Calls, Respond(c) PROVE PracticeInv'
  <2>1. /\ submit[c] = "answer" /\ Goto(c, "none") /\ UNCHANGED <<tries, reviewed, kept, vars>>
        /\ \/ answered' = [answered EXCEPT ![c] = TRUE] /\ UNCHANGED unheard
           \/ unheard' = [unheard EXCEPT ![c] = @ + 1] /\ UNCHANGED answered
    BY <1>12 DEF Respond
  <2>2. answered' \in [Calls -> BOOLEAN] /\ unheard' \in [Calls -> Nat]
    <3>1. answered \in [Calls -> BOOLEAN] /\ unheard \in [Calls -> Nat]
      BY DEF SubmitsInv
    <3>2. unheard[c] + 1 \in Nat
      BY <3>1
    <3>3. CASE answered' = [answered EXCEPT ![c] = TRUE] /\ UNCHANGED unheard
      BY <3>1, <3>3
    <3>4. CASE unheard' = [unheard EXCEPT ![c] = @ + 1] /\ UNCHANGED answered
      BY <3>1, <3>2, <3>4
    <3> QED
      BY <2>1, <3>3, <3>4
  <2>3. Justified(c)'
    BY <2>1 DEF SubmitsInv, Justified, Holding, Goto
  <2>4. SubmitsInv'
    BY <2>1, <2>2, <2>3, SubmitStep DEF SubmitsInv, Stages
  <2> QED
    BY <1>2, <2>1, <2>4
<1>13. ASSUME NEW c \in Calls, OpenExercise(c) PROVE PracticeInv'
  <2>1. SubmitsInv'
    BY <1>13, PracticeAssumption DEF OpenExercise, SubmitsInv, Justified, Holding
  <2> QED
    BY <1>2, <1>13, <2>1 DEF OpenExercise
<1> QED
  BY <1>3, <1>4, <1>5, <1>6, <1>7, <1>9, <1>10, <1>11, <1>12, <1>13, RestartStep DEF PracticeNext

-----------------------------------------------------------------------------
(***************************************************************************)
(* The cache.  ScopesThatRead(x) is where entries made from data x are      *)
(* found.  Of every writer, each phase that changes data is followed by one *)
(* that purges these scopes, and that is not skipped.                       *)
(***************************************************************************)

ScopesThatRead(x) ==
    CASE x = "course" -> {"courses", "lessons", "progress"}
      [] x = "lesson" -> {"courses", "lessons", "words", "progress", "practice"}
      [] x = "courseProgress" -> {"courses", "progress"}
      [] x = "lessonProgress" -> {"courses", "lessons", "progress"}
      [] x = "wordLesson" -> {"courses", "lessons", "words"}
      [] x = "word" -> {"lessons", "words", "vocabulary", "progress", "practice"}
      [] x = "note" -> {"vocabulary"}
      [] x \in {"wordProgress", "nextReview"} -> {"progress", "practice"}
      [] x \in {"cards", "session"} -> {"practice"}
      [] x = "streak" -> {"streak"}

LEMMA EndpointsRead ==
    ASSUME NEW e \in C!Endpoints, NEW x \in e.reads
    PROVE  e.scope \in ScopesThatRead(x)
BY DEF C!Endpoints, C!Getter, C!Catalog, C!CoursesFindAll, C!CoursesFindOne, C!LessonsFindAll, C!LessonsFindOne,
       C!WordsFindAll, C!WordsFindOne, C!GetMyNotes, C!GetMyCourses, C!GetMyLessons, C!GetMyWords,
       C!GetProgressStats, C!GetDueWords, C!GetHistory, C!GetRiskCards, C!GetStreak, ScopesThatRead

\* What phase p of a writer for user w changes, and deletes, of the entries of
\* user u that endpoint e made.
Changes(p, w, u, e) == \E x \in e.reads : x \in p.all \/ (u = w /\ x \in p.own)
Deletes(p, w, u, e) == e.scope \in p.purge \/ (u = w /\ e.scope \in p.purgeOwn)

\* A phase from i on, not skipped, deletes what the writer has changed.
Covers(op, i, w, u, e) ==
    \E j \in DOMAIN op :
        /\ j >= i
        /\ Deletes(op[j], w, u, e)
        /\ op[j] = C!RecordActivity => j = i

\* The writers that consist of one phase delete what that phase has changed.
LEMMA SinglePhases ==
    ASSUME NEW op \in {C!CourseCreate, C!CourseUpdate, C!CourseRemove, C!LessonCreate, C!LessonUpdate,
                       C!LessonRemove, C!WordCreate, C!WordUpdate, C!WordRemove, C!StartCourse,
                       <<C!CompleteProgress>>, <<C!RecordActivity>>, C!SyncWords},
           NEW i \in DOMAIN op, NEW w, NEW u, NEW e \in C!Endpoints, Changes(op[i], w, u, e)
    PROVE  Covers(op, i, w, u, e)
<1>1. PICK x \in e.reads : x \in op[i].all \/ (u = w /\ x \in op[i].own)
  BY DEF Changes
<1>2. e.scope \in ScopesThatRead(x)
  BY EndpointsRead
<1> USE <1>1, <1>2 DEF C!Phase, ScopesThatRead, Covers, Deletes
<1>3. CASE op \in {C!CourseCreate, C!CourseUpdate, C!CourseRemove}
  BY <1>3 DEF C!CourseCreate, C!CourseUpdate, C!CourseRemove, C!CoursesScopes
<1>4. CASE op \in {C!LessonCreate, C!LessonUpdate, C!LessonRemove}
  BY <1>4 DEF C!LessonCreate, C!LessonUpdate, C!LessonRemove, C!LessonsScopes
<1>5. CASE op \in {C!WordCreate, C!WordUpdate, C!WordRemove}
  BY <1>5 DEF C!WordCreate, C!WordUpdate, C!WordRemove, C!WordsScopes
<1>6. CASE op \in {C!StartCourse, <<C!CompleteProgress>>}
  BY <1>6 DEF C!StartCourse, C!CompleteProgress, C!ProgressScopes
<1>7. CASE op = <<C!RecordActivity>>
  BY <1>7 DEF C!RecordActivity, C!StreakScopes
<1>8. CASE op = C!SyncWords
  BY <1>8 DEF C!SyncWords, C!DictionaryScopes
<1> QED
  BY <1>3, <1>4, <1>5, <1>6, <1>7, <1>8

\* Those of several phases delete at the end, or at once.
LEMMA SeveralPhases ==
    ASSUME NEW op \in {C!CompleteLesson, C!SubmitFSRS, C!NoteWrite, C!CreateFromDictionary},
           NEW i \in DOMAIN op, NEW w, NEW u, NEW e \in C!Endpoints, Changes(op[i], w, u, e),
           ~C!Uncovered(op, w, u)
    PROVE  Covers(op, i, w, u, e)
<1>1. PICK x \in e.reads : x \in op[i].all \/ (u = w /\ x \in op[i].own)
  BY DEF Changes
<1>2. e.scope \in ScopesThatRead(x)
  BY EndpointsRead
<1>3. CASE op = C!CompleteLesson
  <2>1. /\ DOMAIN op = 1..4 /\ op[1] = C!CompleteProgress /\ op[2] = C!Phase({}, {"cards", "session"}, {}, {})
        /\ op[3] = C!RecordActivity /\ op[4] = C!Phase({}, {}, C!LessonsScopes, {})
    BY <1>3 DEF C!CompleteLesson
  <2>2. op[4] # C!RecordActivity /\ op[1] # C!RecordActivity
    BY <2>1 DEF C!Phase, C!CompleteProgress, C!RecordActivity
  <2>3. CASE i \in {1, 2}
    BY <1>1, <1>2, <2>1, <2>2, <2>3 DEF C!CompleteProgress, C!LessonsScopes, C!Phase, ScopesThatRead, Covers, Deletes
  <2>4. CASE i = 3
    BY <1>1, <1>2, <2>1, <2>4 DEF C!RecordActivity, C!StreakScopes, C!Phase, ScopesThatRead, Covers, Deletes
  <2> QED
    BY <1>1, <2>1, <2>3, <2>4 DEF C!Phase
<1>4. CASE op = C!SubmitFSRS
  <2>1. /\ DOMAIN op = 1..3 /\ op[1] = C!Phase({}, {"cards", "session"}, {}, {})
        /\ op[2] = C!RecordActivity /\ op[3] = C!Phase({}, {}, {"words"}, C!PracticeScopes)
    BY <1>4 DEF C!SubmitFSRS
  <2>2. op[3] # C!RecordActivity
    BY <2>1 DEF C!Phase, C!RecordActivity
  <2>3. CASE i = 1
    BY <1>1, <1>2, <2>1, <2>2, <2>3 DEF C!PracticeScopes, C!Phase, ScopesThatRead, Covers, Deletes
  <2>4. CASE i = 2
    BY <1>1, <1>2, <2>1, <2>4 DEF C!RecordActivity, C!StreakScopes, C!Phase, ScopesThatRead, Covers, Deletes
  <2> QED
    BY <1>1, <2>1, <2>3, <2>4 DEF C!Phase
<1>5. CASE op = C!NoteWrite
  <2>1. /\ DOMAIN op = 1..2 /\ op[1] = C!Phase({}, {"note"}, {}, {}) /\ op[2] = C!VocabularyPurge
    BY <1>5 DEF C!NoteWrite
  <2>2. op[2] # C!RecordActivity
    BY <2>1 DEF C!Phase, C!RecordActivity, C!VocabularyPurge
  <2> QED
    BY <1>1, <1>2, <2>1, <2>2 DEF C!VocabularyPurge, C!VocabularyScopes, C!Phase, ScopesThatRead, Covers, Deletes
<1>6. CASE op = C!CreateFromDictionary
  <2>1. /\ DOMAIN op = 1..3 /\ op[2] = C!RecordActivity /\ op[3] = C!VocabularyPurge
        /\ op[1] = C!Phase({"word"}, {"note", "wordProgress", "nextReview", "session"}, {}, {})
    BY <1>6 DEF C!CreateFromDictionary
  <2>2. op[3] # C!RecordActivity /\ u = w
    BY <1>6, <2>1 DEF C!Phase, C!RecordActivity, C!VocabularyPurge, C!Uncovered
  <2>3. CASE i = 1
    BY <1>1, <1>2, <2>1, <2>2, <2>3 DEF C!VocabularyPurge, C!VocabularyScopes, C!Phase, ScopesThatRead, Covers, Deletes
  <2>4. CASE i = 2
    BY <1>1, <1>2, <2>1, <2>4 DEF C!RecordActivity, C!StreakScopes, C!Phase, ScopesThatRead, Covers, Deletes
  <2> QED
    BY <1>1, <2>1, <2>3, <2>4 DEF C!Phase, C!VocabularyPurge
<1> QED
  BY <1>3, <1>4, <1>5, <1>6

LEMMA WritersCover ==
    ASSUME NEW op \in C!Writers, NEW i \in DOMAIN op, NEW w, NEW u, NEW e \in C!Endpoints,
           Changes(op[i], w, u, e), ~C!Uncovered(op, w, u)
    PROVE  Covers(op, i, w, u, e)
BY SinglePhases, SeveralPhases DEF C!Writers, C!Uncovered

\* A writer at work that will delete u's entry: at a phase to come, or at the
\* present one, that is not skipped any more.
WillDelete(q, u) ==
    /\ q.kind = "write"
    /\ \E j \in DOMAIN q.op :
         /\ j >= q.phase
         /\ Deletes(q.op[j], q.user, u, endpoint)
         /\ q.op[j] = C!RecordActivity => j = q.phase /\ q.wrote

CacheRequest ==
    {C!Idle} \union [kind : {"get"}, user : Users, stale : BOOLEAN]
      \union {q \in [kind : {"write"}, op : C!Writers, user : Users, phase : Nat, wrote : BOOLEAN] :
               q.phase \in DOMAIN q.op}

CacheTyped ==
    /\ endpoint \in C!Endpoints
    /\ entry \in [Users -> {"absent", "fresh", "stale"}]
    /\ excused \in [Users -> BOOLEAN]
    /\ cacheReq \in [Requests -> CacheRequest]

CacheInv ==
    /\ CacheTyped
    /\ \A u \in Users : entry[u] = "stale" /\ ~excused[u] => \E r \in Requests : WillDelete(cacheReq[r], u)

LEMMA CacheInit == C!Init => CacheInv
BY DEF C!Init, CacheInv, CacheTyped, CacheRequest

LEMMA CacheClaimed == CacheInv => C!TypeOK /\ C!StaleIsExplained
<1> SUFFICES ASSUME CacheInv PROVE C!TypeOK /\ C!StaleIsExplained
  OBVIOUS
<1>1. C!StaleIsExplained
  BY DEF CacheInv, WillDelete, C!StaleIsExplained
<1>2. ASSUME NEW r \in Requests
      PROVE  \/ cacheReq[r] = C!Idle
             \/ \E u \in Users, s \in BOOLEAN : cacheReq[r] = C!Reading(u, s)
             \/ \E u \in Users, op \in C!Writers, w \in BOOLEAN :
                  \E i \in DOMAIN op : cacheReq[r] = C!Writing(op, u, i, w)
  <2> DEFINE q == cacheReq[r]
  <2>1. CASE q \in [kind : {"get"}, user : Users, stale : BOOLEAN]
    <3>1. q = C!Reading(q.user, q.stale) /\ q.user \in Users /\ q.stale \in BOOLEAN
      BY <2>1 DEF C!Reading
    <3> QED
      BY <3>1
  <2>2. CASE q \in [kind : {"write"}, op : C!Writers, user : Users, phase : Nat, wrote : BOOLEAN]
             /\ q.phase \in DOMAIN q.op
    <3>1. /\ q = C!Writing(q.op, q.user, q.phase, q.wrote)
          /\ q.user \in Users /\ q.op \in C!Writers /\ q.wrote \in BOOLEAN
      BY <2>2 DEF C!Writing
    <3> QED
      BY <2>2, <3>1
  <2> QED
    BY <2>1, <2>2 DEF CacheInv, CacheTyped, CacheRequest
<1> QED
  BY <1>1, <1>2 DEF CacheInv, CacheTyped, C!TypeOK

LEMMA CacheKinds ==
    ASSUME NEW q \in CacheRequest
    PROVE  /\ q.kind = "get" => q.user \in Users /\ q.stale \in BOOLEAN
           /\ q.kind = "write" => /\ q.op \in C!Writers /\ q.user \in Users /\ q.wrote \in BOOLEAN
                                 /\ q.phase \in DOMAIN q.op /\ q.phase \in Nat
BY DEF CacheRequest, C!Idle

LEMMA WritersAreSequences ==
    ASSUME NEW op \in C!Writers
    PROVE  Len(op) \in Nat /\ DOMAIN op = 1..Len(op) /\ Len(op) >= 1
BY DEF C!Writers, C!CourseCreate, C!CourseUpdate, C!CourseRemove, C!LessonCreate, C!LessonUpdate, C!LessonRemove,
       C!WordCreate, C!WordUpdate, C!WordRemove, C!StartCourse, C!CompleteLesson, C!SubmitFSRS, C!NoteWrite,
       C!CreateFromDictionary, C!SyncWords, C!AdjustNextReview, C!InitFsrsCard

\* A writer that goes on to its next phase keeps what it will delete there.
LEMMA CacheAdvance ==
    ASSUME CacheTyped, NEW r \in Requests, cacheReq[r].kind = "write", C!Advance(r), endpoint' = endpoint
    PROVE  /\ cacheReq' \in [Requests -> CacheRequest]
           /\ \A o \in Requests \ {r} : cacheReq'[o] = cacheReq[o]
           /\ \A u : \A j \in DOMAIN cacheReq[r].op :
                /\ j > cacheReq[r].phase
                /\ Deletes(cacheReq[r].op[j], cacheReq[r].user, u, endpoint)
                /\ cacheReq[r].op[j] # C!RecordActivity
                => WillDelete(cacheReq[r], u)'
<1> DEFINE q == cacheReq[r]
<1>1. /\ q \in CacheRequest /\ q.op \in C!Writers /\ q.user \in Users
      /\ q.phase \in DOMAIN q.op /\ q.phase \in Nat
  BY CacheKinds DEF CacheTyped
<1>2. Len(q.op) \in Nat /\ DOMAIN q.op = 1..Len(q.op)
  BY <1>1, WritersAreSequences
<1> DEFINE n == IF q.phase < Len(q.op) THEN C!Writing(q.op, q.user, q.phase + 1, FALSE) ELSE C!Idle
<1>3. cacheReq' = [cacheReq EXCEPT ![r] = n]
  BY DEF C!Advance
<1>4. n \in CacheRequest
  BY <1>1, <1>2 DEF C!Writing, CacheRequest
<1>5. ASSUME NEW u, NEW j \in DOMAIN q.op, j > q.phase,
             Deletes(q.op[j], q.user, u, endpoint), q.op[j] # C!RecordActivity
      PROVE  WillDelete(cacheReq[r], u)'
  <2>1. cacheReq'[r] = C!Writing(q.op, q.user, q.phase + 1, FALSE)
    <3>1. q.phase < Len(q.op)
      BY <1>1, <1>2, <1>5
    <3>2. cacheReq'[r] = n
      BY <1>3 DEF CacheTyped
    <3> QED
      BY <3>1, <3>2
  <2>2. /\ cacheReq'[r].kind = "write" /\ cacheReq'[r].op = q.op
        /\ cacheReq'[r].phase = q.phase + 1 /\ cacheReq'[r].user = q.user
    BY <2>1 DEF C!Writing
  <2> HIDE DEF q
  <2> QED
    BY <1>1, <1>2, <1>5, <2>2 DEF WillDelete, Deletes
<1> QED
  BY <1>3, <1>4, <1>5 DEF CacheTyped

\* Requests that keep their type, the writers their entries and their place.
LEMMA CacheKept ==
    ASSUME CacheInv, CacheTyped', endpoint' = endpoint,
           \A o \in Requests, u \in Users : WillDelete(cacheReq[o], u) => WillDelete(cacheReq[o], u)',
           \A u \in Users : entry'[u] = "stale" /\ ~excused'[u] => entry[u] = "stale" /\ ~excused[u]
    PROVE  CacheInv'
BY DEF CacheInv

LEMMA CacheWrite ==
    ASSUME CacheInv, NEW r \in Requests, C!Write(r)
    PROVE  CacheInv'
<1> DEFINE q == cacheReq[r]
<1>1. /\ q \in CacheRequest /\ q.kind = "write" /\ q.op \in C!Writers /\ q.user \in Users
      /\ q.phase \in DOMAIN q.op /\ q.phase \in Nat /\ endpoint \in C!Endpoints /\ endpoint' = endpoint
  BY CacheKinds DEF CacheInv, CacheTyped, C!Write
<1>2. cacheReq'[r] = [q EXCEPT !.wrote = TRUE] /\ cacheReq'[r] \in CacheRequest
  BY <1>1 DEF C!Write, CacheRequest, C!Idle
<1>3. ASSUME NEW o \in Requests \ {r}
      PROVE  cacheReq'[o] \in CacheRequest /\ (cacheReq[o].kind = "write" => cacheReq'[o] = cacheReq[o])
  <2>1. cacheReq[o] \in CacheRequest
    BY DEF CacheInv, CacheTyped
  <2>2. CASE cacheReq'[o] = cacheReq[o]
    BY <2>1, <2>2
  <2>3. CASE cacheReq[o].kind = "get" /\ cacheReq'[o] = [cacheReq[o] EXCEPT !.stale = TRUE]
    BY <2>1, <2>3 DEF CacheRequest, C!Idle
  <2> QED
    BY <2>2, <2>3 DEF C!Write
<1>4. cacheReq' \in [Requests -> CacheRequest]
  <2>1. \A o \in Requests : cacheReq'[o] \in CacheRequest
    BY <1>2, <1>3
  <2> QED
    BY <2>1 DEF C!Write
<1>5. entry' \in [Users -> {"absent", "fresh", "stale"}] /\ excused' \in [Users -> BOOLEAN]
  BY DEF C!Write, CacheInv, CacheTyped
<1>6. ASSUME NEW o \in Requests, NEW u \in Users, WillDelete(cacheReq[o], u)
      PROVE  WillDelete(cacheReq[o], u)'
  <2>1. CASE o = r
    <3>1. /\ cacheReq'[r].kind = "write" /\ cacheReq'[r].op = q.op /\ cacheReq'[r].user = q.user
          /\ cacheReq'[r].phase = q.phase /\ cacheReq'[r].wrote
      BY <1>1, <1>2 DEF CacheRequest, C!Idle
    <3> QED
      BY <1>1, <1>6, <2>1, <3>1 DEF WillDelete, Deletes
  <2>2. CASE o # r
    BY <1>1, <1>3, <1>6, <2>2 DEF WillDelete, Deletes
  <2> QED
    BY <2>1, <2>2
<1>7. ASSUME NEW u \in Users, entry'[u] = "stale", ~excused'[u]
      PROVE  \E o \in Requests : WillDelete(cacheReq[o], u)'
  <2>1. CASE entry[u] = "stale" /\ ~excused[u]
    BY <1>6, <2>1 DEF CacheInv
  <2>2. CASE u \in C!Affected(r) /\ entry[u] = "fresh"
    <3>1. Changes(q.op[q.phase], q.user, u, endpoint) /\ ~C!Uncovered(q.op, q.user, u)
      BY <1>7, <2>2 DEF C!Affected, C!Current, C!Write, Changes
    <3>2. PICK j \in DOMAIN q.op :
            /\ j >= q.phase /\ Deletes(q.op[j], q.user, u, endpoint)
            /\ q.op[j] = C!RecordActivity => j = q.phase
      BY <1>1, <3>1, WritersCover DEF Covers
    <3>3. /\ cacheReq'[r].kind = "write" /\ cacheReq'[r].op = q.op /\ cacheReq'[r].user = q.user
          /\ cacheReq'[r].phase = q.phase /\ cacheReq'[r].wrote
      BY <1>1, <1>2 DEF CacheRequest, C!Idle
    <3>4. WillDelete(cacheReq[r], u)'
      BY <1>1, <3>2, <3>3 DEF WillDelete, Deletes
    <3> QED
      BY <3>4
  <2> QED
    BY <1>7, <2>1, <2>2 DEF C!Write
<1> QED
  BY <1>1, <1>4, <1>5, <1>7 DEF CacheInv, CacheTyped

LEMMA CacheDelete ==
    ASSUME CacheInv, NEW r \in Requests, C!DelByPatterns(r)
    PROVE  CacheInv'
<1> DEFINE q == cacheReq[r]
<1>1. /\ q \in CacheRequest /\ q.kind = "write" /\ q.op \in C!Writers /\ q.phase \in DOMAIN q.op
      /\ q.phase \in Nat /\ C!Advance(r) /\ endpoint' = endpoint /\ CacheTyped
  BY CacheKinds DEF CacheInv, CacheTyped, C!DelByPatterns
<1>2. /\ cacheReq' \in [Requests -> CacheRequest]
      /\ \A o \in Requests \ {r} : cacheReq'[o] = cacheReq[o]
      /\ \A u : \A j \in DOMAIN q.op :
           j > q.phase /\ Deletes(q.op[j], q.user, u, endpoint) /\ q.op[j] # C!RecordActivity
           => WillDelete(cacheReq[r], u)'
  BY <1>1, CacheAdvance
<1>3. entry' \in [Users -> {"absent", "fresh", "stale"}] /\ excused' \in [Users -> BOOLEAN]
  BY DEF C!DelByPatterns, CacheInv, CacheTyped
<1>4. ASSUME NEW u \in Users, entry'[u] = "stale", ~excused'[u]
      PROVE  \E o \in Requests : WillDelete(cacheReq[o], u)'
  <2>1. entry[u] = "stale" /\ u \notin C!Purged(r) /\ ~excused[u]
    BY <1>4 DEF C!DelByPatterns, CacheInv, CacheTyped
  <2>2. PICK o \in Requests : WillDelete(cacheReq[o], u)
    BY <2>1 DEF CacheInv
  <2>3. CASE o # r
    <3>1. WillDelete(cacheReq[o], u)'
      BY <1>1, <1>2, <2>2, <2>3 DEF WillDelete, Deletes
    <3> QED
      BY <3>1
  <2>4. CASE o = r
    <3>1. PICK j \in DOMAIN q.op :
            /\ j >= q.phase /\ Deletes(q.op[j], q.user, u, endpoint)
            /\ q.op[j] = C!RecordActivity => j = q.phase
      BY <2>2, <2>4 DEF WillDelete
    <3>2. j # q.phase
      BY <2>1, <3>1 DEF Deletes, C!Purged, C!Current
    <3>3. j > q.phase
      BY <1>1, <3>1, <3>2, WritersAreSequences
    <3> QED
      BY <1>2, <3>1, <3>2, <3>3
  <2> QED
    BY <2>3, <2>4
<1> QED
  BY <1>1, <1>2, <1>3, <1>4 DEF CacheInv, CacheTyped

LEMMA CacheStep == CacheInv /\ [C!Next]_cacheState => CacheInv'
<1> SUFFICES ASSUME CacheInv, [C!Next]_cacheState PROVE CacheInv'
  OBVIOUS
<1>0. CacheTyped
  BY DEF CacheInv
<1>1. CASE UNCHANGED cacheState
  <2>1. \A o \in Requests, u \in Users : WillDelete(cacheReq[o], u) => WillDelete(cacheReq[o], u)'
    BY <1>1 DEF cacheState, WillDelete, Deletes
  <2> QED
    BY <1>1, <2>1, CacheKept DEF cacheState, CacheInv, CacheTyped
<1>2. ASSUME NEW u \in Users, C!Expire(u) PROVE CacheInv'
  <2>1. \A o \in Requests, v \in Users : WillDelete(cacheReq[o], v) => WillDelete(cacheReq[o], v)'
    BY <1>2 DEF C!Expire, WillDelete, Deletes
  <2>2. CacheTyped'
    BY <1>2 DEF C!Expire, CacheInv, CacheTyped
  <2>3. \A v \in Users : entry'[v] = "stale" /\ ~excused'[v] => entry[v] = "stale" /\ ~excused[v]
    BY <1>0, <1>2 DEF C!Expire, CacheTyped
  <2> QED
    BY <1>2, <2>1, <2>2, <2>3, CacheKept DEF C!Expire
\* A request that is no writer takes the slot, or leaves it.
<1>3. ASSUME NEW r \in Requests, NEW q \in CacheRequest, cacheReq' = [cacheReq EXCEPT ![r] = q],
             cacheReq[r].kind # "write", endpoint' = endpoint,
             entry' \in [Users -> {"absent", "fresh", "stale"}], excused' \in [Users -> BOOLEAN],
             \A u \in Users : entry'[u] = "stale" /\ ~excused'[u] => entry[u] = "stale" /\ ~excused[u]
      PROVE  CacheInv'
  <2>1. CacheTyped'
    BY <1>0, <1>3 DEF CacheTyped
  <2>2. \A o \in Requests, u \in Users : WillDelete(cacheReq[o], u) => WillDelete(cacheReq[o], u)'
    BY <1>0, <1>3 DEF CacheTyped, WillDelete, Deletes
  <2> QED
    BY <1>3, <2>1, <2>2, CacheKept
<1>4. C!Idle \in CacheRequest /\ C!Idle.kind = "idle"
  BY DEF CacheRequest, C!Idle
<1>5. ASSUME NEW r \in Requests, NEW u \in Users, C!Get(r, u) PROVE CacheInv'
  <2>1. C!Reading(u, FALSE) \in CacheRequest
    BY DEF C!Reading, CacheRequest
  <2> QED
    BY <1>0, <1>3, <1>4, <1>5, <2>1 DEF C!Get, CacheTyped
<1>6. ASSUME NEW r \in Requests, NEW u \in Users, NEW op \in C!Writers, C!Begin(r, op, u) PROVE CacheInv'
  <2>1. C!Writing(op, u, 1, FALSE) \in CacheRequest
    BY WritersAreSequences DEF C!Writing, CacheRequest
  <2> QED
    BY <1>0, <1>3, <1>4, <1>6, <2>1 DEF C!Begin, CacheTyped
<1>7. ASSUME NEW r \in Requests, C!SetJson(r) PROVE CacheInv'
  <2>1. cacheReq[r].user \in Users /\ cacheReq[r].stale \in BOOLEAN
    BY <1>0, <1>7, CacheKinds DEF C!SetJson, CacheTyped
  <2>2. entry' \in [Users -> {"absent", "fresh", "stale"}] /\ excused' \in [Users -> BOOLEAN]
    BY <1>0, <1>7, <2>1 DEF C!SetJson, CacheTyped
  <2>3. \A u \in Users : entry'[u] = "stale" /\ ~excused'[u] => entry[u] = "stale" /\ ~excused[u]
    BY <1>0, <1>7, <2>1 DEF C!SetJson, CacheTyped
  <2> QED
    BY <1>3, <1>4, <1>7, <2>2, <2>3 DEF C!SetJson
<1>8. ASSUME NEW r \in Requests, C!Drop(r) PROVE CacheInv'
  BY <1>0, <1>3, <1>4, <1>8 DEF C!Drop, CacheTyped
<1>9. ASSUME NEW r \in Requests, C!AlreadyRecorded(r) PROVE CacheInv'
  <2>1. /\ cacheReq[r].kind = "write" /\ ~cacheReq[r].wrote /\ C!Current(r) = C!RecordActivity
        /\ C!Advance(r) /\ UNCHANGED <<endpoint, entry, excused>>
    BY <1>9 DEF C!AlreadyRecorded
  <2>2. /\ cacheReq' \in [Requests -> CacheRequest]
        /\ \A o \in Requests \ {r} : cacheReq'[o] = cacheReq[o]
        /\ \A u : \A j \in DOMAIN cacheReq[r].op :
             /\ j > cacheReq[r].phase
             /\ Deletes(cacheReq[r].op[j], cacheReq[r].user, u, endpoint)
             /\ cacheReq[r].op[j] # C!RecordActivity
             => WillDelete(cacheReq[r], u)'
    BY <1>0, <2>1, CacheAdvance
  <2>3. ASSUME NEW o \in Requests, NEW u \in Users, WillDelete(cacheReq[o], u)
        PROVE  WillDelete(cacheReq[o], u)'
    <3>1. CASE o # r
      BY <2>1, <2>2, <2>3, <3>1 DEF WillDelete, Deletes
    <3>2. CASE o = r
      <4> DEFINE q == cacheReq[r]
      <4>1. PICK j \in DOMAIN q.op :
              /\ j >= q.phase /\ Deletes(q.op[j], q.user, u, endpoint)
              /\ q.op[j] = C!RecordActivity => j = q.phase /\ q.wrote
        BY <2>3, <3>2 DEF WillDelete
      <4>2. q.op[j] # C!RecordActivity /\ j # q.phase
        BY <2>1, <4>1 DEF C!Current
      <4>3. q.op \in C!Writers /\ q.phase \in Nat
        BY <1>0, <2>1, CacheKinds DEF CacheTyped
      <4>4. j \in Nat
        BY <4>3, WritersAreSequences
      <4>5. j > q.phase
        BY <4>1, <4>2, <4>3, <4>4
      <4> QED
        BY <2>2, <3>2, <4>1, <4>2, <4>5
    <3> QED
      BY <3>1, <3>2
  <2> QED
    BY <1>0, <2>1, <2>2, <2>3, CacheKept DEF CacheTyped
<1>10. ASSUME NEW r \in Requests, C!Lose(r) PROVE CacheInv'
  <2>1. /\ cacheReq[r].kind = "write" /\ UNCHANGED <<endpoint, entry>>
        /\ C!Advance(r) \/ cacheReq' = [cacheReq EXCEPT ![r] = C!Idle]
        /\ excused' = [u \in Users |-> excused[u] \/ entry[u] = "stale"]
    BY <1>10 DEF C!Lose
  <2>2. cacheReq' \in [Requests -> CacheRequest]
    BY <1>0, <1>4, <2>1, CacheAdvance DEF CacheTyped
  <2> QED
    BY <1>0, <2>1, <2>2 DEF CacheInv, CacheTyped
<1> QED
  BY <1>1, <1>2, <1>5, <1>6, <1>7, <1>8, <1>9, <1>10, CacheWrite, CacheDelete DEF C!Next

-----------------------------------------------------------------------------
(***************************************************************************)
(* The four parts side by side.                                             *)
(***************************************************************************)

LearnInv == PracticeInv /\ CacheInv /\ WordsInv /\ NotesInv

LEMMA LearnInvariant == LearnSpec => []LearnInv
<1> DEFINE learnVars == <<part, practiceState, cacheState, wordState, noteState>>
<1>1. LearnInit => LearnInv
  BY PracticeStarts, CacheInit, WordsInit, NotesInit DEF LearnInit, LearnInv
<1>2. LearnInv /\ [LearnNext]_learnVars => LearnInv'
  <2> SUFFICES ASSUME LearnInv, [LearnNext]_learnVars PROVE LearnInv'
    OBVIOUS
  <2>1. [PracticeNext]_practiceState /\ [C!Next]_cacheState /\ [D!Next]_wordState /\ [N!Next]_noteState
    BY DEF LearnNext
  <2> QED
    BY <2>1, PracticeStep, CacheStep, WordsStep, NotesStep DEF LearnInv
<1> QED
  BY <1>1, <1>2, PTL DEF LearnSpec

\* The variables of the part that moves keep their types.
THEOREM LearnTyped == LearnSpec => []LearnTypeOK
<1>1. LearnInv => LearnTypeOK
  BY PracticeClaimed, CacheClaimed, WordsClaimed DEF LearnInv, NotesInv, LearnTypeOK
<1> QED
  BY <1>1, LearnInvariant, PTL

\* Restarts included, a streak is no longer than the days in a row, and as
\* long while no call has overwritten another one's day.
THEOREM LearnStreaks == LearnSpec => [](NeverTooLong /\ ExactUnlessRaced)
<1>1. LearnInv => NeverTooLong /\ ExactUnlessRaced
  BY StreakIsClaimed, ExactIsClaimed DEF LearnInv, PracticeInv, ExactInv
<1> QED
  BY <1>1, LearnInvariant, PTL

\* Every review belongs to a submit whose success the user has seen, will be
\* told, or was never told; and no session is stored without a review.
THEOREM SubmitsExplained == LearnSpec => []ReviewsExplained
<1>1. LearnInv => ReviewsExplained
  BY PracticeClaimed DEF LearnInv
<1> QED
  BY <1>1, LearnInvariant, PTL

\* Whatever getter is watched, and whichever writers overlap, an entry is
\* stale only for one of the known reasons: every writer deletes what it wrote.
THEOREM CacheExplained == LearnSpec => []StaleIsExplained
<1>1. LearnInv => StaleIsExplained
  BY CacheClaimed DEF LearnInv, StaleIsExplained
<1> QED
  BY <1>1, LearnInvariant, PTL

\* The id of a dictionary entry is on two words only if two requests looked
\* for it at the same time.
THEOREM EntriesUnique == LearnSpec => []OneWordPerEntry
<1>1. LearnInv => OneWordPerEntry
  BY WordsClaimed DEF LearnInv, OneWordPerEntry
<1> QED
  BY <1>1, LearnInvariant, PTL

\* Answered saves stay saved and tracked, and answered toggles count.
THEOREM NotesKept == LearnSpec => []NotesAreKept
<1>1. LearnInv => NotesAreKept
  BY DEF LearnInv, NotesInv, NotesAreKept
<1> QED
  BY <1>1, LearnInvariant, PTL
=============================================================================
