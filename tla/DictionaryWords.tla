--------------------------- MODULE DictionaryWords --------------------------
(***************************************************************************)
(* The word rows that stand for one dictionary entry in the learn service. *)
(* vocabulary.service.ts finds or creates one when a user saves the entry, *)
(* dictionary.service.ts creates one in the background after a search, and *)
(* an administrator removes them.  Word has no unique key on the entry's   *)
(* id, and nothing runs in a transaction.  What a save writes for its user *)
(* afterwards is the subject of VocabularyNotes.                           *)
(***************************************************************************)
CONSTANTS
    Words,   \* ids of the rows that may exist at a time
    Requests \* request slots

VARIABLES
    word,      \* the rows: external says that the row carries the entry's id
    req,       \* the requests in flight
    duplicated \* history: the id went to a second row while another request looked for it

vars == <<word, req, duplicated>>

NoWord == [exists |-> FALSE, external |-> FALSE, audio |-> "none"]
Idle == [op |-> "none", pc |-> "idle", id |-> "none", read |-> NoWord, external |-> FALSE, alone |-> TRUE]

Rows == {w \in Words : word[w].exists}

Init ==
    /\ word = [w \in Words |-> NoWord]
    /\ req = [r \in Requests |-> Idle]
    /\ duplicated = FALSE

Goto(r, pc) == req' = [req EXCEPT ![r].pc = pc]
Hold(r, w) == req' = [req EXCEPT ![r].pc = "update", ![r].id = w, ![r].read = word[w]]
Drop(r) == req' = [req EXCEPT ![r] = Idle]

\* Ids are not used again: a request whose row is removed holds none.
Live(r) == req[r].id # "none"

\* Row w changes; whoever is looking for a word of the entry, or holds a copy
\* of this row, works with what was before.
Write(r, w, row, pc) ==
    /\ word' = [word EXCEPT ![w] = row]
    /\ req' = [o \in Requests |->
                 IF o = r THEN [req[r] EXCEPT !.pc = pc, !.id = w, !.read = row]
                 ELSE IF req[o].pc \in {"similar", "insert", "update"} \/ req[o].id = w
                      THEN [req[o] EXCEPT !.alone = FALSE] ELSE req[o]]

\* A second row gets the entry's id although another one carries it.
Given(r, w) ==
    duplicated' = (duplicated \/ (~req[r].alone /\ \E v \in Rows \ {w} : word[v].external))

-----------------------------------------------------------------------------
(* createFromDictionary *)

\* Variant: the entry's id is not looked up.
ByExternalId_Never == {}

\* findFirst on externalDictionaryId and sourceProvider.
ByExternalId == {w \in Rows : word[w].external}

CreateFromDictionary(r, external) ==
    /\ req[r] = Idle
    /\ \E w \in ByExternalId \union {"none"} :
         /\ w = "none" <=> (ByExternalId = {} \/ ~external)
         /\ req' = [req EXCEPT ![r] =
                      IF w = "none" THEN [Idle EXCEPT !.op = "save", !.pc = "similar", !.external = external]
                      ELSE [Idle EXCEPT !.op = "save", !.pc = "update", !.external = external,
                                        !.id = w, !.read = word[w]]]
    /\ UNCHANGED <<word, duplicated>>

\* duplicateWhere: the same spelling, meaning and pronunciation; a word saved
\* with another meaning does not match.
FindDuplicate(r) ==
    /\ req[r].op = "save" /\ req[r].pc = "similar"
    /\ Goto(r, "insert") \/ \E w \in Rows : Hold(r, w)
    /\ UNCHANGED <<word, duplicated>>

Insert(r) ==
    /\ req[r].pc = "insert"
    /\ \E w \in Words \ Rows, audio \in {"none", "source"} :
         /\ Write(r, w, [exists |-> TRUE, external |-> req[r].external, audio |-> audio],
                  IF req[r].op = "save" THEN "audio" ELSE "done")
         /\ IF req[r].external THEN Given(r, w) ELSE UNCHANGED duplicated

\* existingWord.x || dto.x: what was there when the row was read is not replaced.
Update(r) ==
    /\ req[r].pc = "update"
    /\ LET w == req[r].id  external == req[r].read.external \/ req[r].external IN
       IF Live(r)
       THEN /\ Write(r, w, [word[w] EXCEPT !.external = external], "audio")
            /\ IF external /\ ~word[w].external THEN Given(r, w) ELSE UNCHANGED duplicated
       ELSE Drop(r) /\ UNCHANGED <<word, duplicated>>

\* upsertWordExamples upserts on (word, example); it fails without the row.
UpsertWordExamples(r) == Live(r)

\* What the row had, else the source's address if the request has one.
Fallback(r) == IF req[r].read.audio # "none" THEN {req[r].read.audio} ELSE {"none", "source"}

\* syncWordAudios: the storage service ingests the file under one of two paths,
\* or fails, which is only logged.
SyncWordAudios(r) == Fallback(r) \union {"stored"}

\* The second update of the row ends this part of the save.
UpdateAudio(r) ==
    /\ req[r].pc = "audio"
    /\ IF UpsertWordExamples(r)
       THEN \E audio \in SyncWordAudios(r) :
              Write(r, req[r].id, [word[req[r].id] EXCEPT !.audio = audio], "done")
       ELSE Drop(r) /\ UNCHANGED word
    /\ UNCHANGED duplicated

-----------------------------------------------------------------------------
(* syncWordsFromDictionary, and removal *)

\* By the entry's id; then by spelling and part of speech among the words of
\* no lesson.  Errors are dropped.
SyncWords(r) ==
    /\ \/ /\ req[r] = Idle /\ ByExternalId = {}
          /\ req' = [req EXCEPT ![r] = [Idle EXCEPT !.op = "sync", !.pc = "similar", !.external = TRUE]]
       \/ /\ req[r].op = "sync" /\ req[r].pc = "similar"
          /\ Goto(r, "insert") \/ (Rows # {} /\ Drop(r))
    /\ UNCHANGED <<word, duplicated>>

\* DELETE /words/:id.
RemoveWord(w) ==
    /\ word[w].exists
    /\ word' = [word EXCEPT ![w] = NoWord]
    /\ req' = [r \in Requests |-> IF req[r].id = w THEN [req[r] EXCEPT !.id = "none"] ELSE req[r]]
    /\ UNCHANGED duplicated

\* The request goes on elsewhere, a statement fails or the service stops.
Leave(r) ==
    /\ req[r] # Idle
    /\ Drop(r)
    /\ UNCHANGED <<word, duplicated>>

Next ==
    \/ \E w \in Words : RemoveWord(w)
    \/ \E r \in Requests :
         \/ \E external \in BOOLEAN : CreateFromDictionary(r, external)
         \/ FindDuplicate(r) \/ Insert(r) \/ Update(r) \/ UpdateAudio(r) \/ SyncWords(r) \/ Leave(r)

Spec == Init /\ [][Next]_vars

-----------------------------------------------------------------------------
(* Properties *)

TypeOK ==
    /\ word \in [Words -> [exists : BOOLEAN, external : BOOLEAN, audio : {"none", "source", "stored"}]]
    /\ duplicated \in BOOLEAN
    /\ \A r \in Requests : /\ req[r].op \in {"none", "save", "sync"}
                           /\ req[r].id \in Words \union {"none"}

\* Find-then-create without a unique key: the entry's id is on two words only
\* if two requests looked for it at the same time.
OneWordPerEntry ==
    duplicated \/ \A v, w \in Rows : word[v].external /\ word[w].external => v = w

=============================================================================
