--------------------------- MODULE VocabularyNotes --------------------------
(***************************************************************************)
(* What users attach to one word in the learn service: a note that may be  *)
(* a favourite, and the progress row that puts the word among the words    *)
(* they learn.  vocabulary.service.ts writes both when a dictionary entry  *)
(* is saved, without a transaction; the other handlers write the note,     *)
(* toggleFavorite from the value it has read.                              *)
(***************************************************************************)
EXTENDS Naturals, FiniteSets

CONSTANTS
    Users,
    Requests \* request slots

VARIABLES
    word,    \* the word exists
    note,    \* user_vocabulary_note per user
    tracked, \* the users with a user_word_progress row
    cards,   \* the users for whom fsrs-ai was asked for a card
    req,     \* the requests in flight
    saved,   \* history: users whose save was answered, not undone since
    expected,\* history: the favourites as the answered toggles left them
    raced    \* history: users whose note changed under a toggle

vars == <<word, note, tracked, cards, req, saved, expected, raced>>

Notes == {"none", "plain", "favorite"}
Idle == [pc |-> "idle", user |-> "none", read |-> "none", undone |-> FALSE]

Init ==
    /\ word = TRUE
    /\ note = [u \in Users |-> "none"] /\ expected = note
    /\ tracked = {} /\ cards = {} /\ saved = {} /\ raced = {}
    /\ req = [r \in Requests |-> Idle]

Arrive(r, u, pc, read) ==
    /\ req[r] = Idle
    /\ req' = [req EXCEPT ![r] = [Idle EXCEPT !.pc = pc, !.user = u, !.read = read]]

Goto(r, pc) == req' = [req EXCEPT ![r].pc = pc]
Drop(r) == req' = [req EXCEPT ![r] = Idle]

\* A write that does not depend on what the note was settles it.
Put(u, n) ==
    /\ note' = [note EXCEPT ![u] = n] /\ expected' = [expected EXCEPT ![u] = n]
    /\ raced' = raced \ {u}

-----------------------------------------------------------------------------
(* createFromDictionary, from the note on *)

CreateFromDictionary(r, u) ==
    /\ word
    /\ Arrive(r, u, "note", "none")
    /\ UNCHANGED <<word, note, tracked, cards, saved, expected, raced>>

\* The note's upsert keeps a favourite the request does not mention.
UpsertOwnNote(r) ==
    /\ req[r].pc = "note"
    /\ LET u == req[r].user IN
       IF word THEN /\ req' = [req EXCEPT ![r].pc = "progress", ![r].read = note[u]]
                    /\ \E n \in {"plain", "favorite"} : Put(u, n)
       ELSE Drop(r) /\ UNCHANGED <<note, expected, raced>>
    /\ UNCHANGED <<word, tracked, cards, saved>>

\* Variant: progress comes with the note that the save creates.
NeedsProgress_NewNote(r) == req[r].read = "none"

NeedsProgress(r) == req[r].user \notin tracked

FindProgress(r) ==
    /\ req[r].pc = "progress"
    /\ Goto(r, IF NeedsProgress(r) THEN "track" ELSE "answer")
    /\ UNCHANGED <<word, note, tracked, cards, saved, expected, raced>>

\* A progress row that another request created meanwhile, or a word that is
\* gone, breaks a constraint and the request.
Track(r) ==
    /\ req[r].pc = "track"
    /\ LET u == req[r].user IN
       IF word /\ u \notin tracked
       THEN tracked' = tracked \union {u} /\ Goto(r, "answer")
       ELSE Drop(r) /\ UNCHANGED tracked
    /\ UNCHANGED <<word, note, cards, saved, expected, raced>>

\* The session and the streak cannot fail the save, the card is not waited
\* for, and the deletions from the cache only log their errors.
Answer(r) ==
    /\ req[r].pc = "answer"
    /\ saved' = IF req[r].undone \/ ~word THEN saved ELSE saved \union {req[r].user}
    /\ Drop(r)
    /\ cards' \in {cards, cards \union {req[r].user}}
    /\ UNCHANGED <<word, note, tracked, expected, raced>>

-----------------------------------------------------------------------------
(* Notes *)

\* upsertNote; updateNote finds the note and writes it by its id.
UpsertNote(u, n) ==
    /\ word
    /\ Put(u, n)
    /\ UNCHANGED <<word, tracked, cards, req, saved>>

UpdateNote(u, n) == note[u] # "none" /\ UpsertNote(u, n)

\* removeNote leaves the progress.  A save in flight does not count as saved
\* any more, a toggle does not find the note by its id.
RemoveNote(u) ==
    /\ note[u] # "none"
    /\ Put(u, "none")
    /\ saved' = saved \ {u}
    /\ req' = [r \in Requests |->
                 IF req[r].user = u /\ req[r].pc # "note" THEN [req[r] EXCEPT !.undone = TRUE] ELSE req[r]]
    /\ UNCHANGED <<word, tracked, cards>>

\* toggleFavorite reads the note ...
ReadFavorite(r, u) ==
    /\ word \/ note[u] # "none"
    /\ Arrive(r, u, "toggle", note[u])
    /\ UNCHANGED <<word, note, tracked, cards, saved, expected, raced>>

Negated(n) == IF n = "favorite" THEN "plain" ELSE "favorite"

\* ... and writes its negation by the note's id, or creates a favourite, which
\* fails if there is a note by then.
WriteFavorite(r) ==
    /\ req[r].pc = "toggle"
    /\ LET u == req[r].user  read == req[r].read IN
       IF word /\ (IF read = "none" THEN note[u] = "none" ELSE note[u] # "none" /\ ~req[r].undone)
       THEN /\ note' = [note EXCEPT ![u] = Negated(read)]
            /\ expected' = [expected EXCEPT ![u] = IF @ = "favorite" THEN "plain" ELSE "favorite"]
            /\ raced' = IF note[u] = read THEN raced ELSE raced \union {u}
       ELSE UNCHANGED <<note, expected, raced>>
    /\ Drop(r)
    /\ UNCHANGED <<word, tracked, cards, saved>>

\* DELETE /words/:id: notes and progress go with the row, the cards stay.
RemoveWord ==
    /\ word /\ word' = FALSE
    /\ note' = [u \in Users |-> "none"] /\ expected' = note'
    /\ tracked' = {} /\ saved' = {} /\ raced' = {}
    /\ UNCHANGED <<cards, req>>

\* A statement fails or the service stops.
Fail(r) ==
    /\ req[r].pc # "idle"
    /\ Drop(r)
    /\ UNCHANGED <<word, note, tracked, cards, saved, expected, raced>>

Next ==
    \/ RemoveWord
    \/ \E u \in Users : RemoveNote(u) \/ \E n \in {"plain", "favorite"} : UpsertNote(u, n) \/ UpdateNote(u, n)
    \/ \E r \in Requests :
         \/ \E u \in Users : CreateFromDictionary(r, u) \/ ReadFavorite(r, u)
         \/ UpsertOwnNote(r) \/ FindProgress(r) \/ Track(r) \/ Answer(r) \/ WriteFavorite(r) \/ Fail(r)

Spec == Init /\ [][Next]_vars

-----------------------------------------------------------------------------
(* Properties *)

TypeOK ==
    /\ word \in BOOLEAN
    /\ note \in [Users -> Notes] /\ expected \in [Users -> Notes]
    /\ tracked \subseteq Users /\ cards \subseteq Users /\ saved \subseteq Users /\ raced \subseteq Users
    /\ req \in [Requests -> [pc : {"idle", "note", "progress", "track", "answer", "toggle"},
                             user : Users \union {"none"}, read : Notes, undone : BOOLEAN]]

\* A save that was answered left a note and a progress row, whatever ran or
\* broke beside it, until the note or the word is removed; and fsrs-ai has
\* cards for words with a progress row only, as getDueWords drops the others.
SavedIsTracked ==
    /\ \A u \in saved : note[u] # "none" /\ u \in tracked
    /\ word => cards \subseteq tracked

\* Every answered toggle counts, unless another write of the note came between
\* its read and its write.
TogglesCount == \A u \in Users : note[u] = expected[u] \/ u \in raced

\* What the user was told of a word is so: it is saved, tracked and a favourite
\* as often as it was toggled.
NotesAreKept == SavedIsTracked /\ TogglesCount

=============================================================================
