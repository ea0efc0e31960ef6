------------------------------ MODULE MCLearn -------------------------------
(* The learn service in one run: submits with the streak, the cache, the   *)
(* words taken from the dictionary and the notes.  The parts share no      *)
(* state here, so each behaviour moves the part it has chosen.             *)
EXTENDS Practice, TLC

CONSTANTS Requests, Users, Words, NoteUsers, NoteRequests

\* "none" stands for no row in the requests of DictionaryWords.
ASSUME LearnAssumption == "none" \notin Words

VARIABLES
    part,
    endpoint, entry, cacheReq, excused,
    row, saveReq, duplicated,
    word, note, tracked, cards, noteReq, saved, expected, noteRaced

practiceState == <<vars, practiceVars>>
cacheState == <<endpoint, entry, cacheReq, excused>>
wordState == <<row, saveReq, duplicated>>
noteState == <<word, note, tracked, cards, noteReq, saved, expected, noteRaced>>

C == INSTANCE ReadThroughCache WITH req <- cacheReq

D == INSTANCE DictionaryWords WITH word <- row, req <- saveReq

N == INSTANCE VocabularyNotes WITH
       Users <- NoteUsers, Requests <- NoteRequests, req <- noteReq, raced <- noteRaced

LearnInit ==
    /\ part \in {"practice", "cache", "words", "notes"}
    /\ PracticeInit /\ C!Init /\ D!Init /\ N!Init
    /\ part # "cache" => endpoint = CHOOSE e \in C!Endpoints : TRUE

LearnNext ==
    /\ UNCHANGED part
    /\ \/ part = "practice" /\ PracticeNext /\ UNCHANGED <<cacheState, wordState, noteState>>
       \/ part = "cache" /\ C!Next /\ UNCHANGED <<practiceState, wordState, noteState>>
       \/ part = "words" /\ D!Next /\ UNCHANGED <<practiceState, cacheState, noteState>>
       \/ part = "notes" /\ N!Next /\ UNCHANGED <<practiceState, cacheState, wordState>>

LearnSpec ==
    LearnInit /\ [][LearnNext]_<<part, practiceState, cacheState, wordState, noteState>>

\* Requests, and calls from elsewhere, differ in nothing but their name.
Symmetry == Permutations(Requests) \union Permutations(Calls \ Learners)

\* The variables of the part that moves keep their types.
LearnTypeOK ==
    /\ part = "practice" => PracticeTypeOK
    /\ part = "cache" => C!TypeOK
    /\ part = "words" => D!TypeOK
    /\ part = "notes" => N!TypeOK

\* See ReadThroughCache: a stale cache entry has one of the known reasons.
StaleIsExplained == part = "cache" => C!StaleIsExplained

\* See DictionaryWords: one word for a dictionary entry, but for overlaps.
OneWordPerEntry == part = "words" => D!OneWordPerEntry

\* See VocabularyNotes: answered saves and toggles are kept.
NotesAreKept == part = "notes" => N!NotesAreKept
=============================================================================
