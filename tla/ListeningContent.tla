-------------------------- MODULE ListeningContent --------------------------
(* Vocabulary and quiz of a transcript (generative service,                *)
(* ListeningAiService).                                                    *)
(*                                                                         *)
(* The transcript is cut into chunks whose words the model picks, and into *)
(* checkpoints for each of which it writes a question.  Any call of the    *)
(* model may fail or return nonsense; most of it is made up for, but what  *)
(* is no word among the words fails the request.  The two halves share     *)
(* nothing, so one is made at a time.                                      *)
EXTENDS Integers, Sequences, FiniteSets, SequencesExt

CONSTANTS
    Texts,        \* the sets of words a segment may hold
    Eligible,     \* words long and rare enough to be learnt unasked
    MaxSegments,  \* bound: segments of the transcript
    ChunkWords,   \* words after which a chunk is closed
    TargetVocab,  \* words wanted
    TargetQuiz    \* questions wanted

VARIABLES
    half,        \* what is being made: the vocabulary or the quiz
    text,        \* the words of each segment
    open,        \* chunks the model has not answered yet
    found,       \* words found so far
    vocabulary,  \* the words of the lesson, once selected
    extraction,  \* how the extraction of the vocabulary has ended
    question     \* the question being made, with the model's answer

vars == <<half, text, open, found, vocabulary, extraction, question>>

Words == UNION Texts

\* What is in the model's list of words and is not a word: null or a number.
NoWord == "null"

\* Before the first segment.
NoChunks == [closed |-> <<>>, current |-> <<>>, words |-> 0]

\* A chunk is closed by the segment that fills it.
Taken(chunks, segment) ==
    LET now  == Append(chunks.current, segment)
        size == chunks.words + Cardinality(segment) IN
    IF size >= ChunkWords
    THEN [closed |-> Append(chunks.closed, now), current |-> <<>>, words |-> 0]
    ELSE [closed |-> chunks.closed, current |-> now, words |-> size]

AllTaken(segments) ==
    LET after[n \in 0..Len(segments)] ==
          IF n = 0 THEN NoChunks ELSE Taken(after[n - 1], segments[n])
    IN  after[Len(segments)]

\* chunkSegments: one segment after the other; the last chunk may be short.
ChunkSegments(segments) ==
    LET last == AllTaken(segments)
        all == IF last.current = <<>> THEN last.closed ELSE Append(last.closed, last.current) IN
    IF all = <<>> THEN <<segments>> ELSE all

\* Math.round(i * step), 0-based.
Checkpoint(i, n) ==
    (2 * i * (n - 1) + TargetQuiz + 1) \div (2 * (TargetQuiz + 1))

\* selectCheckpoints: every segment of a short transcript, else spread out.
SelectCheckpoints(n) ==
    IF n <= TargetQuiz THEN [i \in 1..n |-> i - 1]
    ELSE [i \in 1..TargetQuiz |-> Checkpoint(i, n)]

NoQuestion == [number |-> 0, options |-> <<>>, correct |-> 0, offered |-> 0, index |-> 0]

Init ==
    /\ half \in {"vocabulary", "quiz"}
    /\ text \in BoundedSeq(Texts, MaxSegments)
    /\ open = IF half = "vocabulary" /\ text # <<>> THEN 1..Len(ChunkSegments(text)) ELSE {}
    /\ found = {}
    /\ vocabulary = {}
    /\ extraction = "none"
    /\ question = NoQuestion

\* The model names words, of the chunk or not, or fails and names none; short
\* and common words are dropped, and a word named twice counts once.
ExtractChunk(k) ==
    /\ k \in open
    /\ open' = open \ {k}
    /\ \E candidates \in SUBSET (Words \cup {NoWord}) : found' = found \cup candidates
    /\ UNCHANGED <<half, text, vocabulary, extraction, question>>

\* The words of the transcript that are taken without the model naming them.
EligibleWords == (UNION {text[i] : i \in DOMAIN text}) \cap Eligible

TooFew(words) == Cardinality(words) < TargetVocab

AllAnswered == half = "vocabulary" /\ open = {} /\ extraction = "none"

\* The transcript's own words make up for what the model has not found, up to
\* five beyond the target, behind those it has; the first ones are taken, and
\* each is defined by the dictionary, else by the model, else by a filler.
SelectWords ==
    /\ AllAnswered
    /\ NoWord \notin found
    /\ LET pool == IF TooFew(found) THEN found \cup EligibleWords ELSE found IN
       \E chosen \in SUBSET pool :
         /\ Cardinality(chosen) =
              IF Cardinality(pool) < TargetVocab THEN Cardinality(pool) ELSE TargetVocab
         /\ TooFew(found) => found \subseteq chosen
         /\ vocabulary' = chosen
    /\ extraction' = "selected"
    /\ UNCHANGED <<half, text, open, found, question>>

\* Cleaning what is no word throws, outside of what is caught for a chunk, and
\* the request fails with all the other words.
FailExtraction ==
    /\ AllAnswered
    /\ NoWord \in found
    /\ extraction' = "failed"
    /\ UNCHANGED <<half, text, open, found, vocabulary, question>>

Swapped(options, from, to) ==
    [options EXCEPT ![to] = options[from], ![from] = options[to]]

Clamp(i) == IF i < 0 THEN 0 ELSE IF i > 3 THEN 3 ELSE i

\* Four options: the model's first ones, fillers (-1) behind them.
FourOptions(offered) == [i \in 1..4 |-> IF i <= offered THEN i - 1 ELSE -1]

\* The questions are made independently.  The right option is moved so that
\* the first has it in front, the second behind that, and so on.
MakeQuestion(q, offered, index) ==
    LET desired == (q - 1) % 4
        options == FourOptions(offered) IN
    [number |-> q, offered |-> offered, index |-> index, correct |-> desired,
     options |-> IF Clamp(index) = desired THEN options
                 ELSE Swapped(options, Clamp(index) + 1, desired + 1)]

\* No answer, no JSON or fewer than two options: a stock question whose first
\* option is right.
StockQuestion(q) ==
    [number |-> q, offered |-> 4, index |-> 0, correct |-> 0, options |-> FourOptions(4)]

AskQuestion ==
    /\ half = "quiz"
    /\ question.number < Len(SelectCheckpoints(Len(text)))
    /\ LET q == question.number + 1 IN
       \/ question' = StockQuestion(q)
       \/ \E offered \in 2..5, index \in -1..4 : question' = MakeQuestion(q, offered, index)
    /\ UNCHANGED <<half, text, open, found, vocabulary, extraction>>

Next ==
    \/ \E k \in open : ExtractChunk(k)
    \/ SelectWords \/ FailExtraction \/ AskQuestion

Spec == Init /\ [][Next]_vars

-----------------------------------------------------------------------------
(* Properties.                                                             *)

\* The variables keep their types.
TypeOK ==
    /\ Len(text) <= MaxSegments
    /\ open \subseteq 1..Len(ChunkSegments(text))
    /\ found \subseteq Words \cup {NoWord}
    /\ vocabulary \subseteq Words
    /\ extraction \in {"none", "selected", "failed"}
    /\ question.number \in 0..TargetQuiz /\ question.correct \in 0..3

WordCount(chunk) ==
    LET upTo[n \in 0..Len(chunk)] ==
          IF n = 0 THEN 0 ELSE upTo[n - 1] + Cardinality(chunk[n])
    IN  upTo[Len(chunk)]

\* The chunks are the transcript, in order, and only the last may be short.
ChunksAreTheText ==
    LET chunks == ChunkSegments(text) IN
    /\ FlattenSeq(chunks) = text
    /\ \A k \in 1..(Len(chunks) - 1) : WordCount(chunks[k]) >= ChunkWords

\* The checkpoints are segments in order of time, none asked twice if there
\* are at least two segments more than questions.
CheckpointsAreSpread ==
    LET n == Len(text)
        checkpoints == SelectCheckpoints(n) IN
    /\ \A i \in DOMAIN checkpoints : checkpoints[i] \in 0..(n - 1)
    /\ \A i, j \in DOMAIN checkpoints :
         i < j => /\ checkpoints[i] <= checkpoints[j]
                  /\ n # TargetQuiz + 1 => checkpoints[i] < checkpoints[j]

\* A vocabulary has the words wanted even if every call of the model fails, as
\* long as the transcript has that many worth learning.  There is none only if
\* the model has named something that is no word.
VocabularyIsFull ==
    /\ extraction = "selected" =>
         Cardinality(vocabulary) >= IF Cardinality(EligibleWords) < TargetVocab
                                    THEN Cardinality(EligibleWords) ELSE TargetVocab
    /\ extraction = "failed" => NoWord \in found

\* The option marked correct is the one the model named, no option is lost,
\* provided it named one of the first four it offered.
RightOptionMarked ==
    (question.number > 0 /\ question.index \in 0..3 /\ question.index < question.offered) =>
        /\ question.options[question.correct + 1] = question.index
        /\ \A o \in 0..3 : o < question.offered =>
             \E i \in 1..4 : question.options[i] = o

\* Chunks, checkpoints, words and options fit, whatever words and options the
\* model answers with, or if it does not answer.
ContentIsSound ==
    ChunksAreTheText /\ CheckpointsAreSpread /\ VocabularyIsFull /\ RightOptionMarked
=============================================================================
