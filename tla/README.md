# A verification of the English-learning backend

TLA+ modules, TLC configurations and TLAPS proofs about the backend in `src/`:
a gateway, an auth service, the `learn` service, the `fsrs-ai` scheduler, the
`generative` tutor services, a listening service, file storage and a
notification stub. The services share no database. They call each other over
HTTP and several keep caches, counters or sessions in Redis. Almost every
handler is a row of awaited statements without a transaction or a lock, so the
questions worth asking are about what happens *between* two statements.

## 1. Inventory

| component | state | operations | what is hard | modules | status |
|---|---|---|---|---|---|
| fsrs-ai cards (`fsrs_service.py`, `optimizer_service.reschedule_cards`) | `card_memory_state`, `review_log` | bulk review, init-cards, reschedule | read, compute, write without a lock; autoflush takes row locks in the order of the batch | FsrsCards, ReviewHistory | partly |
| fsrs-ai model versions (`optimizer_service.py`) | `fsrs_config`, `fsrs_model_version` | optimise, rollback | number and cooldown from stale reads; an UPDATE writes only changed columns | ModelVersions, VersionLog | partly |
| fsrs-ai reports | none | statistics | | | not modelled |
| learn streak (`streak.service.ts`) | `user_streak` | recordActivity | overlapping calls, midnight between clock and SELECT | Streak | modelled |
| learn practice (`practice.service.ts`) | practice sessions | submitFSRS | an answer lost after the remote commit | Practice (extends Streak) | modelled |
| learn lesson completion (`progress.service.ts`, `lessons.service.ts`) | lesson, word and course progress, sessions | complete | no transaction, best-effort tail, two requests, authors | LessonCompletion | partly |
| learn cache (`redis.service.ts`, `cache-key.util.ts`) | Redis | get, set with a life time, delete by pattern | a fill racing an invalidation, swallowed errors | ReadThroughCache | modelled |
| learn vocabulary and dictionary | words, examples, notes | save a word, notes, favourites, background sync | find-then-create, unfinished saves | DictionaryWords, VocabularyNotes | partly |
| learn courses and words | catalogue | CRUD | invalidation, edits under a completion | ReadThroughCache, LessonCompletion, DictionaryWords | partly |
| auth (`auth.service.ts`, `users.service.ts`) | users, accounts, token blacklist, profile cache | register, verify, login, Google login, refresh, logout, reset, profile | check then blacklist, mail after commit, stale profile | AuthSession, EmailTokens, UserProfile | partly |
| gateway (`gateway-proxy.service.ts`) | counters in Redis | verify, limit, forward, clear cookies | counter and expiry in two calls | AuthSession, UserProfile, GatewayLimiter | partly |
| generative tutor (`tutor-sessions.service.ts`) | sessions and idempotency keys in Redis | create, interact, interrupt, end | the whole session is written back after a long await | TutorSession, ProviderCalls | modelled |
| generative role play (`roleplay.service.ts`) | sessions, messages, evaluations | start, chat, delete a scenario | an evaluation computed from a stale read | RoleplayChat | partly |
| generative listening-ai and the providers | none | vocabulary, quiz, speech, language model | retries; nonsense answers of the model | ListeningContent, ProviderCalls | partly |
| listening-service | lessons and their children | create, background job, edit, regenerate, delete | a job lost by a restart or racing an editor | ListeningLesson | partly |
| storage (`files.service.ts`) | rows; Cloudinary | sign, create, ingest, record | upload before the row | StoredFiles | partly |
| notification; shared packages | none | | | | not modelled |

The services interact by HTTP calls (learn calls fsrs-ai and storage, the
listening service calls generative, generative calls storage's provider, all
behind the gateway), by the JWT that auth issues and the gateway verifies, and by
the profile that auth caches in Redis and the gateway forwards as headers.

The hazards, each at its line with the properties that would notice it, are
listed in `PROJECT.json`; every one of them has a property. Where the code leaves a
hazard open (no recovery of a lost job, a message without its answer) the property
says exactly what is then left behind, and the hazard's note says so.

## 2. Modules

### fsrs-ai

**FsrsCards.** One user's cards and review log, written by any number of
concurrent requests. A request is a database session: `loaded`, `seen` and `new`
are SQLAlchemy's identity map with the loaded and the current value of each row,
`dirty` the object changed and not yet flushed, `held` the rows locked by its
flushes, `pend` the log rows added. One action stands for the code between two
SQL statements: `ReviewCard`, `InitCard` and `RescheduleCard` are one turn of the
loop of `bulk_review`, `init_cards` and `reschedule_cards`; `Flush` is the
autoflush before the next SELECT or the COMMIT; `Commit`; then `Answer`, or
`LoseAnswer` where the refresh of the rows after the commit fails and the caller is
told 500 of a batch that stands; `Abort` is a failed statement or a restart before
that; `DeadlockVictim` is PostgreSQL ending one transaction of a
cycle. The database is at READ COMMITTED, its default. What py-fsrs computes for
a card is `mem`, the set of reviews folded into it, which is all the properties
can tell apart. Grades are "again" or not. An UPDATE sets only the columns that
differ from the loaded row (`Written`), as SQLAlchemy's does. A card whose
replay raises in the library is passed over, which the model allows at any card.
A reschedule without trained weights returns at once and is left out. Durations
are positive by the request schema. `CanStep` collects the guards of a request's steps, so
that `NobodyStuck` can say without ENABLED that somebody is always able to go on.

**ReviewHistory** is what FsrsCards promises of the review log: a request asks, its
batch enters the log, it is answered. Entering (`Enter`) adds the rows of all items at
once, stamped in the order of the body with stamps given before it, and nothing else
touches the log. A request fails before that and has left nothing, or after it and
has left everything.
`ImplementsHistory` is the refinement: `Asked` maps a session to where its request
is and the items it is to log (none for an initialisation or a reschedule).

**ModelVersions.** `fsrs_config` and `fsrs_model_version` of one user. A request
loads the config (inserting it when there is none), passes the gate, trains, asks
for the next version number and saves; a rollback picks its target, and its query
for the number flushes the changed config, which locks the row. Training is
synchronous, so that between the gate and the query nothing else of the service
runs. What the training returns and whether the metric improves enough are free
choices, except that a candidate equal to the weights in use never improves on
them. `Respond` is the end of the router, after the commit: it raises unless
`Settings` has the flag it reads (`SettingsFields` is the list of `config.py`); if
it had, the reschedule would be queued there (`Scheduled`). `Reschedule` is
`POST /helper/reschedule` in one step (its inside is in FsrsCards). `base` and
`mixed` are history: what the request had seen when it read its config, and
whether a config was written over another one than was read.

**VersionLog** is what ModelVersions promises: a log of trained models that only
grows, numbered without gaps, with a version and weights in use that change only
together with an entry that says so and always to an accepted model. It knows no
outcomes of requests: one that is answered with an error after its commit (as by
`Respond`) has added its entry whole, one that ended before has added none. A rollback
may restore one half only, which is what the code does when it overlaps another
request (see the run `rollback`). `ImplementsLog` is the refinement: rows without
their history are the log, the highest number is the counter.

### learn

**Streak.** `recordActivity` in its steps: take the date, SELECT, INSERT or
UPDATE. `Midnight` may come between any two. `recorded` and `raced` are history.

**Practice** extends Streak with `submitFSRS`: the HTTP call to fsrs-ai, the
practice session and the streak (each best effort), the purge, the answer. The
call may fail before or after fsrs-ai has committed, any step may be cut short,
and the user submits an exercise again when no answer came. Calls of lessons and
saved words record activity beside it.

**LessonCompletion.** `POST /lessons/:id/complete` statement by statement, first
`ProgressService.completeLesson`, then the best-effort part of
`LessonsService.completeLesson`. `Break` ends a request at any statement (a failed
statement or a restart); `AddWord` and `AddLesson` are an author's edits, which the
model has because the handler reads the lesson's words twice. `late` collects the
words added between the two reads of their lesson, `overlapped` the lessons that two
requests found not completed before either had marked them. `catalog`, `done`,
`unlocked`, `course`, `sessions` are the tables of the learn schema, `cards` the
cards of fsrs-ai, whose init-cards is one transaction.

**ReadThroughCache.** The fifteen getters that cache and every writer of the
service with the scopes it deletes afterwards. `endpoint` picks the getter that is
watched; an entry is absent, fresh or stale. A getter reads, then fills; a writer
writes, then deletes scope by scope, and an error of Redis skips one. `Uncovered`
names the writes whose deletions do not reach an endpoint that reads them
(adjusting a next review, initialising a card, a new dictionary word for users
other than the one who saved it): the property excuses exactly these.

**DictionaryWords** and **VocabularyNotes.** Saving an entry of the dictionary is
cut in two at the word it finds or creates: the rows of words with their examples
and audio, the background sync and an administrator's removal in the first, the
note, the progress row, the background card, favourites and note edits in the
second.

### The gateway and auth

**AuthSession.** The tokens of one browser: `jar` holds its cookies, which change
only when an answer arrives (`Deliver`), so several tabs, lost and reordered
answers interleave. `Admit` is the gateway's or the strategy's check,
`RefreshTokens` and `Logout` blacklist, `RevokeFails` is one of the two parallel
writes failing. `origin` records of every pair the login it belongs to and the
refresh token it was minted from.

**EmailTokens.** Registration, verification and reset of one address: the row's
token hashes, the mail after the commit that may fail, the find by hash and the
later write.

**UserProfile.** The row, the linked Google account and the profile cached in
Redis for the gateway: registration, login, Google login in its three statements,
`/auth/me`, edits and the administrator's changes, each reading or writing row
and cache in steps of its own. Neither the administrator's edit nor the removal of
a user touches Redis; a user created again with the address has another id, and so
another entry (`Insert`).

**GatewayLimiter.** The counter per time window: INCR, then EXPIRE by the request
that created the key; errors of Redis let a request pass, a restart may fall
between the two calls, keys expire, and a slow request counts in an old window.

### Generative, listening, storage

**TutorSession.** The session as one JSON value that a request reads whole and
writes back whole after the language model; the client turn id is a second key
looked up before and stored after. A failed read of Redis finds nothing.

**RoleplayChat.** Start and chat as chains of statements around the model; the
evaluation written is computed from the one read before.

**ProviderCalls.** Speech to text, the model and speech behind one turn, with the
three attempts, the errors that are not tried again and the fallbacks. A role play
asks for no voice where the client declines one (`skip`, the code's `skipTts`), no turn
does without a key (`Voiceless`).

**ListeningContent.** The chunks and checkpoints of a transcript and the repair
of what the model returns, for every shape of answer (a failed call, too few
words, what is no word at all, a question with a wrong option index). If the
model names too few words the transcript's own are taken, those long and rare
enough (`Eligible`), which may be none. A null or a number among the words
throws where they are cleaned and fails the extraction (`FailExtraction`). The
loop over the segments is the recursive function `Taken`, one segment after
another.

**ListeningLesson.** The lesson's status and lists, the background job and the
editors, each on a database session that loaded the lesson with its children. What
is generated (`Generated`) is empty for a transcript that is, and a vocabulary may be
empty for any, on a lesson that is READY; `wordless` remembers that the last one was.

**StoredFiles.** Uploads to Cloudinary and the rows about them: ingesting a URL
(fetch, upload under an id made from the URL, row), recorded audio (whose id, made
from its beginning and the millisecond, two recordings may share) and signed uploads
of a browser. `RegisterFile` is POST /files, which stores a row for whatever file
the body names, uploaded or not; `claimed` remembers the files described that way.

### Composition and proof modules

The `MC*` modules give constants and symmetry. MCLearn, MCEdge and MCGenerative put
several components of a service into one run; components that share state are
composed in a module (Practice with Streak), those that share none move one at a
time, chosen initially by `part`: interleaving parts that cannot influence each
other would multiply the states without reaching a new one of any part.
Proofs are in eight modules: `FsrsCardsProofs`, `ModelVersionsProofs`, `StreakProofs`,
`LessonCompletionProofs` and `EmailTokensProofs` extend the module they speak of;
`LearnProofs`, `EdgeProofs` and `GenerativeProofs` extend the MC module of their
service and prove the properties of its parts there, under the composed
specification that the run checks.

## 3. Runs and bounds

| run | shows | bounds and why they are enough |
|---|---|---|
| `cards` | counters and memory stay within the log, the log is the history of whole batches (refinement of ReviewHistory), cards are never blanked again, counters agree without a race, somebody can always go on | two words, three requests, five bodies: a lapse, two batches in opposite orders, both initialised, both rescheduled. Three requests give a reader, a writer and a third that reads what they left; two words give partial batches and lock cycles |
| `cards_live` | every request ends | two requests are a cycle of locks |
| `versions` | numbering, accepted models, weights and cooldown without overlap; the refinement of VersionLog | two slots used again and again until there are four versions, so that a rollback of a rollback and an overlap with both kinds occur; two days with a cooldown of one |
| `lesson` | course completion, unlocking, cards, sessions; no deadlock | two slots, three lessons (two of a course, one that an author may add to it), a word an author may add, one request cut short (`MaxBreaks`) |
| `learn` | the streak against the recorded days, reviews after lost answers, reasons of a stale entry, one word per entry, kept notes | a submit tried twice beside another call over five days (a run, a gap, a second run); two users and two requests for each of fifteen getters; two requests for an entry and two rows; three requests for one user's note |
| `edge` | one token per login, no reuse, a fresh profile, kept accounts, the exact limit | two tabs and three pairs (a login, its refresh, and a second of either); three profile versions; three callers over two windows with a limit of two, so that one is refused |
| `emails` | a token is used once; a lost mail is no dead end | the owner of the address and somebody else who registers it, asks for mails and uses tokens beside them |
| `generative` | turns, role plays, retries, listening content and its lesson, uploads and rows | two requests in every part; two turn ids, two turns kept of three made; two sessions, two tasks, two messages; six segments of one or two words against chunks of three; two generations; two files, one made from a URL, with two contents |
| `rollback`, `cooldown`, `reschedule`, `stuck_lesson` | the divergences below | the smallest instance that shows each |

The bounds in guards are `MaxDay`, `MaxLogs`, `MaxVersion`, `MaxBreaks`, `MaxTries`,
`MaxPairs`, `MaxWindow`, `MaxTurns`, `MaxMessages`, `MaxSegments`, `MaxGenerations`,
`MaxContent`, each commented `bound` where it is declared, and one in
`GatewayLimiter.Arrive`: callers stop two past the limit of a window.

Symmetry is used where requests are interchangeable and no liveness is checked.
Deadlock is checked for `lesson` and `stuck_lesson`; elsewhere an instance really
stops, once all its requests are answered or a bound is reached.

### What the four violation runs show
* `cooldown`: two overlapped optimise requests are accepted on one day, though
  the README speaks of a cooldown between two accepted ones. Without overlap
  it holds (`CooldownUnlessOverlapped`).
* `rollback`: a rollback overlapped by an accepted optimisation leaves the
  current version with weights of another one. Without overlap they belong
  together (`WeightsOfCurrentVersion`).
* `reschedule`: the optimise route reads a setting that does not exist, after
  the commit: it answers 500 and no reschedule is queued.
* `stuck_lesson`: a completion cut short after the first upsert is refused for
  ever after, so the words are never unlocked.

### Properties that name what they excuse
Most properties hold only outside a window that the code leaves open. The window
is then a history variable (`raced`, `overlapped`, `late`, `duplicated`,
`excused`, `tainted`, `disturbed`, `reuploaded`, `claimed`, `broken`,
`wordless`, `lost`), set by exactly the interleaving the property blames, so
that any other way to break the promise is still found. What they say about the
code, besides the promise:
* a streak, a counter or a profile can only be too small or too old, and only when
  two requests overlapped; a card's counters never exceed the log;
* a submit that was committed by fsrs-ai and never answered is reviewed again by
  the retry; nothing else reviews twice;
* a refresh token spent by two requests at once makes two live tokens of a login;
* a session written back by a request that had read it earlier loses turns, or
  comes back to life after it was ended;
* a word gets a card without being unlocked only if an author added it between the
  two reads of a completion; a lesson gets a second session only from completions
  that had both passed the check before either marked it;
* a listening lesson that is ready without words is one whose last generation found
  none, and one that stays in process is one whose job broke off;
* a file row that names no upload is one a client wrote by itself;
* a Google login that finds no row and meets a second one is refused once, not for
  ever; an edit between its statements is overtaken.

### Met while modelling, without a run
* `learn/test/app.e2e-spec.ts:106` ("accepts repeated completion calls") stubs
  `ProgressService`; the real one answers a repeated completion with 409.
* A completed tutor session can be ended again.
* The checkpoints of a listening lesson repeat when there is one segment more than
  questions; an option index past the list is clamped, which may name a wrong
  option as the right one; start and end times the model returns are not checked.
* When the listening job fails to store its result, it marks the failure on the
  session whose flush has just failed, so that the lesson stays `PROCESSING`.
* Two overlapping regenerations of a list leave both lists.
* A null or a number in the model's list of words fails the whole extraction of the
  vocabulary, though a call that fails is made up for
  (`listening-ai.service.ts:242`).
* A bulk review whose rows cannot be refreshed after the commit is answered 500; a
  client that retries reviews twice (`fsrs_service.py:324`).
* A removed user's profile stays in Redis until it expires
  (`users.service.ts:133`).
* POST /files stores any id, size and URL without asking Cloudinary
  (`files.service.ts:63`).
* Ingesting a URL again uploads its audio over the old one and then answers 409,
  because the row exists.

## 4. Fairness
`FsrsCards` and `ModelVersions` assume weak fairness of the steps of a request that is being served:
the event loop, the library and the database keep running and a statement that can
run does. Nothing forces a request to arrive or to fail. Weak fairness suffices
because what a request waits for is released by another request's own fair steps.
`DeadlockVictim` is one of them: PostgreSQL's detector always runs.

`RetrySpec` of LessonCompletion also assumes a client that repeats its request for
every lesson, the most a client can do; the property fails even then.

`FairSpec` of EmailTokens speaks of the owner of the address, who is not part of the
service: they ask for another mail and use what arrives as often as they can (strong
fairness of `Send`), the service finishes their requests (weak fairness of
`Step`), and the provider and the database do not fail every time. The other
client may do anything, including asking for mails that make the owner's old.
`LostMailRecovers` is then that the service has no state in which asking again
does not help.

The other modules state safety only: their requests are answered or fail within
a fixed number of statements, and nobody waits for anybody.

## 5. Proofs
Every theorem holds for all values of the constants that the assumptions named
`...Assumption` allow, which TLC evaluates on every run. They ask for little:
`CardsAssumption` for finitely many words and typed batches; `VersionsAssumption` for
positive weights and natural bounds; `LessonsAssumption` for finitely many lessons and
a typed catalogue, whatever the number of requests; `StreakAssumption` and
`PracticeAssumption` for natural bounds and learners among the callers;
`LearnAssumption` that "none" names no word; `LimiterAssumption` and
`EdgeAssumption` for finitely many clients and natural bounds;
`GenerativeAssumption` for natural bounds, at least one turn kept, and the files made
from a URL among the files.

* **FsrsCardsProofs**: `TypeCorrect`, `WithinLogCorrect`, `NeverBlanked`,
  `BatchesAtomic`, `CardsAgree`, `HistoryImplemented`, `RequestsAdvance`,
  `SomeoneCanGoOn`, `OrderedBodiesNeverDeadlock`. "The card is within the log" is not inductive,
  because an open session holds rows that do not exist yet. `CardsInv` adds that
  every row a session has loaded or made is within the committed log *plus* the
  session's own pending reviews, and that pending reviews are new to the log
  (their stamp is fresh). Then a commit of some columns on top of a changed row
  stays within the log, which is why a lost update makes a counter too small and
  never too large. `BlankInv` says of a session that it inserts a blank card only
  where it had found none and that a held, blank insert means no such row;
  `BatchInv` counts the pending rows by the position in the batch.
  `CardsAgree` is the converse of the bounds: without a row overwritten from a stale
  read, counters and memory are the log exactly. Its invariant `AgreeInv` speaks of
  every session and word (`Folds`): if nobody has committed to the word since the
  session loaded it, which shows in the reviews the loaded row remembers, the
  session's row agrees with the log and its pending reviews together; and a row
  that is locked, and not raced, is still the row that was loaded. An UPDATE of the
  changed columns then completes a row that agrees, whatever the columns are.
  `HistoryInv` says of an open bulk review that some ascending row of stamps, all
  given already, turns the items it has processed into exactly its pending rows
  (`Stamped`); a commit then is the `Enter` of ReviewHistory, and every other step one
  of its other steps or a stutter.
  Three theorems are the part of `EveryRequestEnds` that needs no fairness. Every step
  is one request's, leaves the others where they are and lessens what that one has
  left to do (`ToDo`); while somebody is being served somebody can go on; and from
  the two, as soon as no more requests arrive, finitely many steps are left to take.
  The argument for `SomeoneCanGoOn` is that if no running request could step, each
  would wait for a row that another running one holds, and the smallest set of requests
  that wait only for each other is such a cycle as the database ends.
  `OrderedBodiesNeverDeadlock` says where the cycles come from: if all bodies under way
  name their words in one common order, whoever waits wants a smaller word than the one
  it waits for, so that a cycle would descend for ever.
* **ModelVersionsProofs**: `VersionsTyped`, `NumberingCorrect`,
  `OnlyAcceptedModels`, `WeightsCorrect`, `CooldownCorrect`, `LogImplemented`.
  `VersionsInv` adds that no open request holds a number above the next free one, so
  that a number from a stale maximum is still the next one or taken, and that what
  a session's config carries belongs to accepted rows, which are never deleted. The
  unique constraint (`Taken`) is what keeps the numbering dense. `LogInv` adds what
  a request that has decided is about to write; under it every step of every
  interleaving is a step of VersionLog or a stutter. `TrailInv` relates the day of
  the last training a session has read to the days of the versions it had seen.
* **LessonCompletionProofs**: `LessonTyped`, `CourseCorrect`, `CourseKept`,
  `UnlockingCorrect`, `SecondSessionOverlapped`. In `LessonInv` a complete course that is
  not marked so has a request that is still to count its lessons
  (`Finisher`), so two requests cannot both miss the last one. From its unlocking on,
  what a request has read or will read of its lesson beyond its first read was added
  late (`Unlocks`). In `SessionsInv` a lesson that is not `overlapped` has one session, or
  one request that may still write it, or none (`Alone`); who is past the mark has
  marked the lesson (`Marked`), so that nobody joins later.
* **StreakProofs**: `StreakTyped`, `StreakEarned`, `StreakExact`. Every row stored or
  read counts recorded days that end with its last one (`Covered`); recorded days
  are never taken back, so a row read long ago still does. Without a race the last
  day is the last recorded one and the day before the streak is not (`Exact`).
* **EmailTokensProofs**: `TokensTyped`, `UsedOnce`. Without overlapping issues or
  uses at most one request has found a token and the row still holds it (`Once`).
* **LearnProofs**: `LearnTyped`, `LearnStreaks`, `SubmitsExplained`, `CacheExplained`,
  `EntriesUnique`, `NotesKept`.
  * `SubmitsInv` says that a submit is under way or answered and never both, that one
    about to store its session has a review no session is for, and that every review
    is one of the tries'; the streak's own invariant (`ExactInv`) is carried through
    the retries beside it.
  * `CacheInv` turns on a fact about the table of writers: whatever data a
    phase changes, that phase or a later one deletes every scope whose entries read
    that data, apart from `Uncovered` (`Covers`, shown writer by writer). An entry that
    is stale therefore has a writer that still has the deletion before it
    (`WillDelete`), unless a getter had read before the write or an error skipped it.
  * `WordsInv`: a save that looks for a word of the entry knows every row with the
    entry's id that there is, as long as no other write came between (`KnowsRows`).
  * `NotesInv`: a save beyond the upsert of its note still finds it unless a removal
    says so, and one that is about to answer finds progress.
* **EdgeProofs**: `LimitCorrect`, `EdgeTyped`, `OneToken`, `NoReuse`, `ProfileIsFresh`,
  `AccountKept`, `EdgeLimit`.
  * Limit: those let through plus those counted with a number within the limit are
    as many as the counter says, up to the limit (`Exact`), in every window
    without a failure.
  * Tokens: a login none of whose tokens was spent twice is a chain (`Chain`). Only
    its newest pair can have a refresh token that works; of every older pair the access
    token is blacklisted or can be presented no more (`Presents`). That needs to know
    where a pair may be: an answer on its way is the only place of its pair
    (`InTransit`), cookies hold one pair (`CookiesPaired`), and a refresh past its guard
    is the only one to spend its token (`Sole`).
  * Profile: unless something is known to have gone wrong, whoever is about to write
    the row or the cache holds the row's version, and a cached profile that differs is
    about to be replaced by that version (`Fresh`, `Kept`). What a Google login that
    nothing overlapped has found out still holds (`LoginFits`), so it is not refused.
  * `Bounded` and `Counts` show that the bounds in the guards suffice for typing:
    those who may still mint or count fit into what is left.
* **GenerativeProofs**: `GenerativeTyped`, `TurnsKept`, `PlayKept`, `TurnsJustified`,
  `ListeningSound`, `RowsDescribe`. The six parts share no variable; each has an
  invariant of its own and a lemma that it stays when its state does.
  * `TutorInv`: a client turn whose key was never missed has one request at most that
    makes it; until that one has stored the key nobody else can, and the session holds
    it once (`OnceOnly`). A session written back ends with the turns made last, which
    rests on cutting after every turn being the same as cutting once at the end.
  * `PlayInv`: a request carries the session it is about, whose evaluation exists, and
    the message it stored, which has been said.
  * `ProvidersInv`: while a turn waits for a provider, nothing asked before it has
    failed for good and the provider has attempts left.
  * `LessonInv`: until its job is done a lesson is neither ready nor failed, so that an
    editor who has seen it otherwise knows that only editors write to it (`Settled`). A
    lesson has transcript and questions once it is ready and nothing in its lists before
    (`Stocked`), so that an editor who loaded it early has no transcript to regenerate
    from and takes no row away.
  * `ContentInv` holds for every answer of the model that ListeningContent has (any set
    of words with or without what is no word, any options and index, or none); the
    checkpoints come from
    lemmas on integer division (a quotient grows by at least one when its dividend
    grows by the divisor). That the chunks put together are the transcript is proved
    segment by segment: after n of them the chunks closed and the one being filled
    are the first n segments, and every closed one has its words (`Cut`). The library's induction
    theorems take an operator as parameter, which the provers cannot instantiate; `AllNumbers` says the same of a
    *set* of numbers, from its least counterexample, and `Iterates` gives the values of a
    recursive function from that.
  * `FilesInv`: between upload and row a request holds what is at Cloudinary, unless
    the file was uploaded again, whatever rows clients write meanwhile.

Only model-checked:
* liveness (`EveryRequestEnds`, `LostMailRecovers`), which needs ENABLED; of the
  first, what is said of the steps themselves is proved (see FsrsCardsProofs);
* what the violation runs refute, which is false.

## 6. Not modelled
* fsrs-ai: `POST /review` passes `had_wrong` (`routers/review.py:73`), which neither
  the request nor the service has, so it raises before the service is reached;
  `auto_grade`, which only that path would use. The clamp of due dates after a
  reschedule (`optimizer_service.py:371`) is data of the card that no property
  looks at. Reports and due queries only read.
* learn: permission checks, filters and pages of the catalogue; the search of the
  dictionary sites, which is external HTTP.
* auth and gateway: `changePassword` and the administrator's listing; routing, path
  rewriting, health checks. A late answer whose clearing cookies arrive after a
  newer login (`gateway-proxy.service.ts:692`) is in AuthSession as a delivery like
  any other: it costs a login and breaks no property.
* generative: the writing of scenarios, summaries, translation and suggestions are
  one call and one statement each; prompts and the parsing of JSON.
* listening-service: cloze blanks and the extraction of transcripts, which are
  text and external HTTP; getters.
* storage: listings.
* notification, the shared packages, logging, error formatting, deployment scripts
  and diagrams keep no state of their own.

Left for later: abstract promises for the modules besides FsrsCards and ModelVersions,
and action properties beyond those listed.
