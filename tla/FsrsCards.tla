----------------------------- MODULE FsrsCards -----------------------------
(***************************************************************************)
(* The card and review tables of the fsrs-ai service, for one user.        *)
(*                                                                         *)
(* Every endpoint that writes cards (bulk review, init-cards, reschedule)  *)
(* is one database transaction on its own session, at the READ COMMITTED   *)
(* level: each statement sees what is committed when it runs, and nothing  *)
(* locks a row between the SELECT that loads it and the UPDATE that writes *)
(* what was computed from it.  A session flushes the row it has changed    *)
(* before its next SELECT (autoflush) and before COMMIT; from that flush   *)
(* on it holds the row until the transaction ends.                         *)
(*                                                                         *)
(* The memory of a card (card_data, stability, difficulty, state, due) is  *)
(* abstracted to "mem", the set of reviews that were folded into it.       *)
(***************************************************************************)
EXTENDS Naturals, Sequences, FiniteSets

CONSTANTS
    Words,        \* word ids
    WordOrder,    \* the words ORDER BY word_id, the order of a reschedule
    Requests,     \* HTTP requests being served, each with its own session
    Batches,      \* bodies of POST /review/bulk: sequences of items
    InitLists     \* word_ids of POST /init-cards: sequences of items

Item == [word : Words, again : BOOLEAN]

ASSUME CardsAssumption ==
    /\ IsFiniteSet(Words)
    /\ WordOrder \in Seq(Words)
    /\ Batches \subseteq Seq(Item)
    /\ InitLists \subseteq Seq(Item)

VARIABLES
    card,    \* card[w]: the committed card_memory_state row of w
    logs,    \* logs[w]: the committed review_log rows of w
    clock,   \* the reviewed_at stamp of the next review
    work,    \* work[r]: the session and the program counter of request r
    raced    \* history: words whose row was overwritten from a stale read

vars == <<card, logs, clock, work, raced>>

Kinds == {"review", "init", "reschedule"}
PCs   == {"idle", "run", "committed", "done", "failed"}

\* A review_log row: the request that wrote it, reviewed_at, and whether its
\* grade is Again (1).  Grades 2, 3 and 4 differ only inside the scheduler.
Log == [by : Requests, at : Nat, again : BOOLEAN]

Row == [exists : BOOLEAN, reps : Nat, lapses : Nat, mem : SUBSET Log]

NoRow    == [exists |-> FALSE, reps |-> 0, lapses |-> 0, mem |-> {}]
BlankRow == [exists |-> TRUE, reps |-> 0, lapses |-> 0, mem |-> {}]

Lapses(L) == {l \in L : l.again}

Session ==
    [pc     : PCs,
     kind   : Kinds,
     batch  : Seq(Item),               \* the request's items
     next   : Nat,                     \* the item to be processed next
     loaded : SUBSET Words,            \* the identity map
     seen   : [Words -> Row],          \* rows as they were loaded
     new    : [Words -> Row],          \* the session's objects
     dirty  : SUBSET Words,            \* changed, not flushed
     held   : SUBSET Words,            \* flushed, hence locked
     pend   : [Words -> SUBSET Log]]   \* log rows added, not committed

Closed ==
    [pc |-> "idle", kind |-> "review", batch |-> << >>, next |-> 1,
     loaded |-> {}, seen |-> [w \in Words |-> NoRow],
     new |-> [w \in Words |-> NoRow], dirty |-> {}, held |-> {},
     pend |-> [w \in Words |-> {}]]

Init ==
    /\ card  = [w \in Words |-> NoRow]
    /\ logs  = [w \in Words |-> {}]
    /\ clock = 1
    /\ work  = [r \in Requests |-> Closed]
    /\ raced = {}

-----------------------------------------------------------------------------
(* Requests arrive.                                                        *)

Begin(r, kind, batch) ==
    [work[r] EXCEPT !.pc = "run", !.kind = kind, !.batch = batch]

BeginBulkReview(r) ==
    /\ work[r].pc = "idle"
    /\ \E b \in Batches : work' = [work EXCEPT ![r] = Begin(r, "review", b)]
    /\ UNCHANGED <<card, logs, clock, raced>>

BeginInitCards(r) ==
    /\ work[r].pc = "idle"
    /\ \E b \in InitLists : work' = [work EXCEPT ![r] = Begin(r, "init", b)]
    /\ UNCHANGED <<card, logs, clock, raced>>

AllWords == [i \in DOMAIN WordOrder |-> [word |-> WordOrder[i], again |-> FALSE]]

\* The user has trained weights: reschedule_cards loads every card of the user
\* in one SELECT.  (Without weights it returns and changes nothing.)
BeginReschedule(r) ==
    /\ work[r].pc = "idle"
    /\ work' = [work EXCEPT ![r] =
                  [Begin(r, "reschedule", AllWords) EXCEPT
                     !.loaded = {w \in Words : card[w].exists},
                     !.seen   = card,
                     !.new    = card]]
    /\ UNCHANGED <<card, logs, clock, raced>>

-----------------------------------------------------------------------------
(* One item at a time.  A session that has a dirty row flushes it first.   *)

Ready(r, kind) ==
    /\ work[r].pc = "run"
    /\ work[r].kind = kind
    /\ work[r].next \in DOMAIN work[r].batch
    /\ work[r].dirty = {}

Current(r) == work[r].batch[work[r].next]

\* SELECT through the identity map: a row the session has already loaded is
\* the session's object, any other one is what is committed now.
Fetched(r, w) == IF w \in work[r].loaded THEN work[r].new[w] ELSE card[w]

\* The session after that SELECT, at the next item.
Load(r, w) ==
    [work[r] EXCEPT !.next    = @ + 1,
                    !.loaded  = @ \cup {w},
                    !.seen[w] = IF w \in work[r].loaded THEN @ ELSE card[w],
                    !.new[w]  = Fetched(r, w)]

\* Variant: a passed review takes a lapse back.
Reviewed_ForgivesLapse(row, log) ==
    [exists |-> TRUE,
     reps   |-> row.reps + 1,
     lapses |-> IF log.again THEN row.lapses + 1 ELSE row.lapses - 1,
     mem    |-> row.mem \cup {log}]

\* Variant: reps is bumped by the library and again by the service.
Reviewed_CountedTwice(row, log) ==
    [exists |-> TRUE,
     reps   |-> row.reps + 2,
     lapses |-> IF log.again THEN row.lapses + 1 ELSE row.lapses,
     mem    |-> row.mem \cup {log}]

\* The row after the scheduler has processed one more review.
Reviewed(row, log) ==
    [exists |-> TRUE,
     reps   |-> row.reps + 1,
     lapses |-> IF log.again THEN row.lapses + 1 ELSE row.lapses,
     mem    |-> row.mem \cup {log}]

\* One turn of bulk_review's loop: review_card with autocommit off.
ReviewCard(r) ==
    /\ Ready(r, "review")
    /\ LET w   == Current(r).word
           log == [by |-> r, at |-> clock, again |-> Current(r).again]
       IN  work' = [work EXCEPT ![r] =
                      [Load(r, w) EXCEPT !.new[w]  = Reviewed(@, log),
                                         !.pend[w] = @ \cup {log},
                                         !.dirty   = {w}]]
    /\ clock' = clock + 1
    /\ UNCHANGED <<card, logs, raced>>

\* Variant: the lookup of the existing card is left out.
NeedsCard_Always(row) == TRUE

\* A word that has a card keeps it, any other gets a blank one.
NeedsCard(row) == ~row.exists

InitCard(r) ==
    /\ Ready(r, "init")
    /\ LET w == Current(r).word
       IN  work' = [work EXCEPT ![r] =
                      IF NeedsCard(Fetched(r, w))
                      THEN [Load(r, w) EXCEPT !.new[w] = BlankRow, !.dirty = {w}]
                      ELSE Load(r, w)]
    /\ UNCHANGED <<card, logs, clock, raced>>

\* Variant: only passed reviews are replayed.
Replayed_PassesOnly(L) ==
    [exists |-> TRUE,
     reps   |-> Cardinality(L),
     lapses |-> Cardinality(Lapses(L)),
     mem    |-> L \ Lapses(L)]

\* The row after the whole history L has been replayed.
Replayed(L) ==
    [exists |-> TRUE,
     reps   |-> Cardinality(L),
     lapses |-> Cardinality(Lapses(L)),
     mem    |-> L]

\* One turn of the loop over the loaded cards: SELECT the logs of the word and
\* replay them.  A word without logs, or whose replay raises in the library,
\* is passed over.
RescheduleCard(r) ==
    /\ Ready(r, "reschedule")
    /\ LET w == Current(r).word
           s == [work[r] EXCEPT !.next = @ + 1]
       IN  \/ work' = [work EXCEPT ![r] = s]
           \/ /\ w \in work[r].loaded
              /\ logs[w] # {}
              /\ work' = [work EXCEPT ![r] =
                            [s EXCEPT !.new[w] = Replayed(logs[w]),
                                      !.dirty  = {w}]]
    /\ UNCHANGED <<card, logs, clock, raced>>

-----------------------------------------------------------------------------
(* Flush, commit and the ways a transaction ends without one.              *)

Holders(w) == {q \in Requests : w \in work[q].held}

\* A row is free for r when no other open transaction has written it.
Free(r, w) == Holders(w) \subseteq {r}

\* Variant: the session of a failed request is not closed.
Rollback_LeavesSession(r) == [work[r] EXCEPT !.pc = "failed"]

\* Leaving get_db's "async with" closes the session: what it held is released
\* and nothing of it is kept.
Rollback(r) == [Closed EXCEPT !.pc = "failed", !.kind = work[r].kind,
                              !.batch = work[r].batch]

\* The flush of the dirty row: an INSERT if the session found no row, else an
\* UPDATE.  It waits while another transaction holds the row.  An INSERT that
\* finds a committed row then violates uq_user_word and the request fails.
Flush(r) ==
    /\ work[r].pc = "run"
    /\ \E w \in work[r].dirty :
         /\ Free(r, w)
         /\ IF card[w].exists /\ ~work[r].seen[w].exists
            THEN /\ work' = [work EXCEPT ![r] = Rollback(r)]
                 /\ raced' = raced
            ELSE /\ work' = [work EXCEPT ![r] =
                               [work[r] EXCEPT !.dirty = {}, !.held = @ \cup {w}]]
                 /\ raced' = IF card[w] = work[r].seen[w] THEN raced
                             ELSE raced \cup {w}
    /\ UNCHANGED <<card, logs, clock>>

\* An UPDATE sets only the columns whose value differs from the loaded one, on
\* top of the row as it is now.  The card object always differs.
Written(cur, seen, new) ==
    [exists |-> TRUE,
     reps   |-> IF new.reps # seen.reps THEN new.reps ELSE cur.reps,
     lapses |-> IF new.lapses # seen.lapses THEN new.lapses ELSE cur.lapses,
     mem    |-> new.mem]

\* Variant: the commit stands inside the loop.
AtCommit_InsideLoop(r) ==
    /\ work[r].dirty = {}
    /\ work[r].next > 1 \/ work[r].batch = << >>

AtCommit(r) ==
    /\ work[r].dirty = {}
    /\ work[r].next \notin DOMAIN work[r].batch

LogsAfter(r) == [w \in Words |-> logs[w] \cup work[r].pend[w]]

Commit(r) ==
    /\ work[r].pc = "run"
    /\ AtCommit(r)
    /\ card' = [w \in Words |->
                  IF w \in work[r].held
                  THEN Written(card[w], work[r].seen[w], work[r].new[w])
                  ELSE card[w]]
    /\ logs' = LogsAfter(r)
    /\ work' = [work EXCEPT ![r] =
                  [Closed EXCEPT !.pc = "committed", !.kind = work[r].kind,
                                 !.batch = work[r].batch]]
    /\ UNCHANGED <<clock, raced>>

\* The end of a request whose transaction is committed already.
Settle(r, pc) ==
    /\ work[r].pc = "committed"
    /\ work' = [work EXCEPT ![r] = [work[r] EXCEPT !.pc = pc]]
    /\ UNCHANGED <<card, logs, clock, raced>>

\* A bulk review reads its rows once more (db.refresh), locking none, before
\* any request is answered.
Answer(r) == Settle(r, "done")

\* One of those reads fails, or the service restarts: the caller is told that
\* the request failed, and all of it is committed.
LoseAnswer(r) == Settle(r, "failed")

\* A statement fails, a timeout expires or the service restarts.
Abort(r) ==
    /\ work[r].pc = "run"
    /\ work' = [work EXCEPT ![r] = Rollback(r)]
    /\ UNCHANGED <<card, logs, clock, raced>>

BlockedBy(r, q) == \E w \in work[r].dirty : w \in work[q].held /\ q # r

InCycle(r) ==
    \E S \in SUBSET Requests :
        /\ r \in S
        /\ \A p \in S : \E q \in S : BlockedBy(p, q)
        /\ \A p \in S : \E q \in S : BlockedBy(q, p)

\* PostgreSQL ends one transaction of every cycle of waiting ones.
DeadlockVictim(r) ==
    /\ InCycle(r)
    /\ work' = [work EXCEPT ![r] = Rollback(r)]
    /\ UNCHANGED <<card, logs, clock, raced>>

-----------------------------------------------------------------------------
Arrive(r) == BeginBulkReview(r) \/ BeginInitCards(r) \/ BeginReschedule(r)

Serve(r) ==
    \/ ReviewCard(r) \/ InitCard(r) \/ RescheduleCard(r)
    \/ Flush(r) \/ Commit(r) \/ Answer(r) \/ DeadlockVictim(r)

Next ==
    \E r \in Requests : Arrive(r) \/ Serve(r) \/ Abort(r) \/ LoseAnswer(r)

\* The event loop and the database keep running: a request that can take its
\* next step takes it.  Nothing forces a request to arrive or to fail.
Fairness == \A r \in Requests : WF_vars(Serve(r))

Spec == Init /\ [][Next]_vars /\ Fairness

-----------------------------------------------------------------------------
(* Properties.                                                             *)

TypeOK ==
    /\ card \in [Words -> Row]
    /\ logs \in [Words -> SUBSET Log]
    /\ clock \in Nat
    /\ work \in [Requests -> Session]
    /\ raced \subseteq Words

\* A card never runs ahead of the review log, whatever interleaving of reviews,
\* reschedules and failures produced it: a lost update may leave its counters
\* too small, never too large, and nothing of a batch that was rolled back on
\* a conflict, a deadlock or an error stays in the scheduler's memory of it.
CardsWithinLog ==
    \A w \in Words :
        /\ card[w].reps <= Cardinality(logs[w])
        /\ card[w].lapses <= Cardinality(Lapses(logs[w]))
        /\ card[w].mem \subseteq logs[w]

\* As long as no row was overwritten from a stale read, the card and the log
\* of a word agree exactly: every logged review is counted and remembered,
\* and a reschedule changes neither.
AgreeUnlessRaced ==
    \A w \in Words \ raced :
        card[w].exists =>
            /\ card[w].reps = Cardinality(logs[w])
            /\ card[w].lapses = Cardinality(Lapses(logs[w]))
            /\ card[w].mem = logs[w]

\* A bulk review is one transaction: the log is the history of ReviewHistory.
\* A batch enters it with every item, under the item's word and in the order
\* of the body, and before its request is answered; an open one has left no
\* trace in it, and one that failed is there whole (the refresh after the
\* commit failed) or not at all, never in part.
Asked ==
    [r \in Requests |->
       [pc   |-> work[r].pc,
        body |-> IF work[r].kind = "review" THEN work[r].batch ELSE << >>]]

History == INSTANCE ReviewHistory WITH Bodies <- Batches, asked <- Asked

ImplementsHistory == History!Spec

\* "If the card exists it is kept as it is": initialising cards again, at any
\* point of a review, never puts a studied card back to a blank one, and no
\* card disappears.
NeverBlankedAgain ==
    [][\A w \in Words :
         card[w].exists =>
            /\ card'[w].exists
            /\ card[w].mem # {} => card'[w].mem # {}]_vars

\* The guards of what Serve(r) may do.
CanStep(r) ==
    \/ Ready(r, work[r].kind)
    \/ \E w \in work[r].dirty : Free(r, w)
    \/ AtCommit(r)
    \/ InCycle(r)

Running == {r \in Requests : work[r].pc = "run"}

\* As long as requests are being served one of them can go on, however they
\* lock each other's rows: a transaction that has ended holds nothing back,
\* and waiting ones that depend on each other are a cycle the database ends.
NobodyStuck == Running # {} => \E r \in Running : CanStep(r)

\* No request waits for ever, though two batches may lock the same words in
\* opposite orders.
EveryRequestEnds ==
    \A r \in Requests :
        work[r].pc = "run" ~> work[r].pc \in {"done", "failed"}
=============================================================================
