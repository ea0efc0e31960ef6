-------------------------- MODULE FsrsCardsProofs --------------------------
(* What holds of the card and review tables for every number of words,     *)
(* requests and batches.                                                   *)
EXTENDS FsrsCards, FiniteSetTheorems, WellFoundedInduction, TLAPS

(***************************************************************************)
(* Type correctness.  Every action but the commit changes one session; the *)
(* lemmas say that each session the actions build is one.                  *)
(***************************************************************************)

LEMMA ClosedIsSession == Closed \in Session
BY CardsAssumption DEF Closed, Session, PCs, Kinds, Row, NoRow, Item

LEMMA RowTypes ==
    ASSUME NEW row \in Row, NEW log \in Log
    PROVE  Reviewed(row, log) \in Row
BY DEF Reviewed, Row

LEMMA BlankRowType == BlankRow \in Row
BY DEF BlankRow, Row

LEMMA AllWordsType == AllWords \in Seq(Item)
<1>1. WordOrder \in Seq(Words)
  BY CardsAssumption
<1>2. DOMAIN WordOrder = 1..Len(WordOrder) /\ Len(WordOrder) \in Nat
  BY <1>1
<1>3. \A i \in 1..Len(WordOrder) : WordOrder[i] \in Words
  BY <1>1
<1>4. AllWords \in [1..Len(WordOrder) -> Item]
  BY <1>2, <1>3 DEF AllWords, Item
<1> QED
  BY <1>2, <1>4

\* An assignment to one session keeps the others.
LEMMA SessionUpdate ==
    ASSUME work \in [Requests -> Session], NEW r \in Requests, NEW s \in Session,
           work' = [work EXCEPT ![r] = s]
    PROVE  /\ work' \in [Requests -> Session]
           /\ work'[r] = s
           /\ \A q \in Requests \ {r} : work'[q] = work[q]
OBVIOUS

LEMMA LoadType ==
    ASSUME TypeOK, NEW r \in Requests, NEW w \in Words
    PROVE  /\ Fetched(r, w) \in Row
           /\ Load(r, w) \in Session
           /\ Load(r, w).new = [work[r].new EXCEPT ![w] = Fetched(r, w)]
           /\ Load(r, w).pend = work[r].pend
           /\ Load(r, w).pc = work[r].pc
<1>1. work[r] \in Session /\ card[w] \in Row
  BY DEF TypeOK
<1>2. Fetched(r, w) \in Row
  BY <1>1 DEF Fetched, Session
<1>3. (IF w \in work[r].loaded THEN work[r].seen[w] ELSE card[w]) \in Row
  BY <1>1 DEF Session
<1> DEFINE s  == work[r]
           sn == [s.seen EXCEPT ![w] = IF w \in s.loaded THEN @ ELSE card[w]]
           nw == [s.new EXCEPT ![w] = Fetched(r, w)]
<1>4. Load(r, w) = [s EXCEPT !.next = s.next + 1, !.loaded = s.loaded \cup {w},
                             !.seen = sn, !.new = nw]
  BY DEF Load
<1>5. sn \in [Words -> Row] /\ nw \in [Words -> Row]
  BY <1>1, <1>2, <1>3 DEF Session
<1>6. s.next + 1 \in Nat /\ s.loaded \cup {w} \in SUBSET Words
  BY <1>1 DEF Session
<1> HIDE DEF sn, nw
<1>7. Load(r, w) \in Session /\ Load(r, w).new = nw
      /\ Load(r, w).pend = s.pend /\ Load(r, w).pc = s.pc
  BY <1>1, <1>4, <1>5, <1>6 DEF Session
<1> QED
  BY <1>2, <1>7 DEF nw

LEMMA RollbackType ==
    ASSUME TypeOK, NEW r \in Requests
    PROVE  /\ Rollback(r) \in Session
           /\ Rollback(r).new = [w \in Words |-> NoRow]
           /\ Rollback(r).pend = [w \in Words |-> {}]
<1>1. work[r] \in Session
  BY DEF TypeOK
<1> QED
  BY <1>1, ClosedIsSession DEF Rollback, Closed, Session, PCs

LEMMA ItemType ==
    ASSUME TypeOK, NEW r \in Requests, NEW kind, Ready(r, kind)
    PROVE  Current(r) \in Item /\ Current(r).word \in Words
                              /\ Current(r).again \in BOOLEAN
<1>1. work[r].batch \in Seq(Item)
  BY DEF TypeOK, Session
<1>2. work[r].next \in DOMAIN work[r].batch
  BY DEF Ready
<1>3. Current(r) \in Item
  BY <1>1, <1>2 DEF Current
<1> QED
  BY <1>3 DEF Item

(***************************************************************************)
(* The inductive invariant.  A row, committed or in a session, never       *)
(* counts or remembers more than the log rows committed for its word,      *)
(* together with those its own session has added (Within).  A new review   *)
(* raises both sides by one because its stamp is later than every other    *)
(* (Fresh); finiteness gives Cardinality its meaning.                      *)
(***************************************************************************)

Fresh(L, t) == IsFiniteSet(L) /\ \A l \in L : l.at < t

Within(row, L) ==
    /\ row.reps <= Cardinality(L)
    /\ row.lapses <= Cardinality(Lapses(L))
    /\ row.mem \subseteq L

CommittedWithin ==
    \A w \in Words : Fresh(logs[w], clock) /\ Within(card[w], logs[w])

SessionWithin(s, t) ==
    \A w \in Words :
        /\ Fresh(s.pend[w], t)
        /\ Within(s.new[w], logs[w] \cup s.pend[w])

CardsInv ==
    /\ TypeOK
    /\ CommittedWithin
    /\ \A r \in Requests : SessionWithin(work[r], clock)

LEMMA LogCounts ==
    ASSUME NEW L, IsFiniteSet(L)
    PROVE  /\ Cardinality(L) \in Nat
           /\ IsFiniteSet(Lapses(L))
           /\ Cardinality(Lapses(L)) \in Nat
<1>1. Lapses(L) \subseteq L
  BY DEF Lapses
<1> QED
  BY <1>1, FS_CardinalityType, FS_Subset

\* More log rows never invalidate a row.
LEMMA WithinMore ==
    ASSUME NEW row \in Row, NEW L, NEW M, IsFiniteSet(M), L \subseteq M,
           Within(row, L)
    PROVE  Within(row, M)
<1>1. IsFiniteSet(L) /\ Cardinality(L) <= Cardinality(M)
  BY FS_Subset
<1>2. Lapses(L) \subseteq Lapses(M)
  BY DEF Lapses
<1>3. IsFiniteSet(Lapses(M))
  BY LogCounts
<1>4. Cardinality(Lapses(L)) <= Cardinality(Lapses(M))
  BY <1>2, <1>3, FS_Subset
<1>5. /\ Cardinality(L) \in Nat /\ Cardinality(M) \in Nat
      /\ Cardinality(Lapses(L)) \in Nat /\ Cardinality(Lapses(M)) \in Nat
  BY <1>1, LogCounts
<1> QED
  BY <1>1, <1>4, <1>5 DEF Within, Row

LEMMA UnstudiedWithin ==
    ASSUME NEW L, IsFiniteSet(L)
    PROVE  Within(NoRow, L) /\ Within(BlankRow, L)
BY LogCounts DEF Within, NoRow, BlankRow

LEMMA ReviewedWithin ==
    ASSUME NEW row \in Row, NEW log \in Log, NEW L, IsFiniteSet(L), log \notin L,
           Within(row, L)
    PROVE  Within(Reviewed(row, log), L \cup {log})
<1>1. Cardinality(L \cup {log}) = Cardinality(L) + 1
  BY FS_AddElement
<1>2. Lapses(L \cup {log}) = IF log.again THEN Lapses(L) \cup {log} ELSE Lapses(L)
  BY DEF Lapses
<1>3. IsFiniteSet(Lapses(L)) /\ log \notin Lapses(L)
  BY LogCounts DEF Lapses
<1>4. Cardinality(Lapses(L) \cup {log}) = Cardinality(Lapses(L)) + 1
  BY <1>3, FS_AddElement
<1>5. Cardinality(L) \in Nat /\ Cardinality(Lapses(L)) \in Nat
  BY LogCounts
<1>6. Reviewed(row, log).reps <= Cardinality(L \cup {log})
  BY <1>1, <1>5 DEF Reviewed, Within, Row
<1>7. Reviewed(row, log).lapses <= Cardinality(Lapses(L \cup {log}))
  BY <1>2, <1>4, <1>5 DEF Reviewed, Within, Row
<1>8. Reviewed(row, log).mem \subseteq L \cup {log}
  BY DEF Reviewed, Within
<1> QED
  BY <1>6, <1>7, <1>8 DEF Within

LEMMA ReplayedWithin ==
    ASSUME NEW L \in SUBSET Log, IsFiniteSet(L)
    PROVE  Replayed(L) \in Row /\ Within(Replayed(L), L)
BY LogCounts DEF Replayed, Row, Within

\* A step that changes one session and commits nothing.
LEMMA OneSessionStep ==
    ASSUME CardsInv, NEW r \in Requests, NEW s \in Session,
           work' = [work EXCEPT ![r] = s],
           card' = card, logs' = logs, clock' \in {clock, clock + 1},
           raced' \subseteq Words, SessionWithin(s, clock')
    PROVE  CardsInv'
<1>1. TypeOK'
  BY SessionUpdate DEF CardsInv, TypeOK
<1>2. clock \in Nat /\ logs \in [Words -> SUBSET Log] /\ work \in [Requests -> Session]
  BY DEF CardsInv, TypeOK
<1>3. ASSUME NEW L \in SUBSET Log, Fresh(L, clock)
      PROVE  Fresh(L, clock')
  BY <1>2, <1>3 DEF Fresh, Log
<1>4. CommittedWithin'
  BY <1>2, <1>3 DEF CardsInv, CommittedWithin
<1>5. ASSUME NEW q \in Requests \ {r}
      PROVE  SessionWithin(work[q], clock)'
  <2>1. work'[q] = work[q] /\ work[q].pend \in [Words -> SUBSET Log]
    BY <1>2 DEF Session
  <2>2. SessionWithin(work[q], clock)
    BY DEF CardsInv
  <2> QED
    BY <1>3, <2>1, <2>2 DEF SessionWithin
<1>6. SessionWithin(work[r], clock)'
  BY <1>2 DEF SessionWithin
<1> QED
  BY <1>1, <1>4, <1>5, <1>6 DEF CardsInv

\* A session that has done nothing, or whose transaction has ended.
LEMMA NothingPending ==
    ASSUME CardsInv, NEW s, s.new = [w \in Words |-> NoRow],
           s.pend = [w \in Words |-> {}]
    PROVE  SessionWithin(s, clock)
<1>1. \A w \in Words : IsFiniteSet(logs[w] \cup s.pend[w])
  BY DEF CardsInv, CommittedWithin, Fresh
<1>2. \A w \in Words : Fresh(s.pend[w], clock)
  BY FS_EmptySet DEF Fresh
<1> QED
  BY <1>1, <1>2, UnstudiedWithin DEF SessionWithin

LEMMA CardsInit == Init => CardsInv
<1> SUFFICES ASSUME Init PROVE CardsInv
  OBVIOUS
<1>1. card \in [Words -> Row] /\ logs \in [Words -> SUBSET Log]
  BY DEF Init, NoRow, Row
<1>2. work \in [Requests -> Session]
  BY ClosedIsSession DEF Init
<1>3. TypeOK
  BY <1>1, <1>2 DEF Init, TypeOK
<1>4. Fresh({}, clock) /\ Within(NoRow, {})
  BY FS_EmptySet, UnstudiedWithin DEF Fresh
<1>5. CommittedWithin
  BY <1>4 DEF Init, CommittedWithin
<1>6. \A r \in Requests : SessionWithin(work[r], clock)
  BY <1>4 DEF Init, SessionWithin, Closed
<1> QED
  BY <1>3, <1>5, <1>6 DEF CardsInv

\* Steps that leave the session's objects and log rows alone.
LEMMA SameObjects ==
    ASSUME CardsInv, NEW r \in Requests, NEW s \in Session,
           s.new = work[r].new, s.pend = work[r].pend,
           work' = [work EXCEPT ![r] = s],
           UNCHANGED <<card, logs, clock>>, raced' \subseteq Words
    PROVE  CardsInv'
<1>1. SessionWithin(work[r], clock)
  BY DEF CardsInv
<1>2. SessionWithin(s, clock')
  BY <1>1 DEF SessionWithin
<1> QED
  BY <1>2, OneSessionStep

LEMMA ArriveStep ==
    ASSUME CardsInv, NEW r \in Requests, Arrive(r)
    PROVE  CardsInv'
<1>1. TypeOK /\ work[r] \in Session /\ raced \subseteq Words
  BY DEF CardsInv, TypeOK
<1>2. ASSUME NEW kind \in Kinds, NEW b \in Seq(Item)
      PROVE  /\ Begin(r, kind, b) \in Session
             /\ Begin(r, kind, b).new = work[r].new
             /\ Begin(r, kind, b).pend = work[r].pend
  BY <1>1 DEF Begin, Session, PCs
<1>3. CASE BeginBulkReview(r)
  <2>1. PICK b \in Batches : work' = [work EXCEPT ![r] = Begin(r, "review", b)]
    BY <1>3 DEF BeginBulkReview
  <2>2. b \in Seq(Item) /\ "review" \in Kinds
    BY CardsAssumption DEF Kinds
  <2> QED
    BY <1>1, <1>2, <1>3, <2>1, <2>2, SameObjects DEF BeginBulkReview
<1>4. CASE BeginInitCards(r)
  <2>1. PICK b \in InitLists : work' = [work EXCEPT ![r] = Begin(r, "init", b)]
    BY <1>4 DEF BeginInitCards
  <2>2. b \in Seq(Item) /\ "init" \in Kinds
    BY CardsAssumption DEF Kinds
  <2> QED
    BY <1>1, <1>2, <1>4, <2>1, <2>2, SameObjects DEF BeginInitCards
<1>5. CASE BeginReschedule(r)
  <2> DEFINE b == Begin(r, "reschedule", AllWords)
             s == [b EXCEPT !.loaded = {w \in Words : card[w].exists},
                            !.seen = card, !.new = card]
  <2>1. b \in Session /\ b.pend = work[r].pend
    BY <1>2, AllWordsType DEF Kinds
  <2> HIDE DEF b
  <2>2. s \in Session /\ s.new = card /\ s.pend = work[r].pend
    BY <1>1, <2>1 DEF Session, TypeOK
  <2>3. work' = [work EXCEPT ![r] = s]
    BY <1>5 DEF BeginReschedule, b
  <2> HIDE DEF s
  <2>4. ASSUME NEW w \in Words
        PROVE  /\ Fresh(s.pend[w], clock)
               /\ Within(s.new[w], logs[w] \cup s.pend[w])
    <3>1. Fresh(logs[w], clock) /\ Within(card[w], logs[w]) /\ Fresh(s.pend[w], clock)
      BY <2>2 DEF CardsInv, CommittedWithin, SessionWithin
    <3>2. IsFiniteSet(logs[w] \cup s.pend[w])
      BY <3>1, FS_Union DEF Fresh
    <3>3. card[w] \in Row
      BY <1>1 DEF TypeOK
    <3> QED
      BY <2>2, <3>1, <3>2, <3>3, WithinMore
  <2>5. SessionWithin(s, clock)
    BY <2>4 DEF SessionWithin
  <2> QED
    BY <1>1, <1>5, <2>2, <2>3, <2>5, OneSessionStep DEF BeginReschedule
<1> QED
  BY <1>3, <1>4, <1>5 DEF Arrive

\* A row read through the identity map is within the log the session sees.
LEMMA FetchedWithin ==
    ASSUME CardsInv, NEW r \in Requests, NEW w \in Words
    PROVE  /\ IsFiniteSet(logs[w] \cup work[r].pend[w])
           /\ Within(Fetched(r, w), logs[w] \cup work[r].pend[w])
<1>1. Fresh(logs[w], clock) /\ Within(card[w], logs[w])
  BY DEF CardsInv, CommittedWithin
<1>2. Fresh(work[r].pend[w], clock)
      /\ Within(work[r].new[w], logs[w] \cup work[r].pend[w])
  BY DEF CardsInv, SessionWithin
<1>3. IsFiniteSet(logs[w] \cup work[r].pend[w])
  BY <1>1, <1>2, FS_Union DEF Fresh
<1>4. card[w] \in Row
  BY DEF CardsInv, TypeOK
<1>5. Within(card[w], logs[w] \cup work[r].pend[w])
  BY <1>1, <1>3, <1>4, WithinMore
<1> QED
  BY <1>2, <1>3, <1>5 DEF Fetched

LEMMA ReviewStep ==
    ASSUME CardsInv, NEW r \in Requests, ReviewCard(r)
    PROVE  CardsInv'
<1> DEFINE w   == Current(r).word
           log == [by |-> r, at |-> clock, again |-> Current(r).again]
           l   == Load(r, w)
           n   == [l.new EXCEPT ![w] = Reviewed(@, log)]
           p   == [l.pend EXCEPT ![w] = @ \cup {log}]
           s   == [l EXCEPT !.new = n, !.pend = p, !.dirty = {w}]
<1>1. /\ TypeOK /\ clock \in Nat /\ raced \subseteq Words
      /\ logs \in [Words -> SUBSET Log]
      /\ work[r].new \in [Words -> Row] /\ work[r].pend \in [Words -> SUBSET Log]
  BY DEF CardsInv, TypeOK, Session
<1>2. w \in Words /\ Current(r).again \in BOOLEAN
  BY <1>1, ItemType DEF ReviewCard
<1>3. log \in Log /\ log.at = clock
  BY <1>1, <1>2 DEF Log
<1>4. /\ l \in Session /\ l.pend = work[r].pend /\ Fetched(r, w) \in Row
      /\ l.new = [work[r].new EXCEPT ![w] = Fetched(r, w)]
  BY <1>1, <1>2, LoadType
<1>5. /\ work' = [work EXCEPT ![r] = s]
      /\ clock' = clock + 1 /\ UNCHANGED <<card, logs, raced>>
  BY DEF ReviewCard
<1>6. /\ IsFiniteSet(logs[w] \cup work[r].pend[w])
      /\ Within(Fetched(r, w), logs[w] \cup work[r].pend[w])
  BY <1>2, FetchedWithin
<1>7. /\ \A v \in Words : Fresh(logs[v], clock)
      /\ SessionWithin(work[r], clock)
  BY DEF CardsInv, CommittedWithin
<1> HIDE DEF w, log, l
<1>8. n \in [Words -> Row] /\ p \in [Words -> SUBSET Log]
  BY <1>2, <1>3, <1>4, RowTypes DEF Session
<1>9. s \in Session /\ s.new = n /\ s.pend = p
  BY <1>2, <1>4, <1>8 DEF Session
<1>10. log \notin logs[w] \cup work[r].pend[w]
  <2>1. Fresh(logs[w], clock) /\ Fresh(work[r].pend[w], clock)
    BY <1>2, <1>7 DEF SessionWithin
  <2>2. \A x \in logs[w] \cup work[r].pend[w] : x.at < clock
    BY <2>1 DEF Fresh
  <2> QED
    BY <1>1, <1>3, <2>2
<1>11. Within(Reviewed(Fetched(r, w), log), (logs[w] \cup work[r].pend[w]) \cup {log})
  BY <1>3, <1>4, <1>6, <1>10, ReviewedWithin
<1>12. ASSUME NEW v \in Words
       PROVE  Fresh(p[v], clock + 1) /\ Within(n[v], logs[v] \cup p[v])
  <2>1. CASE v = w
    <3>1. p[v] = work[r].pend[w] \cup {log} /\ n[v] = Reviewed(Fetched(r, w), log)
      BY <1>1, <1>2, <1>4, <2>1
    <3>2. logs[v] \cup p[v] = (logs[w] \cup work[r].pend[w]) \cup {log}
      BY <2>1, <3>1
    <3>3. Fresh(work[r].pend[w], clock)
      BY <1>2, <1>7 DEF SessionWithin
    <3>4. IsFiniteSet(p[v])
      BY <3>1, <3>3, FS_AddElement DEF Fresh
    <3>5. work[r].pend[w] \subseteq Log
      BY <1>1, <1>2
    <3>6. \A x \in p[v] : x.at < clock + 1
      BY <1>1, <1>3, <3>1, <3>3, <3>5 DEF Fresh, Log
    <3> QED
      BY <1>11, <3>1, <3>2, <3>4, <3>6 DEF Fresh
  <2>2. CASE v # w
    <3>1. p[v] = work[r].pend[v] /\ n[v] = work[r].new[v]
      BY <1>1, <1>2, <1>4, <2>2
    <3>2. Fresh(work[r].pend[v], clock)
          /\ Within(work[r].new[v], logs[v] \cup work[r].pend[v])
      BY <1>7 DEF SessionWithin
    <3>3. work[r].pend[v] \subseteq Log
      BY <1>1
    <3>4. \A x \in work[r].pend[v] : x.at \in Nat /\ x.at < clock
      BY <3>2, <3>3 DEF Fresh, Log
    <3>5. \A x \in work[r].pend[v] : x.at < clock + 1
      BY <1>1, <3>4
    <3>6. Fresh(p[v], clock + 1)
      BY <3>1, <3>2, <3>5 DEF Fresh
    <3> QED
      BY <3>1, <3>2, <3>6
  <2> QED
    BY <2>1, <2>2
<1> HIDE DEF n, p
<1>13. SessionWithin(s, clock')
  BY <1>5, <1>9, <1>12 DEF SessionWithin
<1> HIDE DEF s
<1> QED
  BY <1>1, <1>5, <1>9, <1>13, OneSessionStep

\* A session that puts one object in place of another and adds no log row.
LEMMA OneObject ==
    ASSUME CardsInv, NEW r \in Requests, NEW w \in Words, NEW row \in Row,
           NEW s \in Session, s.pend = work[r].pend,
           s.new = [work[r].new EXCEPT ![w] = row],
           Within(row, logs[w] \cup work[r].pend[w]),
           work' = [work EXCEPT ![r] = s],
           UNCHANGED <<card, logs, clock, raced>>
    PROVE  CardsInv'
<1>1. SessionWithin(work[r], clock) /\ raced \subseteq Words
      /\ work[r].new \in [Words -> Row]
  BY DEF CardsInv, TypeOK, Session
<1>2. SessionWithin(s, clock')
  BY <1>1 DEF SessionWithin
<1> QED
  BY <1>1, <1>2, OneSessionStep

LEMMA InitCardStep ==
    ASSUME CardsInv, NEW r \in Requests, InitCard(r)
    PROVE  CardsInv'
<1> DEFINE w == Current(r).word
           l == Load(r, w)
           n == [l.new EXCEPT ![w] = BlankRow]
           s == [l EXCEPT !.new = n, !.dirty = {w}]
<1>1. TypeOK /\ work[r] \in Session
  BY DEF CardsInv, TypeOK
<1>2. w \in Words
  BY <1>1, ItemType DEF InitCard
<1>3. /\ l \in Session /\ l.pend = work[r].pend /\ Fetched(r, w) \in Row
      /\ l.new = [work[r].new EXCEPT ![w] = Fetched(r, w)]
  BY <1>1, <1>2, LoadType
<1>4. /\ IsFiniteSet(logs[w] \cup work[r].pend[w])
      /\ Within(Fetched(r, w), logs[w] \cup work[r].pend[w])
  BY <1>2, FetchedWithin
<1>5. /\ work' = [work EXCEPT ![r] = IF NeedsCard(Fetched(r, w)) THEN s ELSE l]
      /\ UNCHANGED <<card, logs, clock, raced>>
  BY DEF InitCard
<1>6. CASE NeedsCard(Fetched(r, w))
  <2> HIDE DEF w, l
  <2>1. n \in [Words -> Row] /\ n = [work[r].new EXCEPT ![w] = BlankRow]
    BY <1>1, <1>2, <1>3, BlankRowType DEF Session
  <2>2. s \in Session /\ s.new = n /\ s.pend = work[r].pend
    BY <1>2, <1>3, <2>1 DEF Session
  <2>3. work' = [work EXCEPT ![r] = s]
    BY <1>5, <1>6
  <2> HIDE DEF n, s
  <2> QED
    BY <1>2, <1>4, <1>5, <2>1, <2>2, <2>3, BlankRowType, UnstudiedWithin, OneObject
<1>7. CASE ~NeedsCard(Fetched(r, w))
  <2>1. work' = [work EXCEPT ![r] = l]
    BY <1>5, <1>7
  <2> HIDE DEF w, l
  <2> QED
    BY <1>2, <1>3, <1>4, <1>5, <2>1, OneObject
<1> QED
  BY <1>6, <1>7

LEMMA RescheduleStep ==
    ASSUME CardsInv, NEW r \in Requests, RescheduleCard(r)
    PROVE  CardsInv'
<1> DEFINE w == Current(r).word
           s == [work[r] EXCEPT !.next = @ + 1]
           n == [s.new EXCEPT ![w] = Replayed(logs[w])]
           t == [s EXCEPT !.new = n, !.dirty = {w}]
<1>1. TypeOK /\ work[r] \in Session /\ raced \subseteq Words
      /\ logs \in [Words -> SUBSET Log]
  BY DEF CardsInv, TypeOK
<1>2. w \in Words
  BY <1>1, ItemType DEF RescheduleCard
<1>3. s \in Session /\ s.new = work[r].new /\ s.pend = work[r].pend
  <2>1. work[r].next + 1 \in Nat
    BY <1>1 DEF Session
  <2> HIDE DEF w, n, t
  <2> QED
    BY <1>1, <2>1 DEF Session
<1>4. UNCHANGED <<card, logs, clock, raced>>
  BY DEF RescheduleCard
<1>5. CASE work' = [work EXCEPT ![r] = s]
  <2> HIDE DEF s
  <2> QED
    BY <1>1, <1>3, <1>4, <1>5, SameObjects
<1>6. CASE work' = [work EXCEPT ![r] = t]
  <2>1. IsFiniteSet(logs[w])
    BY <1>2 DEF CardsInv, CommittedWithin, Fresh
  <2>2. Replayed(logs[w]) \in Row /\ Within(Replayed(logs[w]), logs[w])
    BY <1>1, <1>2, <2>1, ReplayedWithin
  <2>3. IsFiniteSet(logs[w] \cup work[r].pend[w])
    BY <1>2, FetchedWithin
  <2>4. Within(Replayed(logs[w]), logs[w] \cup work[r].pend[w])
    BY <2>2, <2>3, WithinMore
  <2> HIDE DEF w, s
  <2>5. n \in [Words -> Row] /\ n = [work[r].new EXCEPT ![w] = Replayed(logs[w])]
    BY <1>1, <1>2, <1>3, <2>2 DEF Session
  <2>6. t \in Session /\ t.new = n /\ t.pend = work[r].pend
    BY <1>2, <1>3, <2>5 DEF Session
  <2> HIDE DEF n, t
  <2> QED
    BY <1>2, <1>4, <1>6, <2>2, <2>4, <2>5, <2>6, OneObject
<1> QED
  BY <1>5, <1>6 DEF RescheduleCard

LEMMA EndedStep ==
    ASSUME CardsInv, NEW r \in Requests,
           work' = [work EXCEPT ![r] = Rollback(r)],
           UNCHANGED <<card, logs, clock, raced>>
    PROVE  CardsInv'
<1>1. TypeOK /\ raced \subseteq Words
  BY DEF CardsInv, TypeOK
<1>2. SessionWithin(Rollback(r), clock')
  BY <1>1, RollbackType, NothingPending
<1> QED
  BY <1>1, <1>2, RollbackType, OneSessionStep

LEMMA FlushStep ==
    ASSUME CardsInv, NEW r \in Requests, Flush(r)
    PROVE  CardsInv'
<1>1. work[r] \in Session /\ raced \subseteq Words
  BY DEF CardsInv, TypeOK
<1>2. PICK w \in work[r].dirty :
        IF card[w].exists /\ ~work[r].seen[w].exists
        THEN /\ work' = [work EXCEPT ![r] = Rollback(r)]
             /\ raced' = raced
        ELSE /\ work' = [work EXCEPT ![r] =
                           [work[r] EXCEPT !.dirty = {}, !.held = @ \cup {w}]]
             /\ raced' = IF card[w] = work[r].seen[w] THEN raced
                         ELSE raced \cup {w}
  BY DEF Flush
<1>3. UNCHANGED <<card, logs, clock>>
  BY DEF Flush
<1>4. CASE card[w].exists /\ ~work[r].seen[w].exists
  BY <1>2, <1>3, <1>4, EndedStep
<1>5. CASE ~(card[w].exists /\ ~work[r].seen[w].exists)
  <2> DEFINE s == [work[r] EXCEPT !.dirty = {}, !.held = @ \cup {w}]
  <2>1. w \in Words
    BY <1>1 DEF Session
  <2>2. s \in Session /\ s.new = work[r].new /\ s.pend = work[r].pend
    BY <1>1, <2>1 DEF Session
  <2>3. work' = [work EXCEPT ![r] = s]
    BY <1>2, <1>5, Zenon
  <2>4. raced' \in {raced, raced \cup {w}}
    BY <1>2, <1>5, Zenon
  <2>5. raced' \subseteq Words
    BY <1>1, <2>1, <2>4
  <2> HIDE DEF s
  <2> QED
    BY <1>3, <2>2, <2>3, <2>5, SameObjects
<1> QED
  BY <1>4, <1>5

LEMMA WrittenWithin ==
    ASSUME NEW cur \in Row, NEW seen \in Row, NEW new \in Row, NEW L,
           Within(cur, L), Within(new, L)
    PROVE  Written(cur, seen, new) \in Row /\ Within(Written(cur, seen, new), L)
BY DEF Written, Within, Row

LEMMA CommitStep ==
    ASSUME CardsInv, NEW r \in Requests, Commit(r)
    PROVE  CardsInv'
<1> DEFINE s == [Closed EXCEPT !.pc = "committed", !.kind = work[r].kind,
                               !.batch = work[r].batch]
<1>1. /\ card \in [Words -> Row] /\ logs \in [Words -> SUBSET Log]
      /\ work \in [Requests -> Session] /\ raced \subseteq Words /\ clock \in Nat
  BY DEF CardsInv, TypeOK
<1>2. /\ s \in Session /\ s.new = [w \in Words |-> NoRow]
      /\ s.pend = [w \in Words |-> {}]
  BY <1>1, ClosedIsSession DEF Closed, Session, PCs
<1>3. work' = [work EXCEPT ![r] = s] /\ clock' = clock /\ raced' = raced
  BY DEF Commit
<1> HIDE DEF s
<1>4. work' \in [Requests -> Session] /\ work'[r] = s
      /\ \A q \in Requests \ {r} : work'[q] = work[q]
  BY <1>1, <1>2, <1>3, SessionUpdate
<1>5. work[r].seen \in [Words -> Row] /\ work[r].new \in [Words -> Row]
      /\ work[r].pend \in [Words -> SUBSET Log]
  BY <1>1 DEF Session
<1>6. ASSUME NEW w \in Words
      PROVE  /\ logs'[w] = logs[w] \cup work[r].pend[w]
             /\ logs'[w] \subseteq Log
             /\ Fresh(logs'[w], clock)
             /\ card'[w] \in Row
             /\ Within(card'[w], logs'[w])
  <2>1. logs'[w] = logs[w] \cup work[r].pend[w]
    BY DEF Commit, LogsAfter
  <2>2. Fresh(logs[w], clock) /\ Within(card[w], logs[w])
    BY DEF CardsInv, CommittedWithin
  <2>3. Fresh(work[r].pend[w], clock)
        /\ Within(work[r].new[w], logs[w] \cup work[r].pend[w])
    BY DEF CardsInv, SessionWithin
  <2>4. IsFiniteSet(logs'[w])
    BY <2>1, <2>2, <2>3, FS_Union DEF Fresh
  <2>5. Fresh(logs'[w], clock)
    BY <2>1, <2>2, <2>3, <2>4 DEF Fresh
  <2>6. card[w] \in Row /\ Within(card[w], logs'[w])
    BY <1>1, <2>1, <2>2, <2>4, WithinMore
  <2>7. /\ Written(card[w], work[r].seen[w], work[r].new[w]) \in Row
        /\ Within(Written(card[w], work[r].seen[w], work[r].new[w]), logs'[w])
    BY <1>5, <2>1, <2>3, <2>6, WrittenWithin
  <2>8. card'[w] = IF w \in work[r].held
                   THEN Written(card[w], work[r].seen[w], work[r].new[w])
                   ELSE card[w]
    BY DEF Commit
  <2> QED
    BY <1>1, <1>5, <2>1, <2>5, <2>6, <2>7, <2>8
<1>7. card' \in [Words -> Row] /\ logs' \in [Words -> SUBSET Log]
  BY <1>6 DEF Commit, LogsAfter
<1>8. TypeOK'
  BY <1>1, <1>3, <1>4, <1>7 DEF TypeOK
<1>9. CommittedWithin'
  BY <1>3, <1>6 DEF CommittedWithin
<1>10. SessionWithin(work[r], clock)'
  <2>1. \A w \in Words : Fresh({}, clock) /\ Within(NoRow, logs'[w] \cup {})
    BY <1>6, FS_EmptySet, UnstudiedWithin DEF Fresh
  <2> QED
    BY <1>2, <1>3, <1>4, <2>1 DEF SessionWithin
<1>11. ASSUME NEW q \in Requests \ {r}
       PROVE  SessionWithin(work[q], clock)'
  <2>1. ASSUME NEW w \in Words
        PROVE  /\ Fresh(work[q].pend[w], clock)
               /\ Within(work[q].new[w], logs'[w] \cup work[q].pend[w])
    <3>1. Fresh(work[q].pend[w], clock)
          /\ Within(work[q].new[w], logs[w] \cup work[q].pend[w])
      BY DEF CardsInv, SessionWithin
    <3>2. IsFiniteSet(logs'[w] \cup work[q].pend[w])
      BY <1>6, <3>1, FS_Union DEF Fresh
    <3>3. work[q].new[w] \in Row
      BY <1>1 DEF Session
    <3> QED
      BY <1>6, <3>1, <3>2, <3>3, WithinMore
  <2> QED
    BY <1>3, <1>4, <2>1 DEF SessionWithin
<1> QED
  BY <1>8, <1>9, <1>10, <1>11 DEF CardsInv

\* An answer, or its loss, changes nothing of a session but where it is.
Answered(s, t) ==
    /\ s.pc = "committed" /\ t.pc \in {"done", "failed"}
    /\ t.kind = s.kind /\ t.batch = s.batch /\ t.next = s.next
    /\ t.loaded = s.loaded /\ t.seen = s.seen /\ t.new = s.new
    /\ t.dirty = s.dirty /\ t.held = s.held /\ t.pend = s.pend

LEMMA AnswerOf ==
    ASSUME TypeOK, NEW r \in Requests, Answer(r) \/ LoseAnswer(r)
    PROVE  /\ UNCHANGED <<card, logs, clock, raced>>
           /\ \E t \in Session :
                work' = [work EXCEPT ![r] = t] /\ Answered(work[r], t)
<1>1. PICK pc \in {"done", "failed"} : Settle(r, pc)
  BY DEF Answer, LoseAnswer
<1> DEFINE t == [work[r] EXCEPT !.pc = pc]
<1>2. work[r] \in Session
  BY DEF TypeOK
<1>3. t \in Session
  BY <1>2 DEF Session, PCs
<1>4. Answered(work[r], t)
  BY <1>1, <1>2 DEF Session, Settle, Answered
<1>5. work' = [work EXCEPT ![r] = t]
  BY <1>1 DEF Settle
<1> HIDE DEF t
<1> QED
  BY <1>1, <1>3, <1>4, <1>5 DEF Settle

LEMMA AnswerStep ==
    ASSUME CardsInv, NEW r \in Requests, Answer(r) \/ LoseAnswer(r)
    PROVE  CardsInv'
<1>1. TypeOK /\ raced \subseteq Words
  BY DEF CardsInv, TypeOK
<1>2. PICK t \in Session : work' = [work EXCEPT ![r] = t] /\ Answered(work[r], t)
  BY <1>1, AnswerOf
<1>3. t.new = work[r].new /\ t.pend = work[r].pend
  BY <1>2 DEF Answered
<1> QED
  BY <1>1, <1>2, <1>3, AnswerOf, SameObjects

LEMMA CardsStep == CardsInv /\ [Next]_vars => CardsInv'
<1> SUFFICES ASSUME CardsInv, [Next]_vars PROVE CardsInv'
  OBVIOUS
<1>1. CASE UNCHANGED vars
  BY <1>1 DEF vars, CardsInv, TypeOK, CommittedWithin, SessionWithin, Fresh, Within
<1>2. CASE Next
  <2> PICK r \in Requests : Arrive(r) \/ Serve(r) \/ Abort(r) \/ LoseAnswer(r)
    BY <1>2 DEF Next
  <2>1. CASE Arrive(r)
    BY <2>1, ArriveStep
  <2>2. CASE ReviewCard(r)
    BY <2>2, ReviewStep
  <2>3. CASE InitCard(r)
    BY <2>3, InitCardStep
  <2>4. CASE RescheduleCard(r)
    BY <2>4, RescheduleStep
  <2>5. CASE Flush(r)
    BY <2>5, FlushStep
  <2>6. CASE Commit(r)
    BY <2>6, CommitStep
  <2>7. CASE DeadlockVictim(r)
    BY <2>7, EndedStep DEF DeadlockVictim
  <2>8. CASE Abort(r)
    BY <2>8, EndedStep DEF Abort
  <2>9. CASE Answer(r) \/ LoseAnswer(r)
    BY <2>9, AnswerStep
  <2> QED
    BY <2>1, <2>2, <2>3, <2>4, <2>5, <2>6, <2>7, <2>8, <2>9 DEF Serve
<1> QED
  BY <1>1, <1>2

\* Type correctness of the cards and logs: whatever requests overlap, fail or
\* deadlock, rows and sessions stay well-formed (counters are naturals).
THEOREM TypeCorrect == Spec => []TypeOK
<1>1. CardsInv => TypeOK
  BY DEF CardsInv
<1> QED
  BY <1>1, CardsInit, CardsStep, PTL DEF Spec

\* For any number of overlapping reviews, initialisations and reschedules, a
\* card never counts or remembers a review that its log does not hold: a lost
\* update makes reps too small, never too large, and no failed or unfinished
\* batch leaves a review in the memory of a card.
THEOREM WithinLogCorrect == Spec => []CardsWithinLog
<1>1. CardsInv => CardsWithinLog
  BY DEF CardsInv, CommittedWithin, Within, CardsWithinLog
<1> QED
  BY <1>1, CardsInit, CardsStep, PTL DEF Spec

(***************************************************************************)
(* Cards are never blanked again.  A session's row that remembers nothing  *)
(* although the session means to write it was found missing (Blank); once  *)
(* it is flushed the row is locked, and so it is still missing when the    *)
(* session commits (BlankInv).                                             *)
(***************************************************************************)

Exclusive == \A q, r \in Requests : q # r => work[q].held \cap work[r].held = {}

\* Of one session.
Blank(s) ==
    /\ s.pc # "run" => s.loaded = {} /\ s.dirty = {} /\ s.held = {}
    /\ \A w \in Words :
         /\ w \in s.loaded /\ s.seen[w].exists => s.new[w].exists
         /\ w \in s.dirty \union s.held =>
              /\ w \in s.loaded /\ s.new[w].exists
              /\ s.new[w].mem # {} \/ ~s.seen[w].exists
         /\ w \in s.held /\ s.new[w].mem = {} => ~card[w].exists

BlankInv ==
    /\ CardsInv
    /\ \A w \in Words : card[w].exists \/ card[w].mem = {}
    /\ Exclusive
    /\ \A r \in Requests : Blank(work[r])

LEMMA ClosedBlank ==
    ASSUME NEW s, s.loaded = {}, s.dirty = {}, s.held = {}
    PROVE  Blank(s)
BY DEF Blank

\* A step of one session that neither locks nor commits.
LEMMA BlankStep ==
    ASSUME BlankInv, NEW r \in Requests, NEW s \in Session, CardsInv',
           work' = [work EXCEPT ![r] = s], card' = card,
           s.held \subseteq work[r].held, Blank(s)
    PROVE  BlankInv'
<1>1. work \in [Requests -> Session]
  BY DEF BlankInv, CardsInv, TypeOK
<1>2. work'[r] = s /\ \A q \in Requests \ {r} : work'[q] = work[q]
  BY <1>1, SessionUpdate
<1>3. Exclusive'
  BY <1>2 DEF BlankInv, Exclusive
<1>4. \A q \in Requests : Blank(work[q])'
  BY <1>2 DEF BlankInv, Blank
<1> QED
  BY <1>3, <1>4 DEF BlankInv

LEMMA BlankArrive ==
    ASSUME BlankInv, CardsInv', NEW r \in Requests, Arrive(r)
    PROVE  BlankInv'
<1>1. TypeOK /\ work[r] \in Session /\ Blank(work[r]) /\ card' = card
  BY DEF BlankInv, CardsInv, TypeOK, Arrive, BeginBulkReview, BeginInitCards, BeginReschedule
<1>2. work[r].loaded = {} /\ work[r].dirty = {} /\ work[r].held = {}
  BY <1>1 DEF Blank, Arrive, BeginBulkReview, BeginInitCards, BeginReschedule
<1>3. ASSUME NEW kind \in Kinds, NEW b \in Seq(Item)
      PROVE  /\ Begin(r, kind, b) \in Session
             /\ Begin(r, kind, b).loaded = {} /\ Begin(r, kind, b).dirty = {}
             /\ Begin(r, kind, b).held = {}
  BY <1>1, <1>2 DEF Begin, Session, PCs
<1>4. ASSUME NEW kind \in Kinds, NEW b \in Seq(Item),
             work' = [work EXCEPT ![r] = Begin(r, kind, b)]
      PROVE  BlankInv'
  <2>1. Blank(Begin(r, kind, b))
    BY <1>3, ClosedBlank
  <2> QED
    BY <1>1, <1>3, <1>4, <2>1, BlankStep
<1>5. CASE BeginBulkReview(r)
  <2>1. PICK b \in Batches : work' = [work EXCEPT ![r] = Begin(r, "review", b)]
    BY <1>5 DEF BeginBulkReview
  <2> QED
    BY <1>4, <2>1, CardsAssumption DEF Kinds
<1>6. CASE BeginInitCards(r)
  <2>1. PICK b \in InitLists : work' = [work EXCEPT ![r] = Begin(r, "init", b)]
    BY <1>6 DEF BeginInitCards
  <2> QED
    BY <1>4, <2>1, CardsAssumption DEF Kinds
<1>7. CASE BeginReschedule(r)
  <2> DEFINE b == Begin(r, "reschedule", AllWords)
             s == [b EXCEPT !.loaded = {w \in Words : card[w].exists},
                            !.seen = card, !.new = card]
  <2>1. b \in Session /\ b.dirty = {} /\ b.held = {} /\ b.pc = "run"
    <3>1. b \in Session /\ b.dirty = {} /\ b.held = {}
      BY <1>3, AllWordsType DEF Kinds
    <3>2. b.pc = "run"
      BY <1>1 DEF Begin, Session
    <3> QED
      BY <3>1, <3>2
  <2>2. work' = [work EXCEPT ![r] = s]
    BY <1>7 DEF BeginReschedule
  <2> HIDE DEF b
  <2>3. /\ s \in Session /\ s.dirty = {} /\ s.held = {} /\ s.pc = "run"
        /\ s.seen = s.new
    BY <1>1, <2>1 DEF Session, TypeOK
  <2> HIDE DEF s
  <2>4. Blank(s)
    BY <2>3 DEF Blank
  <2> QED
    BY <1>1, <1>2, <2>2, <2>3, <2>4, BlankStep
<1> QED
  BY <1>5, <1>6, <1>7 DEF Arrive

\* What the SELECT leaves in the session of a request.
LEMMA LoadFacts ==
    ASSUME TypeOK, NEW r \in Requests, NEW w \in Words
    PROVE  LET l == Load(r, w) IN
           /\ l.pc = work[r].pc /\ l.dirty = work[r].dirty /\ l.held = work[r].held
           /\ l.loaded = work[r].loaded \cup {w}
           /\ l.seen = [work[r].seen EXCEPT ![w] = IF w \in work[r].loaded
                                                   THEN work[r].seen[w] ELSE card[w]]
           /\ l.new = [work[r].new EXCEPT ![w] = Fetched(r, w)]
           /\ l.kind = work[r].kind /\ l.batch = work[r].batch
           /\ l.next = work[r].next + 1 /\ l.pend = work[r].pend
<1>1. work[r] \in Session
  BY DEF TypeOK
<1> DEFINE s  == work[r]
           sn == [s.seen EXCEPT ![w] = IF w \in s.loaded THEN s.seen[w] ELSE card[w]]
           nw == [s.new EXCEPT ![w] = Fetched(r, w)]
           nx == s.next + 1
           ld == s.loaded \cup {w}
<1>2. Load(r, w) = [s EXCEPT !.next = nx, !.loaded = ld, !.seen = sn, !.new = nw]
  BY <1>1 DEF Load, Session
<1> HIDE DEF sn, nw, nx, ld
<1> QED
  BY <1>1, <1>2 DEF Session, sn, nw, nx, ld

RowRead(s, w) == IF w \in s.loaded THEN s.new[w] ELSE card[w]

\* One turn of a loop reads a row, and may write one that remembers something
\* or, if there was none, a blank one.
Turn(s, w, t) ==
    /\ s.dirty = {} /\ t.pc = "run" /\ t.held = s.held /\ t.loaded = s.loaded \cup {w}
    /\ \A v \in Words \ {w} : t.seen[v] = s.seen[v] /\ t.new[v] = s.new[v]
    /\ t.seen[w] = IF w \in s.loaded THEN s.seen[w] ELSE card[w]
    /\ \/ t.dirty = {} /\ t.new[w] = RowRead(s, w)
       \/ /\ t.dirty = {w} /\ t.new[w].exists
          /\ t.new[w].mem # {} \/ ~RowRead(s, w).exists

LEMMA BlankTurn ==
    ASSUME NEW s, Blank(s), NEW w \in Words, NEW t, Turn(s, w, t)
    PROVE  Blank(t)
<1> USE DEF Turn, RowRead
<1>1. ASSUME NEW v \in Words \ {w}
      PROVE  /\ v \in t.loaded /\ t.seen[v].exists => t.new[v].exists
             /\ v \in t.dirty \union t.held =>
                  /\ v \in t.loaded /\ t.new[v].exists
                  /\ t.new[v].mem # {} \/ ~t.seen[v].exists
             /\ v \in t.held /\ t.new[v].mem = {} => ~card[v].exists
  BY DEF Blank
<1>2. /\ t.seen[w].exists => t.new[w].exists
      /\ w \in t.dirty \union t.held =>
           t.new[w].exists /\ (t.new[w].mem # {} \/ ~t.seen[w].exists)
      /\ w \in t.held /\ t.new[w].mem = {} => ~card[w].exists
  <2>1. CASE w \in s.loaded
    BY <2>1 DEF Blank
  <2>2. CASE w \notin s.loaded
    BY <2>2 DEF Blank
  <2> QED
    BY <2>1, <2>2
<1> QED
  BY <1>1, <1>2 DEF Blank

LEMMA BlankReview ==
    ASSUME BlankInv, CardsInv', NEW r \in Requests, ReviewCard(r)
    PROVE  BlankInv'
<1> DEFINE w   == Current(r).word
           log == [by |-> r, at |-> clock, again |-> Current(r).again]
           l   == Load(r, w)
           n   == [l.new EXCEPT ![w] = Reviewed(@, log)]
           p   == [l.pend EXCEPT ![w] = @ \cup {log}]
           t   == [l EXCEPT !.new = n, !.pend = p, !.dirty = {w}]
<1>1. TypeOK /\ work[r] \in Session /\ work' \in [Requests -> Session]
      /\ Blank(work[r]) /\ work[r].dirty = {} /\ work[r].pc = "run"
  BY DEF BlankInv, CardsInv, TypeOK, ReviewCard, Ready
<1>2. w \in Words
  BY <1>1, ItemType DEF ReviewCard
<1>3. work' = [work EXCEPT ![r] = t] /\ card' = card
  BY DEF ReviewCard
<1>4. t = work'[r] /\ t \in Session
  BY <1>1, <1>3 DEF TypeOK
<1>5. l \in Session
  BY <1>1, <1>2, LoadType
<1> HIDE DEF w, log
<1>6. /\ l.pc = "run" /\ l.held = work[r].held /\ l.loaded = work[r].loaded \cup {w}
      /\ l.seen = [work[r].seen EXCEPT ![w] = IF w \in work[r].loaded
                                              THEN work[r].seen[w] ELSE card[w]]
      /\ l.new = [work[r].new EXCEPT ![w] = Fetched(r, w)]
  BY <1>1, <1>2, LoadFacts
<1> HIDE DEF l
<1>7. /\ t.pc = "run" /\ t.held = l.held /\ t.loaded = l.loaded /\ t.seen = l.seen
      /\ t.new = n /\ t.dirty = {w}
  BY <1>5, <1>6 DEF Session
<1>8. n[w].exists /\ n[w].mem # {} /\ \A v \in Words \ {w} : n[v] = l.new[v]
  BY <1>2, <1>5 DEF Session, Reviewed
<1> HIDE DEF n, p, t
<1>9. /\ \A v \in Words \ {w} : t.seen[v] = work[r].seen[v] /\ t.new[v] = work[r].new[v]
      /\ t.seen[w] = IF w \in work[r].loaded THEN work[r].seen[w] ELSE card[w]
  BY <1>1, <1>2, <1>6, <1>7, <1>8 DEF Session
<1>10. Turn(work[r], w, t)
  BY <1>1, <1>6, <1>7, <1>8, <1>9 DEF Turn
<1>11. Blank(t)
  BY <1>1, <1>2, <1>10, BlankTurn
<1> QED
  BY <1>3, <1>4, <1>6, <1>7, <1>11, BlankStep

LEMMA BlankInitCard ==
    ASSUME BlankInv, CardsInv', NEW r \in Requests, InitCard(r)
    PROVE  BlankInv'
<1> DEFINE w == Current(r).word
           l == Load(r, w)
           n == [l.new EXCEPT ![w] = BlankRow]
           t == IF NeedsCard(Fetched(r, w)) THEN [l EXCEPT !.new = n, !.dirty = {w}] ELSE l
<1>1. TypeOK /\ work[r] \in Session /\ work' \in [Requests -> Session]
      /\ Blank(work[r]) /\ work[r].dirty = {} /\ work[r].pc = "run"
  BY DEF BlankInv, CardsInv, TypeOK, InitCard, Ready
<1>2. w \in Words
  BY <1>1, ItemType DEF InitCard
<1>3. work' = [work EXCEPT ![r] = t] /\ card' = card
  BY DEF InitCard
<1>4. t = work'[r] /\ t \in Session
  BY <1>1, <1>3 DEF TypeOK
<1>5. l \in Session
  BY <1>1, <1>2, LoadType
<1> HIDE DEF w
<1>6. /\ l.pc = "run" /\ l.held = work[r].held /\ l.loaded = work[r].loaded \cup {w}
      /\ l.dirty = {}
      /\ l.seen = [work[r].seen EXCEPT ![w] = IF w \in work[r].loaded
                                              THEN work[r].seen[w] ELSE card[w]]
      /\ l.new = [work[r].new EXCEPT ![w] = Fetched(r, w)]
  BY <1>1, <1>2, LoadFacts
<1> HIDE DEF l
<1>7. /\ \A v \in Words \ {w} : l.seen[v] = work[r].seen[v] /\ l.new[v] = work[r].new[v]
      /\ l.seen[w] = IF w \in work[r].loaded THEN work[r].seen[w] ELSE card[w]
      /\ l.new[w] = Fetched(r, w)
  BY <1>1, <1>2, <1>6 DEF Session
<1>8. Fetched(r, w) = RowRead(work[r], w)
  BY DEF Fetched, RowRead
<1>9. CASE NeedsCard(Fetched(r, w))
  <2>1. /\ t.pc = "run" /\ t.held = l.held /\ t.loaded = l.loaded /\ t.seen = l.seen
        /\ t.new = n /\ t.dirty = {w}
    BY <1>5, <1>6, <1>9 DEF Session
  <2>2. n[w].exists /\ \A v \in Words \ {w} : n[v] = l.new[v]
    BY <1>2, <1>5 DEF Session, BlankRow
  <2>3. ~Fetched(r, w).exists
    BY <1>9 DEF NeedsCard
  <2> HIDE DEF n, t
  <2>4. Turn(work[r], w, t)
    BY <1>1, <1>6, <1>7, <1>8, <2>1, <2>2, <2>3 DEF Turn
  <2>5. Blank(t)
    BY <1>1, <1>2, <2>4, BlankTurn
  <2> QED
    BY <1>3, <1>4, <1>6, <2>1, <2>5, BlankStep
<1>10. CASE ~NeedsCard(Fetched(r, w))
  <2>1. t = l
    BY <1>10
  <2>2. Blank(l)
    <3>1. Turn(work[r], w, l)
      BY <1>1, <1>6, <1>7, <1>8 DEF Turn
    <3> QED
      BY <1>1, <1>2, <3>1, BlankTurn
  <2> HIDE DEF t
  <2> QED
    BY <1>3, <1>4, <1>6, <2>1, <2>2, BlankStep
<1> QED
  BY <1>9, <1>10

LEMMA BlankReschedule ==
    ASSUME BlankInv, CardsInv', NEW r \in Requests, RescheduleCard(r)
    PROVE  BlankInv'
<1> DEFINE w == Current(r).word
           s == [work[r] EXCEPT !.next = @ + 1]
           n == [s.new EXCEPT ![w] = Replayed(logs[w])]
           t == [s EXCEPT !.new = n, !.dirty = {w}]
<1>1. TypeOK /\ work[r] \in Session /\ work' \in [Requests -> Session] /\ card' = card
      /\ Blank(work[r]) /\ work[r].dirty = {} /\ work[r].pc = "run"
  BY DEF BlankInv, CardsInv, TypeOK, RescheduleCard, Ready
<1>2. w \in Words
  BY <1>1, ItemType DEF RescheduleCard
<1>3. \/ work' = [work EXCEPT ![r] = s]
      \/ w \in work[r].loaded /\ logs[w] # {} /\ work' = [work EXCEPT ![r] = t]
  BY DEF RescheduleCard
<1> HIDE DEF w
<1>4. /\ s \in Session /\ s.pc = "run" /\ s.held = work[r].held /\ s.dirty = {}
      /\ s.loaded = work[r].loaded /\ s.seen = work[r].seen /\ s.new = work[r].new
  <2>1. work[r].next + 1 \in Nat
    BY <1>1 DEF Session
  <2> HIDE DEF n, t
  <2> QED
    BY <1>1, <2>1 DEF Session
<1> HIDE DEF s
<1>5. CASE work' = [work EXCEPT ![r] = s]
  <2>1. Blank(s)
    BY <1>1, <1>4 DEF Blank
  <2> QED
    BY <1>1, <1>4, <1>5, <2>1, BlankStep
<1>6. CASE w \in work[r].loaded /\ logs[w] # {} /\ work' = [work EXCEPT ![r] = t]
  <2>1. t = work'[r] /\ t \in Session
    BY <1>1, <1>6 DEF TypeOK
  <2>2. /\ t.pc = "run" /\ t.held = s.held /\ t.loaded = s.loaded /\ t.seen = s.seen
        /\ t.new = n /\ t.dirty = {w}
    BY <1>4 DEF Session
  <2>3. n[w].exists /\ n[w].mem # {} /\ \A v \in Words \ {w} : n[v] = s.new[v]
    BY <1>2, <1>4, <1>6 DEF Session, Replayed
  <2> HIDE DEF n, t
  <2>4. Turn(work[r], w, t)
    BY <1>1, <1>4, <1>6, <2>2, <2>3 DEF Turn
  <2>5. Blank(t)
    BY <1>1, <1>2, <2>4, BlankTurn
  <2> QED
    BY <1>1, <1>4, <1>6, <2>1, <2>2, <2>5, BlankStep
<1> QED
  BY <1>3, <1>5, <1>6

LEMMA BlankEnded ==
    ASSUME BlankInv, CardsInv', NEW r \in Requests, work' = [work EXCEPT ![r] = Rollback(r)],
           card' = card
    PROVE  BlankInv'
<1>1. Rollback(r) \in Session
  BY RollbackType DEF BlankInv, CardsInv
<1>2. Rollback(r).loaded = {} /\ Rollback(r).dirty = {} /\ Rollback(r).held = {}
  BY DEF Rollback, Closed
<1> QED
  BY <1>1, <1>2, ClosedBlank, BlankStep

LEMMA BlankAnswer ==
    ASSUME BlankInv, CardsInv', NEW r \in Requests, Answer(r) \/ LoseAnswer(r)
    PROVE  BlankInv'
<1>1. TypeOK
  BY DEF BlankInv, CardsInv
<1>2. PICK t \in Session : work' = [work EXCEPT ![r] = t] /\ Answered(work[r], t)
  BY <1>1, AnswerOf
<1>3. t.loaded = {} /\ t.dirty = {} /\ t.held = {} /\ work[r].held = {}
  BY <1>2 DEF Answered, BlankInv, Blank
<1>4. Blank(t)
  BY <1>3, ClosedBlank
<1>5. card' = card
  BY <1>1, AnswerOf
<1> QED
  BY <1>2, <1>3, <1>4, <1>5, BlankStep

\* A flush locks a row that nobody else holds.  A row that the session found
\* missing is missing still: otherwise the INSERT fails.
LEMMA BlankFlush ==
    ASSUME BlankInv, CardsInv', NEW r \in Requests, Flush(r)
    PROVE  BlankInv'
<1>1. PICK w \in work[r].dirty :
        /\ Free(r, w)
        /\ IF card[w].exists /\ ~work[r].seen[w].exists
           THEN work' = [work EXCEPT ![r] = Rollback(r)]
           ELSE work' = [work EXCEPT ![r] =
                           [work[r] EXCEPT !.dirty = {}, !.held = @ \cup {w}]]
  BY DEF Flush
<1>2. card' = card /\ work[r].pc = "run" /\ work \in [Requests -> Session]
      /\ Blank(work[r]) /\ Exclusive
  BY DEF Flush, BlankInv, CardsInv, TypeOK
<1>3. CASE card[w].exists /\ ~work[r].seen[w].exists
  BY <1>1, <1>2, <1>3, BlankEnded
<1>4. CASE ~(card[w].exists /\ ~work[r].seen[w].exists)
  <2> DEFINE s == [work[r] EXCEPT !.dirty = {}, !.held = @ \cup {w}]
  <2>1. w \in Words
    BY <1>2 DEF Session
  <2>2. /\ s \in Session /\ s.pc = "run" /\ s.new = work[r].new /\ s.seen = work[r].seen
        /\ s.loaded = work[r].loaded /\ s.dirty = {} /\ s.held = work[r].held \cup {w}
    BY <1>2, <2>1 DEF Session
  <2>3. work' = [work EXCEPT ![r] = s]
    BY <1>1, <1>4, Zenon
  <2> HIDE DEF s
  <2>4. work'[r] = s /\ \A q \in Requests \ {r} : work'[q] = work[q]
    BY <1>2, <2>2, <2>3, SessionUpdate
  <2>5. Blank(s)
    BY <1>2, <1>4, <2>1, <2>2 DEF Blank
  <2>6. \A q \in Requests \ {r} : w \notin work[q].held
    BY <1>1 DEF Free, Holders
  <2>7. Exclusive'
    BY <1>2, <2>2, <2>4, <2>6 DEF Exclusive
  <2>8. \A q \in Requests : Blank(work[q])'
    BY <1>2, <2>4, <2>5 DEF BlankInv, Blank
  <2> QED
    BY <1>2, <2>7, <2>8 DEF BlankInv
<1> QED
  BY <1>3, <1>4

\* A commit writes locked rows only: those of no other session.
LEMMA BlankCommit ==
    ASSUME BlankInv, CardsInv', NEW r \in Requests, Commit(r)
    PROVE  /\ BlankInv'
           /\ \A w \in Words : card[w].exists =>
                card'[w].exists /\ (card[w].mem # {} => card'[w].mem # {})
<1> DEFINE s == [Closed EXCEPT !.pc = "committed", !.kind = work[r].kind,
                               !.batch = work[r].batch]
<1>1. work \in [Requests -> Session] /\ Exclusive /\ Blank(work[r])
      /\ \A w \in Words : card[w].exists \/ card[w].mem = {}
  BY DEF BlankInv, CardsInv, TypeOK
<1>2. s \in Session /\ s.loaded = {} /\ s.dirty = {} /\ s.held = {}
  BY <1>1, ClosedIsSession DEF Closed, Session, PCs
<1>3. work' = [work EXCEPT ![r] = s]
  BY DEF Commit
<1> HIDE DEF s
<1>4. work'[r] = s /\ \A q \in Requests \ {r} : work'[q] = work[q]
  BY <1>1, <1>2, <1>3, SessionUpdate
<1>5. ASSUME NEW w \in Words
      PROVE  /\ w \notin work[r].held => card'[w] = card[w]
             /\ w \in work[r].held => card'[w].exists /\ card'[w].mem = work[r].new[w].mem
  BY DEF Commit, Written
<1>6. \A w \in Words : card[w].exists =>
        card'[w].exists /\ (card[w].mem # {} => card'[w].mem # {})
  BY <1>1, <1>5 DEF Blank
<1>7. \A w \in Words : card'[w].exists \/ card'[w].mem = {}
  BY <1>1, <1>5
<1>8. Exclusive'
  BY <1>1, <1>2, <1>4 DEF Exclusive
<1>9. Blank(work[r])'
  BY <1>2, <1>4 DEF Blank
<1>10. ASSUME NEW q \in Requests \ {r} PROVE Blank(work[q])'
  <2>1. work'[q] = work[q] /\ Blank(work[q])
    BY <1>4 DEF BlankInv
  <2>2. \A w \in Words : w \in work[q].held => card'[w] = card[w]
    BY <1>1, <1>5 DEF Exclusive
  <2> QED
    BY <2>1, <2>2 DEF Blank
<1> QED
  BY <1>6, <1>7, <1>8, <1>9, <1>10 DEF BlankInv

LEMMA BlankNext ==
    ASSUME BlankInv, [Next]_vars
    PROVE  /\ BlankInv'
           /\ \A w \in Words : card[w].exists =>
                card'[w].exists /\ (card[w].mem # {} => card'[w].mem # {})
<1>1. CardsInv'
  BY CardsStep DEF BlankInv
<1>2. CASE UNCHANGED vars
  BY <1>1, <1>2 DEF BlankInv, vars, Exclusive, Blank
<1>3. CASE Next
  <2> PICK r \in Requests : Arrive(r) \/ Serve(r) \/ Abort(r) \/ LoseAnswer(r)
    BY <1>3 DEF Next
  <2>1. CASE Commit(r)
    BY <1>1, <2>1, BlankCommit
  <2>2. CASE ~Commit(r)
    <3>1. card' = card
      BY <2>2 DEF Arrive, Serve, BeginBulkReview, BeginInitCards, BeginReschedule, ReviewCard,
         InitCard, RescheduleCard, Flush, DeadlockVictim, Abort, Answer, LoseAnswer, Settle
    <3>2. BlankInv'
      BY <1>1, <2>2, BlankArrive, BlankReview, BlankInitCard, BlankReschedule, BlankFlush,
         BlankAnswer, BlankEnded DEF Serve, DeadlockVictim, Abort
    <3> QED
      BY <3>1, <3>2
  <2> QED
    BY <2>1, <2>2
<1> QED
  BY <1>2, <1>3

LEMMA BlankInit == Init => BlankInv
<1> SUFFICES ASSUME Init PROVE BlankInv
  OBVIOUS
<1>1. CardsInv
  BY CardsInit
<1>2. \A w \in Words : card[w].mem = {}
  BY DEF Init, NoRow
<1>3. \A r \in Requests : work[r].loaded = {} /\ work[r].dirty = {} /\ work[r].held = {}
  BY DEF Init, Closed
<1> QED
  BY <1>1, <1>2, <1>3, ClosedBlank DEF BlankInv, Exclusive

\* However initialisations, reviews and reschedules overlap, a studied card is
\* never put back to a blank one and no card disappears.
THEOREM NeverBlanked == Spec => NeverBlankedAgain
<1>1. Init => BlankInv
  BY BlankInit
<1>2. BlankInv /\ [Next]_vars => BlankInv'
  BY BlankNext
<1>3. BlankInv /\ [Next]_vars =>
        [\A w \in Words : card[w].exists =>
           /\ card'[w].exists
           /\ card[w].mem # {} => card'[w].mem # {}]_vars
  BY BlankNext
<1> QED
  BY <1>1, <1>2, <1>3, PTL DEF Spec, NeverBlankedAgain

(***************************************************************************)
(* A batch is all or nothing.  An open bulk review has added one log row   *)
(* for each item it has processed, all of them new (Counted); only a       *)
(* request that has committed has rows in the log (LoggedAs).              *)
(***************************************************************************)

LoggedBy(r) == {l \in UNION {logs[w] : w \in Words} : l.by = r}

Whole(s, L) == s.kind = "review" /\ Cardinality(L) = Len(s.batch)

BatchAtomic ==
    \A r \in Requests :
        /\ work[r].pc \in {"idle", "run"} => LoggedBy(r) = {}
        /\ work[r].pc = "failed" => LoggedBy(r) = {} \/ Whole(work[r], LoggedBy(r))
        /\ work[r].pc \in {"committed", "done"} =>
             IF work[r].kind = "review" THEN Whole(work[r], LoggedBy(r))
             ELSE LoggedBy(r) = {}

Pending(s) == UNION {s.pend[w] : w \in Words}

Counted(s, r) ==
    /\ \A l \in Pending(s) : l.by = r
    /\ s.pc = "idle" => s.next = 1
    /\ s.pc # "run" \/ s.kind # "review" => Pending(s) = {}
    /\ s.pc = "run" /\ s.kind = "review" =>
         /\ IsFiniteSet(Pending(s)) /\ Cardinality(Pending(s)) = s.next - 1
         /\ s.next \in 1..(Len(s.batch) + 1)

LoggedAs(s, L) ==
    /\ s.pc \in {"idle", "run"} => L = {}
    /\ s.pc = "failed" => L = {} \/ Whole(s, L)
    /\ s.pc \in {"committed", "done"} =>
         IF s.kind = "review" THEN Whole(s, L) ELSE L = {}

BatchInv ==
    /\ BlankInv
    /\ \A r \in Requests : Counted(work[r], r) /\ LoggedAs(work[r], LoggedBy(r))

\* A step of one open session that commits nothing.
LEMMA CountedStep ==
    ASSUME BatchInv, BlankInv', NEW r \in Requests, NEW s \in Session,
           work' = [work EXCEPT ![r] = s], logs' = logs,
           work[r].pc \in {"idle", "run"}, s.pc \in {"run", "failed"}, Counted(s, r)
    PROVE  BatchInv'
<1>1. work \in [Requests -> Session]
  BY DEF BatchInv, BlankInv, CardsInv, TypeOK
<1>2. work'[r] = s /\ \A q \in Requests \ {r} : work'[q] = work[q]
  BY <1>1, SessionUpdate
<1>3. \A q \in Requests : LoggedBy(q)' = LoggedBy(q)
  BY DEF LoggedBy
<1>4. LoggedAs(s, LoggedBy(r))
  BY DEF BatchInv, LoggedAs
<1>5. \A q \in Requests : Counted(work'[q], q) /\ LoggedAs(work'[q], LoggedBy(q)')
  BY <1>2, <1>3, <1>4 DEF BatchInv
<1> QED
  BY <1>5 DEF BatchInv, Counted, LoggedAs, Whole, Pending

LEMMA CountedArrive ==
    ASSUME BatchInv, BlankInv', NEW r \in Requests, Arrive(r)
    PROVE  BatchInv'
<1>1. TypeOK /\ work[r] \in Session /\ Counted(work[r], r) /\ work[r].pc = "idle"
      /\ logs' = logs
  BY DEF BatchInv, BlankInv, CardsInv, TypeOK, Arrive, BeginBulkReview, BeginInitCards, BeginReschedule
<1>2. Pending(work[r]) = {} /\ work[r].next = 1
  BY <1>1 DEF Counted
<1>3. ASSUME NEW s \in Session, s.pend = work[r].pend, s.next = 1, s.pc = "run",
             work' = [work EXCEPT ![r] = s]
      PROVE  BatchInv'
  <2>1. Pending(s) = {}
    BY <1>2, <1>3 DEF Pending
  <2>2. Len(s.batch) \in Nat
    BY <1>3 DEF Session
  <2>3. Counted(s, r)
    BY <1>3, <2>1, <2>2, FS_EmptySet DEF Counted
  <2> QED
    BY <1>1, <1>3, <2>3, CountedStep
<1>4. ASSUME NEW kind \in Kinds, NEW b \in Seq(Item)
      PROVE  /\ Begin(r, kind, b) \in Session /\ Begin(r, kind, b).pc = "run"
             /\ Begin(r, kind, b).pend = work[r].pend /\ Begin(r, kind, b).next = 1
  BY <1>1, <1>2 DEF Begin, Session, PCs
<1>5. CASE BeginBulkReview(r)
  <2>1. PICK b \in Batches : work' = [work EXCEPT ![r] = Begin(r, "review", b)]
    BY <1>5 DEF BeginBulkReview
  <2> QED
    BY <1>3, <1>4, <2>1, CardsAssumption DEF Kinds
<1>6. CASE BeginInitCards(r)
  <2>1. PICK b \in InitLists : work' = [work EXCEPT ![r] = Begin(r, "init", b)]
    BY <1>6 DEF BeginInitCards
  <2> QED
    BY <1>3, <1>4, <2>1, CardsAssumption DEF Kinds
<1>7. CASE BeginReschedule(r)
  <2> DEFINE b == Begin(r, "reschedule", AllWords)
             s == [b EXCEPT !.loaded = {w \in Words : card[w].exists},
                            !.seen = card, !.new = card]
  <2>1. b \in Session /\ b.pc = "run" /\ b.pend = work[r].pend /\ b.next = 1
    BY <1>4, AllWordsType DEF Kinds
  <2>2. work' = [work EXCEPT ![r] = s]
    BY <1>7 DEF BeginReschedule
  <2> HIDE DEF b
  <2>3. s \in Session /\ s.pc = "run" /\ s.pend = work[r].pend /\ s.next = 1
    BY <1>1, <2>1 DEF Session, TypeOK
  <2> HIDE DEF s
  <2> QED
    BY <1>3, <2>2, <2>3
<1> QED
  BY <1>5, <1>6, <1>7 DEF Arrive

LEMMA CountedReview ==
    ASSUME BatchInv, BlankInv', NEW r \in Requests, ReviewCard(r)
    PROVE  BatchInv'
<1> DEFINE w   == Current(r).word
           log == [by |-> r, at |-> clock, again |-> Current(r).again]
           l   == Load(r, w)
           n   == [l.new EXCEPT ![w] = Reviewed(@, log)]
           p   == [l.pend EXCEPT ![w] = @ \cup {log}]
           t   == [l EXCEPT !.new = n, !.pend = p, !.dirty = {w}]
<1>1. /\ TypeOK /\ work[r] \in Session /\ work' \in [Requests -> Session] /\ logs' = logs
      /\ clock \in Nat /\ Counted(work[r], r) /\ Ready(r, "review")
  BY DEF BatchInv, BlankInv, CardsInv, TypeOK, ReviewCard
<1>2. w \in Words
  BY <1>1, ItemType
<1>3. work' = [work EXCEPT ![r] = t]
  BY DEF ReviewCard
<1>4. t = work'[r] /\ t \in Session
  BY <1>1, <1>3 DEF TypeOK
<1>5. log.by = r /\ log.at = clock
  OBVIOUS
<1>6. l \in Session
  BY <1>1, <1>2, LoadType
<1> HIDE DEF w, log
<1>7. /\ l.pc = "run" /\ l.kind = "review" /\ l.batch = work[r].batch
      /\ l.next = work[r].next + 1 /\ l.pend = work[r].pend
  BY <1>1, <1>2, LoadFacts DEF Ready
<1> HIDE DEF l
<1>8. /\ t.pc = "run" /\ t.kind = "review" /\ t.batch = work[r].batch
      /\ t.next = work[r].next + 1 /\ t.pend = p
  BY <1>6, <1>7 DEF Session
<1>9. p = [work[r].pend EXCEPT ![w] = @ \cup {log}]
  BY <1>7
<1> HIDE DEF n, p, t
<1>10. Pending(t) = Pending(work[r]) \cup {log}
  <2>1. work[r].pend \in [Words -> SUBSET Log]
    BY <1>1 DEF Session
  <2> QED
    BY <1>2, <1>8, <1>9, <2>1 DEF Pending
<1>11. log \notin Pending(work[r])
  <2>1. \A v \in Words : \A x \in work[r].pend[v] : x.at < clock
    BY DEF BatchInv, BlankInv, CardsInv, SessionWithin, Fresh
  <2>2. \A x \in Pending(work[r]) : x.at < clock
    BY <2>1 DEF Pending
  <2> QED
    BY <1>1, <1>5, <2>2
<1>12. /\ IsFiniteSet(Pending(work[r])) /\ Cardinality(Pending(work[r])) = work[r].next - 1
       /\ \A x \in Pending(work[r]) : x.by = r
  BY <1>1 DEF Counted, Ready
<1>13. IsFiniteSet(Pending(t)) /\ Cardinality(Pending(t)) = Cardinality(Pending(work[r])) + 1
  BY <1>10, <1>11, <1>12, FS_AddElement
<1>14. work[r].next \in 1..Len(work[r].batch) /\ Len(work[r].batch) \in Nat
  BY <1>1 DEF Ready, Session
<1>15. Counted(t, r)
  BY <1>5, <1>8, <1>10, <1>12, <1>13, <1>14 DEF Counted
<1>16. work[r].pc = "run" /\ t.pc = "run"
  BY <1>1, <1>8 DEF Ready
<1> HIDE DEF t
<1> QED
  BY <1>1, <1>3, <1>4, <1>15, <1>16, CountedStep

\* The other turns add no log rows.
LEMMA CountedOther ==
    ASSUME BatchInv, BlankInv', NEW r \in Requests, NEW s \in Session,
           work' = [work EXCEPT ![r] = s], logs' = logs,
           work[r].pc = "run", s.pc = "run", s.kind = work[r].kind,
           s.pend = work[r].pend,
           s.kind = "review" => s.batch = work[r].batch /\ s.next = work[r].next
    PROVE  BatchInv'
<1>1. Counted(work[r], r) /\ Pending(s) = Pending(work[r])
  BY DEF BatchInv, Pending
<1>2. Counted(s, r)
  BY <1>1 DEF Counted
<1> QED
  BY <1>2, CountedStep

LEMMA CountedEnded ==
    ASSUME BatchInv, BlankInv', NEW r \in Requests, work' = [work EXCEPT ![r] = Rollback(r)],
           logs' = logs, work[r].pc = "run"
    PROVE  BatchInv'
<1>1. Rollback(r) \in Session /\ Rollback(r).pend = [w \in Words |-> {}]
  BY RollbackType DEF BatchInv, BlankInv, CardsInv
<1>2. Rollback(r).pc = "failed"
  BY DEF Rollback, Closed
<1>3. Pending(Rollback(r)) = {}
  BY <1>1 DEF Pending
<1>4. Counted(Rollback(r), r)
  BY <1>2, <1>3 DEF Counted
<1> QED
  BY <1>1, <1>2, <1>4, CountedStep

LEMMA CountedInitCard ==
    ASSUME BatchInv, BlankInv', NEW r \in Requests, InitCard(r)
    PROVE  BatchInv'
<1> DEFINE w == Current(r).word
           l == Load(r, w)
           n == [l.new EXCEPT ![w] = BlankRow]
           t == IF NeedsCard(Fetched(r, w)) THEN [l EXCEPT !.new = n, !.dirty = {w}] ELSE l
<1>1. /\ TypeOK /\ work[r] \in Session /\ work' \in [Requests -> Session] /\ logs' = logs
      /\ Ready(r, "init")
  BY DEF BatchInv, BlankInv, CardsInv, TypeOK, InitCard
<1>2. w \in Words
  BY <1>1, ItemType
<1>3. work' = [work EXCEPT ![r] = t]
  BY DEF InitCard
<1>4. t = work'[r] /\ t \in Session
  BY <1>1, <1>3 DEF TypeOK
<1>5. l \in Session
  BY <1>1, <1>2, LoadType
<1> HIDE DEF w
<1>6. l.pc = "run" /\ l.kind = "init" /\ l.pend = work[r].pend
  BY <1>1, <1>2, LoadFacts DEF Ready
<1> HIDE DEF l
<1>7. t.pc = "run" /\ t.kind = "init" /\ t.pend = work[r].pend
  BY <1>5, <1>6 DEF Session
<1> HIDE DEF t
<1> QED
  BY <1>1, <1>3, <1>4, <1>7, CountedOther DEF Ready

LEMMA CountedReschedule ==
    ASSUME BatchInv, BlankInv', NEW r \in Requests, RescheduleCard(r)
    PROVE  BatchInv'
<1> DEFINE w == Current(r).word
           s == [work[r] EXCEPT !.next = @ + 1]
           t == [s EXCEPT !.new[w] = Replayed(logs[w]), !.dirty = {w}]
<1>1. /\ work[r] \in Session /\ work' \in [Requests -> Session] /\ logs' = logs
      /\ work \in [Requests -> Session] /\ Ready(r, "reschedule")
  BY DEF BatchInv, BlankInv, CardsInv, TypeOK, RescheduleCard
<1>2. work' = [work EXCEPT ![r] = s] \/ work' = [work EXCEPT ![r] = t]
  BY DEF RescheduleCard
<1> HIDE DEF w
<1>3. PICK u : work' = [work EXCEPT ![r] = u] /\ u \in {s, t}
  BY <1>2
<1>4. u = work'[r] /\ u \in Session
  BY <1>1, <1>3
<1>5. u.pc = "run" /\ u.kind = "reschedule" /\ u.pend = work[r].pend
  BY <1>1, <1>3 DEF Ready, Session
<1> HIDE DEF s, t
<1> QED
  BY <1>1, <1>3, <1>4, <1>5, CountedOther DEF Ready

LEMMA CountedFlush ==
    ASSUME BatchInv, BlankInv', NEW r \in Requests, Flush(r)
    PROVE  BatchInv'
<1>1. /\ work[r] \in Session /\ work' \in [Requests -> Session] /\ logs' = logs
      /\ work \in [Requests -> Session] /\ work[r].pc = "run"
  BY DEF BatchInv, BlankInv, CardsInv, TypeOK, Flush
<1>2. PICK w \in work[r].dirty :
        \/ work' = [work EXCEPT ![r] = Rollback(r)]
        \/ work' = [work EXCEPT ![r] =
                      [work[r] EXCEPT !.dirty = {}, !.held = @ \cup {w}]]
  BY DEF Flush
<1>3. CASE work' = [work EXCEPT ![r] = Rollback(r)]
  BY <1>1, <1>3, CountedEnded
<1>4. CASE work' = [work EXCEPT ![r] =
                      [work[r] EXCEPT !.dirty = {}, !.held = @ \cup {w}]]
  <2> DEFINE s == [work[r] EXCEPT !.dirty = {}, !.held = @ \cup {w}]
  <2>1. s = work'[r] /\ s \in Session
    BY <1>1, <1>4
  <2>2. /\ s.pc = "run" /\ s.kind = work[r].kind /\ s.pend = work[r].pend
        /\ s.batch = work[r].batch /\ s.next = work[r].next
    BY <1>1 DEF Session
  <2> HIDE DEF s
  <2> QED
    BY <1>1, <1>4, <2>1, <2>2, CountedOther DEF s
<1> QED
  BY <1>2, <1>3, <1>4

LEMMA CountedAnswer ==
    ASSUME BatchInv, BlankInv', NEW r \in Requests, Answer(r) \/ LoseAnswer(r)
    PROVE  BatchInv'
<1>1. TypeOK /\ work \in [Requests -> Session]
  BY DEF BatchInv, BlankInv, CardsInv, TypeOK
<1>2. logs' = logs
  BY <1>1, AnswerOf
<1>3. PICK t \in Session : work' = [work EXCEPT ![r] = t] /\ Answered(work[r], t)
  BY <1>1, AnswerOf
<1>4. work'[r] = t /\ \A q \in Requests \ {r} : work'[q] = work[q]
  BY <1>1, <1>3, SessionUpdate
<1>5. \A q \in Requests : LoggedBy(q)' = LoggedBy(q)
  BY <1>2 DEF LoggedBy
<1>6. Counted(work[r], r) /\ LoggedAs(work[r], LoggedBy(r))
  BY DEF BatchInv
<1>7. Counted(t, r)
  <2>1. Pending(t) = Pending(work[r])
    BY <1>3 DEF Answered, Pending
  <2> QED
    BY <1>3, <1>6, <2>1 DEF Answered, Counted
<1>8. LoggedAs(t, LoggedBy(r))
  BY <1>3, <1>6 DEF Answered, LoggedAs, Whole
<1>9. \A q \in Requests : Counted(work'[q], q) /\ LoggedAs(work'[q], LoggedBy(q)')
  BY <1>4, <1>5, <1>7, <1>8 DEF BatchInv
<1> QED
  BY <1>9 DEF BatchInv, Counted, LoggedAs, Whole, Pending

LEMMA CountedCommit ==
    ASSUME BatchInv, BlankInv', NEW r \in Requests, Commit(r)
    PROVE  BatchInv'
<1> DEFINE s == [Closed EXCEPT !.pc = "committed", !.kind = work[r].kind,
                               !.batch = work[r].batch]
<1>1. /\ work \in [Requests -> Session] /\ work[r] \in Session
      /\ work[r].pend \in [Words -> SUBSET Log]
      /\ Counted(work[r], r) /\ LoggedAs(work[r], LoggedBy(r))
  BY DEF BatchInv, BlankInv, CardsInv, TypeOK, Session
<1>2. /\ s \in Session /\ s.pc = "committed" /\ s.kind = work[r].kind /\ s.batch = work[r].batch
      /\ s.pend = [w \in Words |-> {}]
  BY <1>1, ClosedIsSession DEF Closed, Session, PCs
<1>3. work' = [work EXCEPT ![r] = s] /\ work[r].pc = "run" /\ AtCommit(r)
  BY DEF Commit
<1> HIDE DEF s
<1>4. work'[r] = s /\ \A q \in Requests \ {r} : work'[q] = work[q]
  BY <1>1, <1>2, <1>3, SessionUpdate
<1>5. \A w \in Words : logs'[w] = logs[w] \cup work[r].pend[w]
  BY DEF Commit, LogsAfter
<1>6. \A x \in Pending(work[r]) : x.by = r
  BY <1>1 DEF Counted
<1>7. LoggedBy(r)' = LoggedBy(r) \cup Pending(work[r])
  BY <1>5, <1>6 DEF LoggedBy, Pending
<1>8. ASSUME NEW q \in Requests \ {r} PROVE LoggedBy(q)' = LoggedBy(q)
  BY <1>5, <1>6 DEF LoggedBy, Pending
<1>9. LoggedBy(r) = {}
  BY <1>1, <1>3 DEF LoggedAs, Whole
<1>10. LoggedAs(s, LoggedBy(r)')
  <2>1. CASE s.kind = "review"
    <3>1. Cardinality(Pending(work[r])) = work[r].next - 1
          /\ work[r].next \in 1..(Len(work[r].batch) + 1)
      BY <1>1, <1>2, <1>3, <2>1 DEF Counted
    <3>2. work[r].next \notin 1..Len(work[r].batch) /\ Len(work[r].batch) \in Nat
      BY <1>1, <1>3 DEF AtCommit, Session
    <3>3. LoggedBy(r)' = Pending(work[r])
      BY <1>7, <1>9
    <3>4. work[r].next - 1 = Len(work[r].batch)
      BY <3>1, <3>2
    <3> QED
      BY <1>2, <2>1, <3>1, <3>3, <3>4 DEF LoggedAs, Whole
  <2>2. CASE s.kind # "review"
    BY <1>1, <1>2, <1>7, <1>9, <2>2 DEF Counted, LoggedAs, Whole
  <2> QED
    BY <2>1, <2>2
<1>11. Counted(s, r)
  <2>1. Pending(s) = {}
    BY <1>2 DEF Pending
  <2> QED
    BY <1>2, <2>1 DEF Counted
<1>12. \A q \in Requests : Counted(work'[q], q) /\ LoggedAs(work'[q], LoggedBy(q)')
  BY <1>4, <1>8, <1>10, <1>11 DEF BatchInv
<1> QED
  BY <1>12 DEF BatchInv, Counted, LoggedAs, Whole, Pending

LEMMA BatchInit == Init => BatchInv
<1> SUFFICES ASSUME Init PROVE BatchInv
  OBVIOUS
<1>1. \A r \in Requests : LoggedBy(r) = {}
  BY DEF Init, LoggedBy
<1>2. \A r \in Requests : Pending(work[r]) = {} /\ work[r].pc = "idle" /\ work[r].next = 1
  BY DEF Init, Closed, Pending
<1> QED
  BY <1>1, <1>2, BlankInit DEF BatchInv, Counted, LoggedAs

LEMMA BatchNext == BatchInv /\ [Next]_vars => BatchInv'
<1> SUFFICES ASSUME BatchInv, [Next]_vars PROVE BatchInv'
  OBVIOUS
<1>1. BlankInv'
  BY BlankNext DEF BatchInv
<1>2. CASE UNCHANGED vars
  <2>1. work' = work /\ \A r \in Requests : LoggedBy(r)' = LoggedBy(r)
    BY <1>2 DEF vars, LoggedBy
  <2>2. \A r \in Requests : Counted(work'[r], r) /\ LoggedAs(work'[r], LoggedBy(r)')
    BY <2>1 DEF BatchInv
  <2> QED
    BY <1>1, <2>2 DEF BatchInv, Counted, LoggedAs, Whole, Pending
<1>3. CASE Next
  <2> PICK r \in Requests : Arrive(r) \/ Serve(r) \/ Abort(r) \/ LoseAnswer(r)
    BY <1>3 DEF Next
  <2>1. CASE DeadlockVictim(r)
    <3>1. work[r].dirty # {}
      BY <2>1 DEF DeadlockVictim, InCycle, BlockedBy
    <3>2. work[r].pc = "run"
      BY <3>1 DEF BatchInv, BlankInv, Blank
    <3> QED
      BY <1>1, <2>1, <3>2, CountedEnded DEF DeadlockVictim
  <2>2. CASE Abort(r)
    BY <1>1, <2>2, CountedEnded DEF Abort
  <2> QED
    BY <1>1, <2>1, <2>2, CountedArrive, CountedReview, CountedInitCard, CountedReschedule,
       CountedFlush, CountedAnswer, CountedCommit DEF Serve
<1> QED
  BY <1>2, <1>3

\* An answered bulk review has every item in the log, one that is still open has
\* none, and one that failed has none or - when only its answer was lost - all,
\* for any batches and however many requests overlap.
THEOREM BatchesAtomic == Spec => []BatchAtomic
<1>1. BatchInv => BatchAtomic
  BY DEF BatchInv, LoggedAs, BatchAtomic
<1> QED
  BY <1>1, BatchInit, BatchNext, PTL DEF Spec

(***************************************************************************)
(* Cards and logs agree.  As long as nobody has committed to a word since  *)
(* a session loaded it, which shows in the reviews its row remembers, the  *)
(* session's row agrees with the log and what the session adds to it       *)
(* (Folds).  A row that is locked and not raced is as the session loaded   *)
(* it, and so it agrees with the log when the session commits.             *)
(***************************************************************************)

Agrees(row, L) ==
    /\ row.mem = L
    /\ row.reps = Cardinality(L)
    /\ row.lapses = Cardinality(Lapses(L))

\* Of one session and word, whose committed row and log are given, and
\* whether the row has never been overwritten from a stale read.
Folds(s, w, row, L, unraced) ==
    /\ s.pend[w] # {} => s.kind = "review" /\ w \in s.dirty \cup s.held
    /\ w \in s.dirty => s.dirty = {w}
    /\ s.new[w].exists \/ s.new[w].mem = {}
    /\ w \in s.loaded => s.seen[w].mem \subseteq L
    /\ unraced /\ w \in s.held => row = s.seen[w]
    /\ unraced /\ w \in s.loaded /\ s.seen[w].mem = L => Agrees(s.new[w], L \cup s.pend[w])

AgreeInv ==
    /\ BlankInv
    /\ \A w \in Words \ raced : Agrees(card[w], logs[w])
    /\ \A r \in Requests : \A w \in Words :
         Folds(work[r], w, card[w], logs[w], w \notin raced)

LEMMA NothingAgrees == Agrees(NoRow, {}) /\ Agrees(BlankRow, {})
<1>1. Lapses({}) = {} /\ Cardinality({}) = 0
  BY FS_EmptySet DEF Lapses
<1> QED
  BY <1>1 DEF Agrees, NoRow, BlankRow

LEMMA ReviewedAgrees ==
    ASSUME NEW row, NEW log, NEW L, IsFiniteSet(L), log \notin L, Agrees(row, L)
    PROVE  Agrees(Reviewed(row, log), L \cup {log})
<1>1. Cardinality(L \cup {log}) = Cardinality(L) + 1
  BY FS_AddElement
<1>2. Lapses(L \cup {log}) = IF log.again THEN Lapses(L) \cup {log} ELSE Lapses(L)
  BY DEF Lapses
<1>3. IsFiniteSet(Lapses(L)) /\ log \notin Lapses(L)
  BY LogCounts DEF Lapses
<1>4. Cardinality(Lapses(L) \cup {log}) = Cardinality(Lapses(L)) + 1
  BY <1>3, FS_AddElement
<1> QED
  BY <1>1, <1>2, <1>4 DEF Agrees, Reviewed

\* A session that has nothing.
LEMMA ClosedFolds ==
    ASSUME NEW s, NEW w \in Words, NEW row, NEW L, NEW ok \in BOOLEAN, s.loaded = {},
           s.dirty = {}, s.held = {}, s.pend[w] = {}, s.new[w].exists \/ s.new[w].mem = {}
    PROVE  Folds(s, w, row, L, ok)
BY DEF Folds

\* A step of one session that commits nothing.
LEMMA AgreeStep ==
    ASSUME AgreeInv, BlankInv', NEW r \in Requests, NEW s \in Session,
           work' = [work EXCEPT ![r] = s], card' = card, logs' = logs, raced \subseteq raced',
           \A w \in Words : Folds(s, w, card[w], logs[w], w \notin raced')
    PROVE  AgreeInv'
<1>1. work \in [Requests -> Session]
  BY DEF AgreeInv, BlankInv, CardsInv, TypeOK
<1>2. work'[r] = s /\ \A q \in Requests \ {r} : work'[q] = work[q]
  BY <1>1, SessionUpdate
<1>3. \A w \in Words \ raced' : Agrees(card'[w], logs'[w])
  BY DEF AgreeInv
<1>4. ASSUME NEW q \in Requests, NEW w \in Words
      PROVE  Folds(work'[q], w, card'[w], logs'[w], w \notin raced')
  <2>1. CASE q = r
    BY <1>2, <2>1
  <2>2. CASE q # r
    <3>1. Folds(work[q], w, card[w], logs[w], w \notin raced) /\ work'[q] = work[q]
      BY <1>2, <2>2 DEF AgreeInv
    <3> QED
      BY <3>1 DEF Folds
  <2> QED
    BY <2>1, <2>2
<1>5. (\A w \in Words \ raced : Agrees(card[w], logs[w]))'
  BY <1>3
<1>6. (\A q \in Requests : \A w \in Words :
         Folds(work[q], w, card[w], logs[w], w \notin raced))'
  BY <1>4
<1> QED
  BY <1>5, <1>6 DEF AgreeInv

LEMMA AgreeArrive ==
    ASSUME AgreeInv, BlankInv', NEW r \in Requests, Arrive(r)
    PROVE  AgreeInv'
<1>1. /\ TypeOK /\ work[r] \in Session /\ Blank(work[r]) /\ work[r].pc = "idle"
      /\ UNCHANGED <<card, logs, raced>>
  BY DEF AgreeInv, BlankInv, CardsInv, TypeOK, Arrive, BeginBulkReview, BeginInitCards,
     BeginReschedule
<1>2. work[r].loaded = {} /\ work[r].dirty = {} /\ work[r].held = {}
  BY <1>1 DEF Blank
<1>3. \A w \in Words :
        work[r].pend[w] = {} /\ (work[r].new[w].exists \/ work[r].new[w].mem = {})
  BY <1>2 DEF AgreeInv, Folds
<1>4. ASSUME NEW kind \in Kinds, NEW b \in Seq(Item)
      PROVE  /\ Begin(r, kind, b) \in Session
             /\ Begin(r, kind, b).loaded = {} /\ Begin(r, kind, b).dirty = {}
             /\ Begin(r, kind, b).held = {}
             /\ Begin(r, kind, b).pend = work[r].pend /\ Begin(r, kind, b).new = work[r].new
  BY <1>1, <1>2 DEF Begin, Session, PCs
<1>5. ASSUME NEW kind \in Kinds, NEW b \in Seq(Item),
             work' = [work EXCEPT ![r] = Begin(r, kind, b)]
      PROVE  AgreeInv'
  <2>1. \A w \in Words : Folds(Begin(r, kind, b), w, card[w], logs[w], w \notin raced')
    BY <1>3, <1>4, ClosedFolds
  <2> QED
    BY <1>1, <1>4, <1>5, <2>1, AgreeStep
<1>6. CASE BeginBulkReview(r)
  <2>1. PICK b \in Batches : work' = [work EXCEPT ![r] = Begin(r, "review", b)]
    BY <1>6 DEF BeginBulkReview
  <2> QED
    BY <1>5, <2>1, CardsAssumption DEF Kinds
<1>7. CASE BeginInitCards(r)
  <2>1. PICK b \in InitLists : work' = [work EXCEPT ![r] = Begin(r, "init", b)]
    BY <1>7 DEF BeginInitCards
  <2> QED
    BY <1>5, <2>1, CardsAssumption DEF Kinds
<1>8. CASE BeginReschedule(r)
  <2> DEFINE b == Begin(r, "reschedule", AllWords)
             s == [b EXCEPT !.loaded = {w \in Words : card[w].exists},
                            !.seen = card, !.new = card]
  <2>1. b \in Session /\ b.dirty = {} /\ b.held = {} /\ b.pend = work[r].pend
    BY <1>4, AllWordsType DEF Kinds
  <2>2. work' = [work EXCEPT ![r] = s]
    BY <1>8 DEF BeginReschedule
  <2> HIDE DEF b
  <2>3. /\ s \in Session /\ s.dirty = {} /\ s.held = {} /\ s.pend = work[r].pend
        /\ s.seen = card /\ s.new = card
    BY <1>1, <2>1 DEF Session, TypeOK
  <2> HIDE DEF s
  <2>4. ASSUME NEW w \in Words PROVE Folds(s, w, card[w], logs[w], w \notin raced)
    <3>1. card[w].mem \subseteq logs[w] /\ (card[w].exists \/ card[w].mem = {})
      BY DEF AgreeInv, BlankInv, CardsInv, CommittedWithin, Within
    <3>2. w \notin raced => Agrees(card[w], logs[w])
      BY DEF AgreeInv
    <3>3. logs[w] \cup s.pend[w] = logs[w]
      BY <1>3, <2>3
    <3> QED
      BY <1>3, <2>3, <3>1, <3>2, <3>3 DEF Folds
  <2> QED
    BY <1>1, <2>2, <2>3, <2>4, AgreeStep
<1> QED
  BY <1>6, <1>7, <1>8 DEF Arrive

\* The row that the SELECT of a session returns.
LEMMA FetchedAgrees ==
    ASSUME AgreeInv, NEW r \in Requests, NEW w \in Words, NEW seen,
           seen = IF w \in work[r].loaded THEN work[r].seen[w] ELSE card[w]
    PROVE  /\ seen.mem \subseteq logs[w]
           /\ w \notin raced /\ w \in work[r].held => card[w] = seen
           /\ Fetched(r, w).exists \/ Fetched(r, w).mem = {}
           /\ w \notin raced /\ seen.mem = logs[w] =>
                Agrees(Fetched(r, w), logs[w] \cup work[r].pend[w])
<1>1. /\ Folds(work[r], w, card[w], logs[w], w \notin raced) /\ Blank(work[r])
      /\ card[w].exists \/ card[w].mem = {}
      /\ card[w].mem \subseteq logs[w]
      /\ w \notin raced => Agrees(card[w], logs[w])
  BY DEF AgreeInv, BlankInv, CardsInv, CommittedWithin, Within
<1>2. CASE w \in work[r].loaded
  BY <1>1, <1>2 DEF Folds, Fetched
<1>3. CASE w \notin work[r].loaded
  <2>1. w \notin work[r].dirty \cup work[r].held
    BY <1>1, <1>3 DEF Blank
  <2>2. work[r].pend[w] = {}
    BY <1>1, <2>1 DEF Folds
  <2>3. logs[w] \cup work[r].pend[w] = logs[w]
    BY <2>2
  <2> QED
    BY <1>1, <1>3, <2>1, <2>3 DEF Fetched
<1> QED
  BY <1>2, <1>3

\* A turn of a loop that reads the row of w and replaces it by another, which
\* agrees with the log if the row that was read does.
FoldsIn(r, w, t) ==
    /\ t.kind = work[r].kind /\ t.held = work[r].held
    /\ t.loaded = work[r].loaded \cup {w}
    /\ t.dirty \in {{}, {w}}
    /\ \A v \in Words \ {w} : /\ t.seen[v] = work[r].seen[v] /\ t.new[v] = work[r].new[v]
                             /\ t.pend[v] = work[r].pend[v]
    /\ t.seen[w] = IF w \in work[r].loaded THEN work[r].seen[w] ELSE card[w]
    /\ t.pend[w] # {} => t.kind = "review" /\ w \in t.dirty
    /\ t.new[w].exists \/ t.new[w].mem = {}
    /\ Agrees(Fetched(r, w), logs[w] \cup work[r].pend[w])
         => Agrees(t.new[w], logs[w] \cup t.pend[w])

LEMMA AgreeTurn ==
    ASSUME AgreeInv, BlankInv', NEW r \in Requests, NEW w \in Words, NEW t \in Session,
           work' = [work EXCEPT ![r] = t], UNCHANGED <<card, logs, raced>>,
           work[r].dirty = {}, FoldsIn(r, w, t)
    PROVE  AgreeInv'
<1>1. PICK seen : seen = IF w \in work[r].loaded THEN work[r].seen[w] ELSE card[w]
  OBVIOUS
<1>2. Folds(t, w, card[w], logs[w], w \notin raced)
  BY <1>1, FetchedAgrees DEF Folds, FoldsIn
<1>3. ASSUME NEW v \in Words \ {w} PROVE Folds(t, v, card[v], logs[v], v \notin raced)
  <2>1. Folds(work[r], v, card[v], logs[v], v \notin raced)
    BY DEF AgreeInv
  <2> QED
    BY <1>3, <2>1 DEF Folds, FoldsIn
<1>4. \A v \in Words : Folds(t, v, card[v], logs[v], v \notin raced')
  BY <1>2, <1>3
<1> QED
  BY <1>4, AgreeStep

LEMMA AgreeReview ==
    ASSUME AgreeInv, BlankInv', NEW r \in Requests, ReviewCard(r)
    PROVE  AgreeInv'
<1> DEFINE w   == Current(r).word
           log == [by |-> r, at |-> clock, again |-> Current(r).again]
           l   == Load(r, w)
           n   == [l.new EXCEPT ![w] = Reviewed(@, log)]
           p   == [l.pend EXCEPT ![w] = @ \cup {log}]
           t   == [l EXCEPT !.new = n, !.pend = p, !.dirty = {w}]
<1>1. /\ TypeOK /\ work[r] \in Session /\ work' \in [Requests -> Session]
      /\ clock \in Nat /\ Ready(r, "review") /\ UNCHANGED <<card, logs, raced>>
  BY DEF AgreeInv, BlankInv, CardsInv, TypeOK, ReviewCard
<1>2. w \in Words
  BY <1>1, ItemType
<1>3. work' = [work EXCEPT ![r] = t]
  BY DEF ReviewCard
<1>4. t = work'[r] /\ t \in Session
  BY <1>1, <1>3 DEF TypeOK
<1>5. log.at = clock
  OBVIOUS
<1>6. l \in Session
  BY <1>1, <1>2, LoadType
<1> HIDE DEF w, log
<1>7. /\ l.kind = "review" /\ l.pend = work[r].pend /\ l.held = work[r].held
      /\ l.loaded = work[r].loaded \cup {w}
      /\ l.seen = [work[r].seen EXCEPT ![w] = IF w \in work[r].loaded
                                              THEN work[r].seen[w] ELSE card[w]]
      /\ l.new = [work[r].new EXCEPT ![w] = Fetched(r, w)]
  BY <1>1, <1>2, LoadFacts DEF Ready
<1> HIDE DEF l
<1>8. /\ t.kind = "review" /\ t.held = l.held /\ t.loaded = l.loaded /\ t.seen = l.seen
      /\ t.new = n /\ t.pend = p /\ t.dirty = {w}
  BY <1>6, <1>7 DEF Session
<1>9. /\ n[w] = Reviewed(Fetched(r, w), log) /\ \A v \in Words \ {w} : n[v] = work[r].new[v]
      /\ p[w] = work[r].pend[w] \cup {log} /\ \A v \in Words \ {w} : p[v] = work[r].pend[v]
  BY <1>1, <1>2, <1>7 DEF Session
<1> HIDE DEF n, p, t
<1>10. /\ t.seen[w] = (IF w \in work[r].loaded THEN work[r].seen[w] ELSE card[w])
       /\ \A v \in Words \ {w} : t.seen[v] = work[r].seen[v]
  BY <1>1, <1>2, <1>7, <1>8 DEF Session
<1>11. PICK L : L = logs[w] \cup work[r].pend[w]
  OBVIOUS
<1>12. IsFiniteSet(L) /\ log \notin L
  <2>1. Fresh(logs[w], clock) /\ Fresh(work[r].pend[w], clock)
    BY <1>2 DEF AgreeInv, BlankInv, CardsInv, CommittedWithin, SessionWithin
  <2>2. \A x \in L : x.at < clock
    BY <1>11, <2>1 DEF Fresh
  <2>3. IsFiniteSet(L)
    BY <1>11, <2>1, FS_Union DEF Fresh
  <2> QED
    BY <1>1, <1>5, <2>2, <2>3
<1>13. t.new[w].exists /\ logs[w] \cup t.pend[w] = L \cup {log}
  BY <1>8, <1>9, <1>11 DEF Reviewed
<1>14. Agrees(Fetched(r, w), L) => Agrees(t.new[w], L \cup {log})
  BY <1>8, <1>9, <1>12, ReviewedAgrees
<1>15. FoldsIn(r, w, t)
  BY <1>1, <1>7, <1>8, <1>9, <1>10, <1>11, <1>13, <1>14 DEF FoldsIn, Ready
<1> QED
  BY <1>1, <1>2, <1>3, <1>4, <1>15, AgreeTurn DEF Ready

LEMMA AgreeInitCard ==
    ASSUME AgreeInv, BlankInv', NEW r \in Requests, InitCard(r)
    PROVE  AgreeInv'
<1> DEFINE w == Current(r).word
           l == Load(r, w)
           n == [l.new EXCEPT ![w] = BlankRow]
           t == IF NeedsCard(Fetched(r, w)) THEN [l EXCEPT !.new = n, !.dirty = {w}] ELSE l
<1>1. /\ TypeOK /\ work[r] \in Session /\ work' \in [Requests -> Session]
      /\ Ready(r, "init") /\ UNCHANGED <<card, logs, raced>>
  BY DEF AgreeInv, BlankInv, CardsInv, TypeOK, InitCard
<1>2. w \in Words
  BY <1>1, ItemType
<1>3. work' = [work EXCEPT ![r] = t]
  BY DEF InitCard
<1>4. t = work'[r] /\ t \in Session
  BY <1>1, <1>3 DEF TypeOK
<1>5. l \in Session
  BY <1>1, <1>2, LoadType
<1> HIDE DEF w
<1>6. /\ l.kind = "init" /\ l.pend = work[r].pend /\ l.held = work[r].held
      /\ l.loaded = work[r].loaded \cup {w} /\ l.dirty = {}
      /\ l.seen = [work[r].seen EXCEPT ![w] = IF w \in work[r].loaded
                                              THEN work[r].seen[w] ELSE card[w]]
      /\ l.new = [work[r].new EXCEPT ![w] = Fetched(r, w)]
  BY <1>1, <1>2, LoadFacts DEF Ready
<1>7. /\ l.new[w] = Fetched(r, w) /\ \A v \in Words \ {w} : l.new[v] = work[r].new[v]
      /\ l.seen[w] = (IF w \in work[r].loaded THEN work[r].seen[w] ELSE card[w])
      /\ \A v \in Words \ {w} : l.seen[v] = work[r].seen[v]
  BY <1>1, <1>2, <1>6 DEF Session
<1>8. work[r].pend[w] = {} /\ (Fetched(r, w).exists \/ Fetched(r, w).mem = {})
  <2>1. Folds(work[r], w, card[w], logs[w], w \notin raced)
    BY <1>2 DEF AgreeInv
  <2> QED
    BY <1>1, <1>2, <2>1, FetchedAgrees DEF Folds, Ready
<1> HIDE DEF l
<1>9. CASE NeedsCard(Fetched(r, w))
  <2>1. /\ t.kind = l.kind /\ t.held = l.held /\ t.loaded = l.loaded /\ t.seen = l.seen
        /\ t.new = n /\ t.pend = l.pend /\ t.dirty = {w}
    BY <1>5, <1>6, <1>9 DEF Session
  <2>2. n[w] = BlankRow /\ \A v \in Words \ {w} : n[v] = l.new[v]
    BY <1>2, <1>5 DEF Session
  <2> HIDE DEF n, t
  <2>3. Agrees(Fetched(r, w), logs[w] \cup work[r].pend[w])
          => Agrees(BlankRow, logs[w] \cup work[r].pend[w])
    <3>1. ASSUME Agrees(Fetched(r, w), logs[w] \cup work[r].pend[w])
          PROVE  Agrees(BlankRow, logs[w] \cup work[r].pend[w])
      <4>1. Fetched(r, w).mem = {}
        BY <1>8, <1>9 DEF NeedsCard
      <4>2. logs[w] \cup work[r].pend[w] = {}
        BY <3>1, <4>1 DEF Agrees
      <4> QED
        BY <4>2, NothingAgrees
    <3> QED
      BY <3>1
  <2>4. PICK now : now = BlankRow
    OBVIOUS
  <2>5. now.exists /\ t.new[w] = now
    BY <2>1, <2>2, <2>4 DEF BlankRow
  <2>6. t.pend[w] = {} /\ work[r].pend[w] = {}
    BY <1>6, <1>8, <2>1
  <2>7. Agrees(Fetched(r, w), logs[w] \cup work[r].pend[w]) => Agrees(t.new[w], logs[w] \cup t.pend[w])
    BY <2>1, <2>3, <2>4, <2>5, <2>6, Zenon
  <2>8. /\ t.kind = work[r].kind /\ t.held = work[r].held
        /\ t.loaded = work[r].loaded \cup {w} /\ t.dirty = {w}
        /\ t.seen[w] = IF w \in work[r].loaded THEN work[r].seen[w] ELSE card[w]
        /\ t.pend = work[r].pend
        /\ \A v \in Words \ {w} : t.seen[v] = work[r].seen[v] /\ t.new[v] = work[r].new[v]
    <3>1. /\ t.kind = work[r].kind /\ t.held = work[r].held
          /\ t.loaded = work[r].loaded \cup {w} /\ t.dirty = {w} /\ t.pend = work[r].pend
      BY <1>1, <1>6, <2>1 DEF Ready
    <3>2. t.seen[w] = IF w \in work[r].loaded THEN work[r].seen[w] ELSE card[w]
      BY <1>7, <2>1
    <3>3. \A v \in Words \ {w} : t.seen[v] = work[r].seen[v] /\ t.new[v] = work[r].new[v]
      BY <1>7, <2>1, <2>2
    <3> QED
      BY <3>1, <3>2, <3>3
  <2>9. FoldsIn(r, w, t)
    BY <2>5, <2>6, <2>7, <2>8 DEF FoldsIn
  <2> QED
    BY <1>1, <1>2, <1>3, <1>4, <2>9, AgreeTurn DEF Ready
<1>10. CASE ~NeedsCard(Fetched(r, w))
  <2>1. t = l
    BY <1>10
  <2>2. FoldsIn(r, w, l)
    BY <1>1, <1>6, <1>7, <1>8 DEF FoldsIn, Ready
  <2> HIDE DEF t
  <2> QED
    BY <1>1, <1>2, <1>3, <1>5, <2>1, <2>2, AgreeTurn DEF Ready
<1> QED
  BY <1>9, <1>10

LEMMA AgreeReschedule ==
    ASSUME AgreeInv, BlankInv', NEW r \in Requests, RescheduleCard(r)
    PROVE  AgreeInv'
<1> DEFINE w == Current(r).word
           s == [work[r] EXCEPT !.next = @ + 1]
           n == [s.new EXCEPT ![w] = Replayed(logs[w])]
           t == [s EXCEPT !.new = n, !.dirty = {w}]
<1>1. /\ TypeOK /\ work[r] \in Session /\ work' \in [Requests -> Session]
      /\ Ready(r, "reschedule") /\ UNCHANGED <<card, logs, raced>>
  BY DEF AgreeInv, BlankInv, CardsInv, TypeOK, RescheduleCard
<1>2. w \in Words
  BY <1>1, ItemType
<1>3. \/ work' = [work EXCEPT ![r] = s]
      \/ w \in work[r].loaded /\ work' = [work EXCEPT ![r] = t]
  BY DEF RescheduleCard
<1> HIDE DEF w
<1>4. /\ s \in Session /\ s.held = work[r].held /\ s.dirty = {} /\ s.kind = work[r].kind
      /\ s.loaded = work[r].loaded /\ s.seen = work[r].seen /\ s.new = work[r].new
      /\ s.pend = work[r].pend
  <2>1. work[r].next + 1 \in Nat
    BY <1>1 DEF Session
  <2> HIDE DEF n, t
  <2> QED
    BY <1>1, <2>1 DEF Session, Ready
<1> HIDE DEF s
<1>5. CASE work' = [work EXCEPT ![r] = s]
  <2>1. ASSUME NEW v \in Words PROVE Folds(s, v, card[v], logs[v], v \notin raced')
    <3>1. Folds(work[r], v, card[v], logs[v], v \notin raced) /\ work[r].dirty = {}
      BY <1>1 DEF AgreeInv, Ready
    <3> QED
      BY <1>1, <1>4, <3>1 DEF Folds
  <2> QED
    BY <1>1, <1>4, <1>5, <2>1, AgreeStep
<1>6. CASE w \in work[r].loaded /\ work' = [work EXCEPT ![r] = t]
  <2>1. t = work'[r] /\ t \in Session
    BY <1>1, <1>6 DEF TypeOK
  <2>2. /\ t.held = s.held /\ t.loaded = s.loaded /\ t.seen = s.seen /\ t.kind = s.kind
        /\ t.pend = s.pend /\ t.new = n /\ t.dirty = {w}
    BY <1>4 DEF Session
  <2>3. n[w] = Replayed(logs[w]) /\ \A v \in Words \ {w} : n[v] = s.new[v]
    BY <1>2, <1>4 DEF Session
  <2> HIDE DEF n, t
  <2>4. work[r].pend[w] = {}
    <3>1. Folds(work[r], w, card[w], logs[w], w \notin raced)
      BY <1>2 DEF AgreeInv
    <3> QED
      BY <1>1, <3>1 DEF Folds, Ready
  <2>5. Replayed(logs[w]).exists /\ Agrees(Replayed(logs[w]), logs[w])
    BY DEF Replayed, Agrees
  <2>6. logs[w] \cup t.pend[w] = logs[w]
    BY <1>4, <2>2, <2>4
  <2>7. FoldsIn(r, w, t)
    BY <1>1, <1>4, <1>6, <2>2, <2>3, <2>4, <2>5, <2>6 DEF FoldsIn, Ready
  <2> QED
    BY <1>1, <1>2, <1>6, <2>1, <2>7, AgreeTurn DEF Ready
<1> QED
  BY <1>3, <1>5, <1>6

LEMMA AgreeEnded ==
    ASSUME AgreeInv, BlankInv', NEW r \in Requests, work' = [work EXCEPT ![r] = Rollback(r)],
           card' = card, logs' = logs, raced' = raced
    PROVE  AgreeInv'
<1>1. /\ Rollback(r) \in Session /\ Rollback(r).pend = [w \in Words |-> {}]
      /\ Rollback(r).new = [w \in Words |-> NoRow]
  BY RollbackType DEF AgreeInv, BlankInv, CardsInv
<1>2. Rollback(r).loaded = {} /\ Rollback(r).dirty = {} /\ Rollback(r).held = {}
  BY DEF Rollback, Closed
<1>3. \A w \in Words : Folds(Rollback(r), w, card[w], logs[w], w \notin raced')
  BY <1>1, <1>2 DEF Folds, NoRow
<1> QED
  BY <1>1, <1>3, AgreeStep

LEMMA AgreeAnswer ==
    ASSUME AgreeInv, BlankInv', NEW r \in Requests, Answer(r) \/ LoseAnswer(r)
    PROVE  AgreeInv'
<1>1. TypeOK
  BY DEF AgreeInv, BlankInv, CardsInv
<1>2. UNCHANGED <<card, logs, raced>>
  BY <1>1, AnswerOf
<1>3. PICK t \in Session : work' = [work EXCEPT ![r] = t] /\ Answered(work[r], t)
  BY <1>1, AnswerOf
<1>4. ASSUME NEW w \in Words
      PROVE  Folds(t, w, card[w], logs[w], w \notin raced')
  <2>1. Folds(work[r], w, card[w], logs[w], w \notin raced) /\ raced' = raced
    BY <1>2 DEF AgreeInv
  <2>2. /\ t.kind = work[r].kind /\ t.loaded = work[r].loaded /\ t.seen = work[r].seen
        /\ t.new = work[r].new /\ t.dirty = work[r].dirty /\ t.held = work[r].held
        /\ t.pend = work[r].pend
    BY <1>3 DEF Answered
  <2> QED
    BY <2>1, <2>2 DEF Folds
<1> QED
  BY <1>2, <1>3, <1>4, AgreeStep

\* The flush of a row that is no longer as it was loaded makes the word raced.
LEMMA AgreeFlush ==
    ASSUME AgreeInv, BlankInv', NEW r \in Requests, Flush(r)
    PROVE  AgreeInv'
<1>1. PICK w \in work[r].dirty :
        IF card[w].exists /\ ~work[r].seen[w].exists
        THEN /\ work' = [work EXCEPT ![r] = Rollback(r)]
             /\ raced' = raced
        ELSE /\ work' = [work EXCEPT ![r] =
                           [work[r] EXCEPT !.dirty = {}, !.held = @ \cup {w}]]
             /\ raced' = IF card[w] = work[r].seen[w] THEN raced ELSE raced \cup {w}
  BY DEF Flush
<1>2. card' = card /\ logs' = logs /\ work \in [Requests -> Session] /\ Blank(work[r])
  BY DEF Flush, AgreeInv, BlankInv, CardsInv, TypeOK
<1>3. CASE card[w].exists /\ ~work[r].seen[w].exists
  BY <1>1, <1>2, <1>3, AgreeEnded
<1>4. CASE ~(card[w].exists /\ ~work[r].seen[w].exists)
  <2> DEFINE s == [work[r] EXCEPT !.dirty = {}, !.held = @ \cup {w}]
  <2>1. w \in Words
    BY <1>2 DEF Session
  <2>2. /\ s \in Session /\ s.kind = work[r].kind /\ s.new = work[r].new
        /\ s.seen = work[r].seen /\ s.pend = work[r].pend
        /\ s.loaded = work[r].loaded /\ s.dirty = {} /\ s.held = work[r].held \cup {w}
    BY <1>2, <2>1 DEF Session
  <2>3. work' = [work EXCEPT ![r] = s]
    BY <1>1, <1>4, Zenon
  <2>4. raced' = IF card[w] = work[r].seen[w] THEN raced ELSE raced \cup {w}
    BY <1>1, <1>4, Zenon
  <2> HIDE DEF s
  <2>5. raced \subseteq raced' /\ (w \notin raced' => card[w] = work[r].seen[w])
    BY <2>4
  <2>6. ASSUME NEW v \in Words PROVE Folds(s, v, card[v], logs[v], v \notin raced')
    <3>1. Folds(work[r], v, card[v], logs[v], v \notin raced)
          /\ Folds(work[r], w, card[w], logs[w], w \notin raced)
      BY <2>1 DEF AgreeInv
    <3>2. work[r].dirty = {w}
      BY <3>1 DEF Folds
    <3>3. s.dirty \cup s.held = work[r].dirty \cup work[r].held
      BY <2>2, <3>2
    <3>4. v \notin raced' /\ v \in s.held => card[v] = s.seen[v]
      BY <2>2, <2>5, <3>1 DEF Folds
    <3>5. v \notin raced' => v \notin raced
      BY <2>5
    <3> QED
      BY <2>2, <3>1, <3>3, <3>4, <3>5 DEF Folds
  <2> QED
    BY <1>2, <2>2, <2>3, <2>5, <2>6, AgreeStep
<1> QED
  BY <1>3, <1>4

\* A commit puts the session's rows and log rows in place of those it loaded.
LEMMA AgreeCommit ==
    ASSUME AgreeInv, BlankInv', NEW r \in Requests, Commit(r)
    PROVE  AgreeInv'
<1> DEFINE s == [Closed EXCEPT !.pc = "committed", !.kind = work[r].kind,
                               !.batch = work[r].batch]
<1>1. work \in [Requests -> Session] /\ Exclusive /\ Blank(work[r])
  BY DEF AgreeInv, BlankInv, CardsInv, TypeOK
<1>2. /\ s \in Session /\ s.loaded = {} /\ s.dirty = {} /\ s.held = {}
      /\ s.pend = [w \in Words |-> {}] /\ s.new = [w \in Words |-> NoRow]
  BY <1>1, ClosedIsSession DEF Closed, Session, PCs
<1>3. work' = [work EXCEPT ![r] = s] /\ work[r].dirty = {} /\ raced' = raced
  BY DEF Commit, AtCommit
<1> HIDE DEF s
<1>4. work'[r] = s /\ \A q \in Requests \ {r} : work'[q] = work[q]
  BY <1>1, <1>2, <1>3, SessionUpdate
<1>5. ASSUME NEW w \in Words
      PROVE  /\ logs'[w] = logs[w] \cup work[r].pend[w]
             /\ w \notin work[r].held => card'[w] = card[w]
             /\ w \in work[r].held =>
                  card'[w] = Written(card[w], work[r].seen[w], work[r].new[w])
  BY DEF Commit, LogsAfter
<1>6. ASSUME NEW w \in Words, w \notin raced PROVE Agrees(card'[w], logs'[w])
  <2>1. /\ Folds(work[r], w, card[w], logs[w], w \notin raced)
        /\ Agrees(card[w], logs[w])
    BY <1>6 DEF AgreeInv
  <2>2. CASE w \notin work[r].held
    <3>1. work[r].pend[w] = {}
      BY <1>3, <2>1, <2>2 DEF Folds
    <3>2. logs'[w] = logs[w] /\ card'[w] = card[w]
      BY <1>5, <2>2, <3>1
    <3> QED
      BY <2>1, <3>2
  <2>3. CASE w \in work[r].held
    <3>1. w \in work[r].loaded /\ card[w] = work[r].seen[w]
      BY <1>1, <1>6, <2>1, <2>3 DEF Blank, Folds
    <3>2. work[r].seen[w].mem = logs[w]
      BY <2>1, <3>1 DEF Agrees
    <3>3. Agrees(work[r].new[w], logs'[w])
      BY <1>5, <1>6, <2>1, <3>1, <3>2 DEF Folds
    <3>4. card'[w] = Written(card[w], card[w], work[r].new[w])
      BY <1>5, <2>3, <3>1
    <3> QED
      BY <3>3, <3>4 DEF Agrees, Written
  <2> QED
    BY <2>2, <2>3
<1>7. ASSUME NEW q \in Requests, NEW w \in Words
      PROVE  Folds(work'[q], w, card'[w], logs'[w], w \notin raced')
  <2>1. CASE q = r
    BY <1>2, <1>4, <2>1 DEF Folds, NoRow
  <2>2. CASE q # r
    <3>1. Folds(work[q], w, card[w], logs[w], w \notin raced) /\ work'[q] = work[q]
      BY <1>4, <2>2 DEF AgreeInv
    <3>2. w \in work[q].held => card'[w] = card[w]
      BY <1>1, <1>5, <2>2 DEF Exclusive
    <3>3. logs[w] \subseteq logs'[w]
      BY <1>5
    <3>4. w \in work[q].loaded /\ work[q].seen[w].mem = logs'[w] => logs'[w] = logs[w]
      BY <3>1, <3>3 DEF Folds
    <3> QED
      BY <1>3, <3>1, <3>2, <3>3, <3>4 DEF Folds
  <2> QED
    BY <2>1, <2>2
<1>8. (\A w \in Words \ raced : Agrees(card[w], logs[w]))'
  BY <1>3, <1>6
<1>9. (\A q \in Requests : \A w \in Words :
         Folds(work[q], w, card[w], logs[w], w \notin raced))'
  BY <1>7
<1> QED
  BY <1>8, <1>9 DEF AgreeInv

LEMMA AgreeInit == Init => AgreeInv
<1> SUFFICES ASSUME Init PROVE AgreeInv
  OBVIOUS
<1>1. \A w \in Words : card[w] = NoRow /\ logs[w] = {}
  BY DEF Init
<1>2. \A w \in Words : Agrees(card[w], logs[w])
  BY <1>1, NothingAgrees
<1>3. ASSUME NEW r \in Requests, NEW w \in Words
      PROVE  Folds(work[r], w, card[w], logs[w], w \notin raced)
  <2>1. /\ work[r].loaded = {} /\ work[r].dirty = {} /\ work[r].held = {}
        /\ work[r].pend[w] = {} /\ work[r].new[w] = NoRow
    BY DEF Init, Closed
  <2> QED
    BY <2>1 DEF Folds, NoRow
<1> QED
  BY <1>2, <1>3, BlankInit DEF AgreeInv

LEMMA AgreeNext == AgreeInv /\ [Next]_vars => AgreeInv'
<1> SUFFICES ASSUME AgreeInv, [Next]_vars PROVE AgreeInv'
  OBVIOUS
<1>1. BlankInv'
  BY BlankNext DEF AgreeInv
<1>2. CASE UNCHANGED vars
  BY <1>1, <1>2 DEF vars, AgreeInv
<1>3. CASE Next
  <2> PICK r \in Requests : Arrive(r) \/ Serve(r) \/ Abort(r) \/ LoseAnswer(r)
    BY <1>3 DEF Next
  <2>1. CASE DeadlockVictim(r) \/ Abort(r)
    BY <1>1, <2>1, AgreeEnded DEF DeadlockVictim, Abort
  <2> QED
    BY <1>1, <2>1, AgreeArrive, AgreeReview, AgreeInitCard, AgreeReschedule, AgreeFlush,
       AgreeAnswer, AgreeCommit DEF Serve
<1> QED
  BY <1>2, <1>3

\* While no row was overwritten from a stale read, a card counts and remembers
\* every review in the log of its word and no other, for any interleaving of
\* reviews, initialisations, reschedules and failures.
THEOREM CardsAgree == Spec => []AgreeUnlessRaced
<1>1. AgreeInv => AgreeUnlessRaced
  BY DEF AgreeInv, Agrees, AgreeUnlessRaced
<1> QED
  BY <1>1, AgreeInit, AgreeNext, PTL DEF Spec


(***************************************************************************)
(* Nobody waits for ever.  A session moves in one of five ways (Moves), so *)
(* it stays at a place of its batch, with the words it holds behind it and *)
(* the changed one directly behind it (Proceeds).                          *)
(***************************************************************************)

Arrived(s, t) ==
    s.pc = "idle" /\ t.pc = "run" /\ t.next = 1 /\ t.dirty = {} /\ t.held = {}

Turned(s, t) ==
    /\ s.pc = "run" /\ t.pc = "run" /\ t.batch = s.batch
    /\ s.next \in 1..Len(s.batch) /\ t.next = s.next + 1
    /\ s.dirty = {} /\ t.dirty \in {{}, {s.batch[s.next].word}} /\ t.held = s.held

Flushed(s, t) ==
    /\ s.pc = "run" /\ t.pc = "run" /\ t.batch = s.batch /\ t.next = s.next
    /\ s.dirty # {} /\ t.dirty = {} /\ t.held \subseteq s.held \cup s.dirty

Ended(s, t) ==
    /\ s.pc = "run" /\ t.pc \in {"committed", "failed"}
    /\ t.next = 1 /\ t.dirty = {} /\ t.held = {}

Moves(s, t) ==
    Arrived(s, t) \/ Turned(s, t) \/ Flushed(s, t) \/ Ended(s, t) \/ Answered(s, t)

Proceeds(s) ==
    /\ s.next \in 1..(Len(s.batch) + 1)
    /\ s.pc = "idle" => s.next = 1
    /\ s.pc # "run" => s.dirty = {} /\ s.held = {}
    /\ s.dirty # {} => s.next > 1 /\ s.dirty = {s.batch[s.next - 1].word}
    /\ \A w \in s.held : \E i \in 1..(s.next - 1) : s.batch[i].word = w

AdvanceInv ==
    /\ BlankInv
    /\ \A r \in Requests : Proceeds(work[r])
    /\ IsFiniteSet(Running)

LEMMA MovesProceed ==
    ASSUME NEW s \in Session, NEW t \in Session, Proceeds(s), Moves(s, t)
    PROVE  Proceeds(t)
<1>0. /\ s.next \in Nat /\ Len(s.batch) \in Nat /\ Len(t.batch) \in Nat
  BY DEF Session
<1>1. CASE Arrived(s, t)
  BY <1>0, <1>1 DEF Arrived, Proceeds
<1>2. CASE Turned(s, t)
  <2>1. t.next \in 1..(Len(t.batch) + 1) /\ t.next > 1 /\ t.next - 1 = s.next
    BY <1>0, <1>2 DEF Turned
  <2>2. t.dirty # {} => t.dirty = {t.batch[t.next - 1].word}
    BY <1>2, <2>1 DEF Turned
  <2>3. \A w \in t.held : \E i \in 1..(t.next - 1) : t.batch[i].word = w
    <3>1. t.held = s.held /\ t.batch = s.batch
      BY <1>2 DEF Turned
    <3>2. \A w \in s.held : \E i \in 1..(s.next - 1) : s.batch[i].word = w
      BY DEF Proceeds
    <3>3. \A i \in 1..(s.next - 1) : i \in 1..(t.next - 1)
      BY <1>0, <2>1
    <3> QED
      BY <3>1, <3>2, <3>3
  <2>4. t.pc = "run"
    BY <1>2 DEF Turned
  <2> QED
    BY <2>1, <2>2, <2>3, <2>4 DEF Proceeds
<1>3. CASE Flushed(s, t)
  <2>1. t.pc = "run" /\ t.batch = s.batch /\ t.next = s.next /\ t.dirty = {}
    BY <1>3 DEF Flushed
  <2>2. s.next \in 1..(Len(s.batch) + 1) /\ s.next > 1 /\ s.dirty = {s.batch[s.next - 1].word}
    BY <1>3 DEF Flushed, Proceeds
  <2>3. s.next - 1 \in 1..(s.next - 1)
    BY <1>0, <2>2
  <2>4. \A w \in t.held : w \in s.held \/ w = s.batch[s.next - 1].word
    BY <1>3, <2>2 DEF Flushed
  <2>5. \A w \in s.held : \E i \in 1..(s.next - 1) : s.batch[i].word = w
    BY DEF Proceeds
  <2>6. \A w \in t.held : \E i \in 1..(t.next - 1) : t.batch[i].word = w
    BY <2>1, <2>3, <2>4, <2>5
  <2> QED
    BY <2>1, <2>2, <2>6 DEF Proceeds
<1>4. CASE Ended(s, t)
  BY <1>0, <1>4 DEF Ended, Proceeds
<1>5. CASE Answered(s, t)
  BY <1>0, <1>5 DEF Answered, Proceeds
<1> QED
  BY <1>1, <1>2, <1>3, <1>4, <1>5 DEF Moves

LEMMA ArriveMoves ==
    ASSUME AdvanceInv, CardsInv', NEW r \in Requests, Arrive(r)
    PROVE  \E t \in Session : work' = [work EXCEPT ![r] = t] /\ Moves(work[r], t)
<1>1. /\ TypeOK /\ work[r] \in Session /\ work[r].pc = "idle" /\ work[r].next = 1
      /\ work[r].dirty = {} /\ work[r].held = {}
  BY DEF AdvanceInv, BlankInv, CardsInv, TypeOK, Proceeds,
     Arrive, BeginBulkReview, BeginInitCards, BeginReschedule
<1>2. ASSUME NEW kind \in Kinds, NEW b \in Seq(Item)
      PROVE  Begin(r, kind, b) \in Session /\ Arrived(work[r], Begin(r, kind, b))
  BY <1>1 DEF Begin, Session, PCs, Arrived
<1>3. CASE BeginBulkReview(r)
  <2>1. PICK b \in Batches : work' = [work EXCEPT ![r] = Begin(r, "review", b)]
    BY <1>3 DEF BeginBulkReview
  <2> QED
    BY <1>2, <2>1, CardsAssumption DEF Kinds, Moves
<1>4. CASE BeginInitCards(r)
  <2>1. PICK b \in InitLists : work' = [work EXCEPT ![r] = Begin(r, "init", b)]
    BY <1>4 DEF BeginInitCards
  <2> QED
    BY <1>2, <2>1, CardsAssumption DEF Kinds, Moves
<1>5. CASE BeginReschedule(r)
  <2> DEFINE b == Begin(r, "reschedule", AllWords)
             s == [b EXCEPT !.loaded = {w \in Words : card[w].exists},
                            !.seen = card, !.new = card]
  <2>1. b \in Session /\ Arrived(work[r], b)
    BY <1>2, AllWordsType DEF Kinds
  <2>2. work' = [work EXCEPT ![r] = s]
    BY <1>5 DEF BeginReschedule
  <2> HIDE DEF b
  <2>3. s \in Session /\ Arrived(work[r], s)
    BY <1>1, <2>1 DEF Session, TypeOK, Arrived
  <2> HIDE DEF s
  <2> QED
    BY <2>2, <2>3 DEF Moves
<1> QED
  BY <1>3, <1>4, <1>5 DEF Arrive

LEMMA TurnMoves ==
    ASSUME AdvanceInv, CardsInv', NEW r \in Requests,
           ReviewCard(r) \/ InitCard(r) \/ RescheduleCard(r)
    PROVE  \E t \in Session : work' = [work EXCEPT ![r] = t] /\ Moves(work[r], t)
<1> DEFINE w == Current(r).word
           l == Load(r, w)
<1>1. TypeOK /\ work \in [Requests -> Session] /\ work' \in [Requests -> Session]
  BY DEF AdvanceInv, BlankInv, CardsInv, TypeOK
<1>2. PICK kind : Ready(r, kind)
  BY DEF ReviewCard, InitCard, RescheduleCard
<1>3. /\ work[r] \in Session /\ work[r].pc = "run" /\ work[r].dirty = {}
      /\ work[r].next \in 1..Len(work[r].batch) /\ w = work[r].batch[work[r].next].word
  BY <1>1, <1>2 DEF Ready, Session, Current
<1>4. w \in Words
  BY <1>1, <1>2, ItemType
<1> HIDE DEF w
<1>5. /\ l \in Session /\ l.pc = "run" /\ l.batch = work[r].batch /\ l.dirty = {}
      /\ l.next = work[r].next + 1 /\ l.held = work[r].held
  BY <1>1, <1>3, <1>4, LoadType, LoadFacts
<1>6. ASSUME NEW t, work' = [work EXCEPT ![r] = t], t.pc = "run", t.batch = work[r].batch,
             t.next = work[r].next + 1, t.dirty \in {{}, {w}}, t.held = work[r].held
      PROVE  \E u \in Session : work' = [work EXCEPT ![r] = u] /\ Moves(work[r], u)
  <2>1. t = work'[r] /\ t \in Session
    BY <1>1, <1>6
  <2>2. Turned(work[r], t)
    BY <1>3, <1>6 DEF Turned
  <2> QED
    BY <1>6, <2>1, <2>2 DEF Moves
<1> HIDE DEF l
<1>7. CASE ReviewCard(r)
  <2> DEFINE log == [by |-> r, at |-> clock, again |-> Current(r).again]
             n   == [l.new EXCEPT ![w] = Reviewed(@, log)]
             p   == [l.pend EXCEPT ![w] = @ \cup {log}]
             t   == [l EXCEPT !.new = n, !.pend = p, !.dirty = {w}]
  <2>1. work' = [work EXCEPT ![r] = t]
    BY <1>7 DEF ReviewCard, w, l
  <2> HIDE DEF n, p
  <2>2. /\ t.pc = "run" /\ t.batch = work[r].batch /\ t.next = work[r].next + 1
        /\ t.dirty = {w} /\ t.held = work[r].held
    BY <1>5 DEF Session
  <2> HIDE DEF t
  <2> QED
    BY <1>6, <2>1, <2>2
<1>8. CASE InitCard(r)
  <2> DEFINE n == [l.new EXCEPT ![w] = BlankRow]
             t == [l EXCEPT !.new = n, !.dirty = {w}]
  <2>1. work' = [work EXCEPT ![r] = t] \/ work' = [work EXCEPT ![r] = l]
    BY <1>8 DEF InitCard, w, l
  <2> HIDE DEF n
  <2>2. /\ t.pc = "run" /\ t.batch = work[r].batch /\ t.next = work[r].next + 1
        /\ t.dirty = {w} /\ t.held = work[r].held
    BY <1>5 DEF Session
  <2> HIDE DEF t
  <2> QED
    BY <1>5, <1>6, <2>1, <2>2
<1>9. CASE RescheduleCard(r)
  <2> DEFINE s == [work[r] EXCEPT !.next = @ + 1]
             n == [s.new EXCEPT ![w] = Replayed(logs[w])]
             t == [s EXCEPT !.new = n, !.dirty = {w}]
  <2>1. work' = [work EXCEPT ![r] = t] \/ work' = [work EXCEPT ![r] = s]
    BY <1>9 DEF RescheduleCard, w
  <2>2. /\ s \in Session /\ s.pc = "run" /\ s.batch = work[r].batch /\ s.dirty = {}
        /\ s.next = work[r].next + 1 /\ s.held = work[r].held
    <3>1. work[r].next + 1 \in Nat
      BY <1>3 DEF Session
    <3> HIDE DEF n, t
    <3> QED
      BY <1>3, <3>1 DEF Session
  <2> HIDE DEF s, n
  <2>3. /\ t.pc = "run" /\ t.batch = work[r].batch /\ t.next = work[r].next + 1
        /\ t.dirty = {w} /\ t.held = work[r].held
    BY <2>2 DEF Session
  <2> HIDE DEF t
  <2> QED
    BY <1>6, <2>1, <2>2, <2>3
<1> QED
  BY <1>7, <1>8, <1>9

LEMMA EndMoves ==
    ASSUME AdvanceInv, NEW r \in Requests, work[r].pc = "run",
           NEW pc \in {"committed", "failed"},
           work' = [work EXCEPT ![r] = [Closed EXCEPT !.pc = pc, !.kind = work[r].kind,
                                                      !.batch = work[r].batch]]
    PROVE  \E t \in Session : work' = [work EXCEPT ![r] = t] /\ Moves(work[r], t)
<1> DEFINE t == [Closed EXCEPT !.pc = pc, !.kind = work[r].kind, !.batch = work[r].batch]
<1>1. work[r] \in Session
  BY DEF AdvanceInv, BlankInv, CardsInv, TypeOK
<1>2. t \in Session
  BY <1>1, ClosedIsSession DEF Session, PCs
<1>3. t.pc = pc /\ t.next = 1 /\ t.dirty = {} /\ t.held = {}
  BY DEF Closed
<1>4. work' = [work EXCEPT ![r] = t]
  OBVIOUS
<1> HIDE DEF t
<1> QED
  BY <1>2, <1>3, <1>4 DEF Moves, Ended

LEMMA FlushMoves ==
    ASSUME AdvanceInv, CardsInv', NEW r \in Requests, Flush(r)
    PROVE  \E t \in Session : work' = [work EXCEPT ![r] = t] /\ Moves(work[r], t)
<1>1. /\ work[r] \in Session /\ work' \in [Requests -> Session]
      /\ work \in [Requests -> Session] /\ work[r].pc = "run"
  BY DEF AdvanceInv, BlankInv, CardsInv, TypeOK, Flush
<1>2. PICK w \in work[r].dirty :
        \/ work' = [work EXCEPT ![r] = Rollback(r)]
        \/ work' = [work EXCEPT ![r] =
                      [work[r] EXCEPT !.dirty = {}, !.held = @ \cup {w}]]
  BY DEF Flush
<1>3. CASE work' = [work EXCEPT ![r] = Rollback(r)]
  BY <1>1, <1>3, EndMoves DEF Rollback
<1>4. CASE work' = [work EXCEPT ![r] =
                      [work[r] EXCEPT !.dirty = {}, !.held = @ \cup {w}]]
  <2> DEFINE s == [work[r] EXCEPT !.dirty = {}, !.held = @ \cup {w}]
  <2>1. s = work'[r] /\ s \in Session
    BY <1>1, <1>4
  <2>2. /\ s.pc = "run" /\ s.batch = work[r].batch /\ s.next = work[r].next
        /\ s.dirty = {} /\ s.held = work[r].held \cup {w}
    BY <1>1 DEF Session
  <2> HIDE DEF s
  <2>3. Flushed(work[r], s)
    BY <1>1, <1>2, <2>2 DEF Flushed
  <2> QED
    BY <1>4, <2>1, <2>3 DEF Moves, s
<1> QED
  BY <1>2, <1>3, <1>4

LEMMA EveryoneMoves ==
    ASSUME AdvanceInv, Next
    PROVE  \E r \in Requests : \E t \in Session :
             work' = [work EXCEPT ![r] = t] /\ Moves(work[r], t)
<1>1. CardsInv'
  BY CardsStep DEF AdvanceInv, BlankInv
<1>2. PICK r \in Requests : Arrive(r) \/ Serve(r) \/ Abort(r) \/ LoseAnswer(r)
  BY DEF Next
<1>3. CASE DeadlockVictim(r)
  <2>1. work[r].dirty # {}
    BY <1>3 DEF DeadlockVictim, InCycle, BlockedBy
  <2>2. work[r].pc = "run"
    BY <2>1 DEF AdvanceInv, BlankInv, Blank
  <2> QED
    BY <1>3, <2>2, EndMoves DEF DeadlockVictim, Rollback
<1>4. CASE Abort(r)
  BY <1>4, EndMoves DEF Abort, Rollback
<1>5. CASE Commit(r)
  BY <1>5, EndMoves DEF Commit
<1>6. CASE Answer(r) \/ LoseAnswer(r)
  <2>1. TypeOK
    BY DEF AdvanceInv, BlankInv, CardsInv
  <2>2. PICK t \in Session : work' = [work EXCEPT ![r] = t] /\ Answered(work[r], t)
    BY <1>6, <2>1, AnswerOf
  <2> QED
    BY <2>2 DEF Moves
<1> QED
  BY <1>1, <1>2, <1>3, <1>4, <1>5, <1>6, ArriveMoves, TurnMoves, FlushMoves DEF Serve

LEMMA AdvanceInit == Init => AdvanceInv
<1> SUFFICES ASSUME Init PROVE AdvanceInv
  OBVIOUS
<1>1. \A r \in Requests : work[r] = Closed
  BY DEF Init
<1>2. /\ Closed.pc = "idle" /\ Closed.next = 1 /\ Closed.batch = <<>>
      /\ Closed.dirty = {} /\ Closed.held = {}
  BY DEF Closed
<1>3. Proceeds(Closed)
  BY <1>2 DEF Proceeds
<1>4. Running = {}
  BY <1>1, <1>2 DEF Running
<1> QED
  BY <1>1, <1>3, <1>4, BlankInit, FS_EmptySet DEF AdvanceInv

LEMMA AdvanceNext == AdvanceInv /\ [Next]_vars => AdvanceInv'
<1> SUFFICES ASSUME AdvanceInv, [Next]_vars PROVE AdvanceInv'
  OBVIOUS
<1>1. BlankInv'
  BY BlankNext DEF AdvanceInv
<1>2. CASE UNCHANGED vars
  <2>1. work' = work /\ Running' = Running
    BY <1>2 DEF vars, Running
  <2> QED
    BY <1>1, <2>1 DEF AdvanceInv
<1>3. CASE Next
  <2>0. work \in [Requests -> Session]
    BY DEF AdvanceInv, BlankInv, CardsInv, TypeOK
  <2>1. PICK r \in Requests : \E t \in Session :
               work' = [work EXCEPT ![r] = t] /\ Moves(work[r], t)
    BY <1>3, EveryoneMoves
  <2>2. PICK t \in Session : work' = [work EXCEPT ![r] = t] /\ Moves(work[r], t)
    BY <2>1
  <2>3. work'[r] = t /\ \A q \in Requests \ {r} : work'[q] = work[q]
    BY <2>0, <2>2, SessionUpdate
  <2>4. Proceeds(t)
    BY <2>0, <2>2, MovesProceed DEF AdvanceInv
  <2>5. \A q \in Requests : Proceeds(work'[q])
    BY <2>3, <2>4 DEF AdvanceInv
  <2>6. Running' \subseteq Running \cup {r}
    BY <2>3 DEF Running
  <2>7. IsFiniteSet(Running')
    BY <2>6, FS_AddElement, FS_Subset DEF AdvanceInv
  <2> QED
    BY <1>1, <2>5, <2>7 DEF AdvanceInv, Proceeds
<1> QED
  BY <1>2, <1>3

\* What is left of a request: two steps for each item, and one for its flush.
ToDo(s) == 2 * (Len(s.batch) + 1 - s.next) + Cardinality(s.dirty)

Closer(s, t) ==
    \/ s.pc = "idle" /\ t.pc = "run"
    \/ s.pc = "run" /\ t.pc \in {"committed", "failed"}
    \/ s.pc = "committed" /\ t.pc \in {"done", "failed"}
    \/ /\ s.pc = "run" /\ t.pc = "run"
       /\ ToDo(s) \in Nat /\ ToDo(t) \in Nat /\ ToDo(t) < ToDo(s)

LEMMA OneDirty ==
    ASSUME NEW s \in Session, Proceeds(s)
    PROVE  /\ Len(s.batch) \in Nat /\ s.next \in 1..(Len(s.batch) + 1)
           /\ Cardinality(s.dirty) = IF s.dirty = {} THEN 0 ELSE 1
<1>1. CASE s.dirty = {}
  BY <1>1, FS_EmptySet DEF Session, Proceeds
<1>2. CASE s.dirty # {}
  <2>1. PICK w : s.dirty = {w}
    BY <1>2 DEF Proceeds
  <2>2. Cardinality({w}) = 1
    BY FS_Singleton
  <2>3. Cardinality(s.dirty) = 1
    BY <2>1, <2>2
  <2> QED
    BY <1>2, <2>3 DEF Session, Proceeds
<1> QED
  BY <1>1, <1>2

LEMMA MovesCloser ==
    ASSUME NEW s \in Session, NEW t \in Session, Proceeds(s), Moves(s, t)
    PROVE  Closer(s, t)
<1>1. CASE Arrived(s, t) \/ Ended(s, t) \/ Answered(s, t)
  BY <1>1 DEF Arrived, Ended, Answered, Closer
<1>2. CASE Turned(s, t) \/ Flushed(s, t)
  <2>1. Proceeds(t)
    BY MovesProceed
  <2>2. /\ Cardinality(s.dirty) = IF s.dirty = {} THEN 0 ELSE 1
        /\ Cardinality(t.dirty) = IF t.dirty = {} THEN 0 ELSE 1
        /\ Len(s.batch) \in Nat
        /\ s.next \in 1..(Len(s.batch) + 1) /\ t.next \in 1..(Len(t.batch) + 1)
    BY <2>1, OneDirty
  <2>3. t.batch = s.batch /\ s.pc = "run" /\ t.pc = "run"
    BY <1>2 DEF Turned, Flushed
  <2>4. ToDo(s) \in Nat /\ ToDo(t) \in Nat
    <3>1. Len(s.batch) + 1 - s.next \in Nat /\ Len(t.batch) + 1 - t.next \in Nat
      BY <2>2, <2>3
    <3>2. Cardinality(s.dirty) \in Nat /\ Cardinality(t.dirty) \in Nat
      BY <2>2
    <3> QED
      BY <3>1, <3>2 DEF ToDo
  <2>5. ToDo(t) < ToDo(s)
    <3>1. CASE Turned(s, t)
      BY <2>2, <2>3, <3>1 DEF ToDo, Turned
    <3>2. CASE Flushed(s, t)
      BY <2>2, <2>3, <3>2 DEF ToDo, Flushed
    <3> QED
      BY <1>2, <3>1, <3>2
  <2> QED
    BY <2>3, <2>4, <2>5 DEF Closer
<1> QED
  BY <1>1, <1>2 DEF Moves

\* Every step moves one request, and that one nearer to its end: what is left
\* of it is a number that falls.  So each of the requests that have arrived
\* takes a bounded number of steps, however they overlap.
THEOREM RequestsAdvance ==
    Spec => [][\E r \in Requests :
                 /\ \A q \in Requests \ {r} : work'[q] = work[q]
                 /\ Closer(work[r], work'[r])]_vars
<1>1. AdvanceInv /\ [Next]_vars =>
        [\E r \in Requests : /\ \A q \in Requests \ {r} : work'[q] = work[q]
                             /\ Closer(work[r], work'[r])]_vars
  <2> SUFFICES ASSUME AdvanceInv, Next
               PROVE  \E r \in Requests :
                        /\ \A q \in Requests \ {r} : work'[q] = work[q]
                        /\ Closer(work[r], work'[r])
    OBVIOUS
  <2>1. work \in [Requests -> Session]
    BY DEF AdvanceInv, BlankInv, CardsInv, TypeOK
  <2>2. PICK r \in Requests : \E t \in Session :
               work' = [work EXCEPT ![r] = t] /\ Moves(work[r], t)
    BY EveryoneMoves
  <2>3. PICK t \in Session : work' = [work EXCEPT ![r] = t] /\ Moves(work[r], t)
    BY <2>2
  <2>4. work'[r] = t /\ \A q \in Requests \ {r} : work'[q] = work[q]
    BY <2>1, <2>3, SessionUpdate
  <2>5. Closer(work[r], t)
    BY <2>1, <2>3, MovesCloser DEF AdvanceInv
  <2> QED
    BY <2>4, <2>5
<1> QED
  BY <1>1, AdvanceInit, AdvanceNext, PTL DEF Spec

\* Transactions each of which waits for another of them have a cycle: the
\* smallest such set is one.
LEMMA WaitersHaveCycle ==
    ASSUME NEW W \in SUBSET Requests, IsFiniteSet(W), W # {},
           \A p \in W : \E q \in W : BlockedBy(p, q)
    PROVE  \E r \in W : InCycle(r)
<1> DEFINE Waiting == {C \in SUBSET W : C # {} /\ \A p \in C : \E q \in C : BlockedBy(p, q)}
           Below == StrictSubsetOrdering(W)
<1>1. IsWellFoundedOn(Below, SUBSET W)
  <2>1. FiniteSubsetsOf(W) = SUBSET W
    BY FS_FiniteSubsetsOfFinite
  <2> QED
    BY <2>1, FS_StrictSubsetOrderingWellFounded
<1>2. Waiting \subseteq SUBSET W /\ W \in Waiting
  OBVIOUS
<1>3. PICK C \in Waiting : \A D \in Waiting : ~(<<D, C>> \in Below)
  <2> HIDE DEF Waiting, Below
  <2> QED
    BY <1>1, <1>2, WFMin
<1>4. C \subseteq W /\ C # {} /\ \A p \in C : \E q \in C : BlockedBy(p, q)
  OBVIOUS
<1>5. ASSUME NEW p \in C PROVE \E q \in C : BlockedBy(q, p)
  <2> SUFFICES ASSUME \A q \in C : ~BlockedBy(q, p) PROVE FALSE
    OBVIOUS
  <2> DEFINE D == C \ {p}
  <2>1. PICK q \in C : BlockedBy(p, q)
    BY <1>4
  <2>2. q \in D
    BY <2>1 DEF BlockedBy
  <2>3. \A t \in D : \E u \in D : BlockedBy(t, u)
    BY <1>4
  <2>4. D \in Waiting /\ D \subseteq C /\ D # C
    BY <1>4, <2>2, <2>3
  <2>5. <<D, C>> \in Below
    BY <1>4, <2>4 DEF StrictSubsetOrdering
  <2> QED
    BY <1>3, <2>4, <2>5
<1>6. \A r \in C : InCycle(r)
  BY <1>4, <1>5 DEF InCycle
<1> QED
  BY <1>4, <1>6

LEMMA SomeoneSteps == AdvanceInv => NobodyStuck
<1> SUFFICES ASSUME AdvanceInv, Running # {}, \A r \in Running : ~CanStep(r)
             PROVE  FALSE
  BY DEF NobodyStuck
<1>1. /\ Running \subseteq Requests /\ IsFiniteSet(Running)
      /\ work \in [Requests -> Session]
  BY DEF AdvanceInv, BlankInv, CardsInv, TypeOK, Running
<1>2. ASSUME NEW p \in Running PROVE \E q \in Running : BlockedBy(p, q)
  <2>1. work[p] \in Session /\ work[p].pc = "run"
    BY <1>1 DEF Running
  <2>2. work[p].dirty # {}
    BY <2>1 DEF CanStep, Ready, AtCommit
  <2>3. PICK w \in work[p].dirty : ~Free(p, w)
    BY <2>2 DEF CanStep
  <2>4. PICK q \in Requests : w \in work[q].held /\ q # p
    BY <2>3 DEF Free, Holders
  <2>5. work[q].pc = "run"
    BY <2>4 DEF AdvanceInv, Proceeds
  <2> QED
    BY <2>4, <2>5 DEF Running, BlockedBy
<1>3. \E r \in Running : InCycle(r)
  BY <1>1, <1>2, WaitersHaveCycle
<1> QED
  BY <1>3 DEF CanStep

\* As long as requests are being served one of them can go on: it is not
\* waiting for a row, or the database finds it in a cycle and ends it.
THEOREM SomeoneCanGoOn == Spec => []NobodyStuck
<1> QED
  BY SomeoneSteps, AdvanceInit, AdvanceNext, PTL DEF Spec

(***************************************************************************)
(* What would spare the service its deadlocks: bodies that name the words  *)
(* in one order.  A waiting transaction wants a word behind those it       *)
(* holds, so along a chain of waiting ones the wanted words ascend.        *)
(***************************************************************************)

Ascending(batch, ord) ==
    \A i, j \in 1..Len(batch) : i < j => ord[batch[i].word] <= ord[batch[j].word]

OrderedNeverDeadlock ==
    \A ord \in [Words -> Nat] :
        /\ \A v, w \in Words : ord[v] = ord[w] => v = w
        /\ \A r \in Running : Ascending(work[r].batch, ord)
        => \A r \in Requests : ~InCycle(r)

LEMMA LeastNumber ==
    ASSUME NEW M \in SUBSET Nat, M # {}
    PROVE  \E x \in M : \A y \in M : x <= y
<1> PICK m \in M : TRUE
  OBVIOUS
<1> DEFINE Down == {0..x : x \in {y \in M : y <= m}}
           Below == StrictSubsetOrdering(0..m)
<1>1. IsWellFoundedOn(Below, SUBSET (0..m))
  <2>1. IsFiniteSet(0..m)
    BY FS_Interval
  <2> QED
    BY <2>1, FS_FiniteSubsetsOfFinite, FS_StrictSubsetOrderingWellFounded
<1>2. Down \subseteq SUBSET (0..m) /\ 0..m \in Down
  <2>1. \A x \in {y \in M : y <= m} : 0..x \in SUBSET (0..m)
    OBVIOUS
  <2>2. m \in {y \in M : y <= m}
    OBVIOUS
  <2> QED
    BY <2>1, <2>2
<1>3. PICK I \in Down : \A J \in Down : ~(<<J, I>> \in Below)
  <2> HIDE DEF Down, Below
  <2> QED
    BY <1>1, <1>2, WFMin
<1>4. PICK x \in {y \in M : y <= m} : I = 0..x
  OBVIOUS
<1>5. ASSUME NEW y \in M, y < x PROVE FALSE
  <2>1. y \in {z \in M : z <= m}
    BY <1>4, <1>5
  <2>2. 0..y \in Down /\ 0..y \subseteq I /\ 0..y # I
    <3>1. 0..y \in Down
      BY <2>1
    <3>2. x \in 0..x /\ x \notin 0..y /\ 0..y \subseteq 0..x
      BY <1>4, <1>5
    <3> QED
      BY <1>4, <3>1, <3>2
  <2>3. <<0..y, I>> \in Below
    BY <1>2, <2>2 DEF StrictSubsetOrdering
  <2> QED
    BY <1>3, <2>2, <2>3
<1> QED
  BY <1>4, <1>5

LEMMA WaitersAscend ==
    ASSUME AdvanceInv, NEW ord \in [Words -> Nat],
           \A v, w \in Words : ord[v] = ord[w] => v = w,
           NEW p \in Requests, NEW q \in Requests, BlockedBy(p, q),
           Ascending(work[q].batch, ord),
           NEW v \in work[p].dirty, NEW w \in work[q].dirty,
           \E u \in Requests : BlockedBy(q, u)
    PROVE  ord[v] < ord[w]
<1>1. /\ work[p] \in Session /\ work[q] \in Session /\ v \in Words /\ w \in Words
      /\ Proceeds(work[p]) /\ Proceeds(work[q])
  BY DEF AdvanceInv, BlankInv, CardsInv, TypeOK, Session
<1>2. work[p].dirty = {v} /\ work[q].dirty = {w}
  <2>1. work[p].dirty # {} /\ work[q].dirty # {}
    OBVIOUS
  <2>2. work[p].dirty = {work[p].batch[work[p].next - 1].word}
    BY <1>1, <2>1 DEF Proceeds
  <2>3. work[q].dirty = {work[q].batch[work[q].next - 1].word}
    BY <1>1, <2>1 DEF Proceeds
  <2>4. work[p].dirty = {v}
    BY <2>2, Zenon
  <2> QED
    BY <2>3, <2>4, Zenon
<1>3. v \in work[q].held /\ q # p
  BY <1>2 DEF BlockedBy
<1> DEFINE b == work[q].batch
           n == work[q].next
<1>4. n \in 1..(Len(b) + 1) /\ n > 1 /\ w = b[n - 1].word /\ Len(b) \in Nat
  <2>1. work[q].dirty # {}
    BY <1>2
  <2>2. n \in 1..(Len(b) + 1) /\ n > 1 /\ work[q].dirty = {b[n - 1].word}
    BY <1>1, <2>1 DEF Proceeds
  <2>3. Len(b) \in Nat
    BY <1>1 DEF Session
  <2> HIDE DEF b, n
  <2> QED
    BY <1>2, <2>2, <2>3
<1>5. PICK i \in 1..(n - 1) : b[i].word = v
  BY <1>1, <1>3 DEF Proceeds
<1>6. v # w
  <2>1. PICK u \in Requests : BlockedBy(q, u)
    OBVIOUS
  <2>2. w \in work[u].held /\ u # q
    BY <1>2, <2>1 DEF BlockedBy
  <2>3. work[q].held \cap work[u].held = {}
    BY <2>2 DEF AdvanceInv, BlankInv, Exclusive
  <2> QED
    BY <1>3, <2>2, <2>3
<1> HIDE DEF b, n
<1>7. ord[v] <= ord[w]
  <2>1. i # n - 1
    BY <1>4, <1>5, <1>6
  <2>2. i \in 1..Len(b) /\ n - 1 \in 1..Len(b) /\ i < n - 1
    BY <1>4, <1>5, <2>1
  <2> QED
    BY <1>4, <1>5, <2>2 DEF Ascending, b
<1> QED
  BY <1>1, <1>6, <1>7

LEMMA OrderedSteps == AdvanceInv => OrderedNeverDeadlock
<1> SUFFICES ASSUME AdvanceInv, NEW ord \in [Words -> Nat],
                    \A v, w \in Words : ord[v] = ord[w] => v = w,
                    \A r \in Running : Ascending(work[r].batch, ord),
                    NEW r \in Requests, InCycle(r)
             PROVE  FALSE
  BY DEF OrderedNeverDeadlock
<1>1. PICK C \in SUBSET Requests :
        /\ r \in C
        /\ \A p \in C : \E q \in C : BlockedBy(p, q)
        /\ \A p \in C : \E q \in C : BlockedBy(q, p)
  BY DEF InCycle
<1>2. \A p \in C : p \in Running /\ work[p].dirty # {} /\ work[p].dirty \subseteq Words
  <2>1. work \in [Requests -> Session] /\ \A p \in Requests : Proceeds(work[p])
    BY DEF AdvanceInv, BlankInv, CardsInv, TypeOK
  <2>2. \A p \in C : work[p].dirty # {}
    BY <1>1 DEF BlockedBy
  <2> QED
    BY <2>1, <2>2 DEF Session, Proceeds, Running
<1> DEFINE M == {ord[w] : w \in UNION {work[p].dirty : p \in C}}
<1>3. M \subseteq Nat /\ M # {}
  BY <1>1, <1>2
<1>4. PICK x \in M : \A y \in M : x <= y
  <2> HIDE DEF M
  <2> QED
    BY <1>3, LeastNumber
<1>5. PICK p \in C : \E w \in work[p].dirty : x = ord[w]
  OBVIOUS
<1>6. PICK w \in work[p].dirty : x = ord[w]
  BY <1>5
<1>7. PICK q \in C : BlockedBy(q, p)
  BY <1>1
<1>8. PICK v \in work[q].dirty : TRUE
  BY <1>2
<1>9. ord[v] < ord[w]
  <2>1. \E u \in Requests : BlockedBy(p, u)
    BY <1>1
  <2> QED
    BY <1>1, <1>2, <1>6, <1>7, <1>8, <2>1, WaitersAscend
<1>10. ord[v] \in M
  OBVIOUS
<1>11. x <= ord[v] /\ ord[v] \in Nat /\ x \in Nat
  BY <1>3, <1>4, <1>10
<1> QED
  BY <1>6, <1>9, <1>11

\* If the bodies being served name their words in one order, the same for all,
\* no request is ever ended as the victim of a deadlock.  bulk_review takes the
\* items as they come, so this is a condition on its callers.
THEOREM OrderedBodiesNeverDeadlock == Spec => []OrderedNeverDeadlock
<1> QED
  BY OrderedSteps, AdvanceInit, AdvanceNext, PTL DEF Spec

(***************************************************************************)
(* The log is the history of ReviewHistory.  An open bulk review has, per  *)
(* word, a log row for each of the items it has processed, stamped in the  *)
(* order of the body (Stamped).                                            *)
(***************************************************************************)

\* The first n reviews of a body, each later than the one before.
Ascends(stamp, n, t) ==
    /\ stamp \in [1..n -> 1..(t - 1)]
    /\ \A i, j \in 1..n : i < j => stamp[i] < stamp[j]

RowsUpTo(body, stamp, n, r, w) ==
    {[by |-> r, at |-> stamp[i], again |-> body[i].again] :
        i \in {j \in 1..n : body[j].word = w}}

Reviewing(s) == s.pc = "run" /\ s.kind = "review"

StampedBy(stamp, s, r, t) ==
    /\ Ascends(stamp, s.next - 1, t)
    /\ \A w \in Words : s.pend[w] = RowsUpTo(s.batch, stamp, s.next - 1, r, w)

Stamped(s, r, t) == Reviewing(s) => \E stamp : StampedBy(stamp, s, r, t)

HistoryInv ==
    /\ BatchInv
    /\ clock >= 1
    /\ \A r \in Requests : Stamped(work[r], r, clock)

LEMMA StampedLater ==
    ASSUME NEW s, NEW r, NEW t \in Nat, NEW u \in Nat, t <= u, Stamped(s, r, t)
    PROVE  Stamped(s, r, u)
<1> SUFFICES ASSUME Reviewing(s) PROVE \E stamp : StampedBy(stamp, s, r, u)
  BY DEF Stamped
<1>1. PICK stamp : StampedBy(stamp, s, r, t)
  BY DEF Stamped
<1>2. 1..(t - 1) \subseteq 1..(u - 1)
  OBVIOUS
<1>3. Ascends(stamp, s.next - 1, u)
  BY <1>1, <1>2 DEF StampedBy, Ascends
<1> QED
  BY <1>1, <1>3 DEF StampedBy

\* A step of one session; time may pass.
LEMMA StampedStep ==
    ASSUME HistoryInv, BatchInv', NEW r \in Requests, NEW s \in Session,
           work' = [work EXCEPT ![r] = s], clock' \in {clock, clock + 1},
           Stamped(s, r, clock')
    PROVE  HistoryInv'
<1>1. work \in [Requests -> Session] /\ clock \in Nat /\ clock' \in Nat /\ clock <= clock'
  BY DEF HistoryInv, BatchInv, BlankInv, CardsInv, TypeOK
<1>2. work'[r] = s /\ \A q \in Requests \ {r} : work'[q] = work[q]
  BY <1>1, SessionUpdate
<1>3. \A q \in Requests \ {r} : Stamped(work[q], q, clock')
  BY <1>1, StampedLater DEF HistoryInv
<1>4. \A q \in Requests : Stamped(work'[q], q, clock')
  BY <1>2, <1>3
<1>5. clock' >= 1
  BY <1>1 DEF HistoryInv
<1> QED
  BY <1>4, <1>5 DEF HistoryInv, Stamped, Reviewing, StampedBy

\* An open bulk review, and what a step leaves alone.
LEMMA SameStamped ==
    ASSUME HistoryInv, BatchInv', NEW r \in Requests, NEW s \in Session,
           work' = [work EXCEPT ![r] = s], clock' = clock,
           Reviewing(s) => /\ Reviewing(work[r]) /\ s.pend = work[r].pend
                           /\ s.batch = work[r].batch /\ s.next = work[r].next
    PROVE  HistoryInv'
<1>1. Stamped(s, r, clock')
  BY DEF HistoryInv, Stamped, StampedBy
<1> QED
  BY <1>1, StampedStep

LEMMA NothingStamped ==
    ASSUME NEW s, NEW r, s.next = 1, \A w \in Words : s.pend[w] = {}
    PROVE  Stamped(s, r, clock)
<1>1. PICK stamp : stamp = [i \in 1..0 |-> 1]
  OBVIOUS
<1>2. 1..0 = {} /\ s.next - 1 = 0
  OBVIOUS
<1>3. Ascends(stamp, s.next - 1, clock)
  BY <1>1, <1>2 DEF Ascends
<1>4. \A w \in Words : RowsUpTo(s.batch, stamp, s.next - 1, r, w) = {}
  BY <1>2 DEF RowsUpTo
<1> QED
  BY <1>3, <1>4 DEF Stamped, StampedBy

LEMMA StampedArrive ==
    ASSUME HistoryInv, BatchInv', NEW r \in Requests, Arrive(r)
    PROVE  HistoryInv'
<1>1. /\ work \in [Requests -> Session] /\ work[r] \in Session /\ work[r].pc = "idle"
      /\ Counted(work[r], r) /\ clock' = clock /\ TypeOK
  BY DEF HistoryInv, BatchInv, BlankInv, CardsInv, TypeOK, Arrive,
     BeginBulkReview, BeginInitCards, BeginReschedule
<1>2. work[r].next = 1 /\ \A w \in Words : work[r].pend[w] = {}
  BY <1>1 DEF Counted, Pending
<1>3. ASSUME NEW s \in Session, s.pend = work[r].pend, s.next = 1,
             work' = [work EXCEPT ![r] = s]
      PROVE  HistoryInv'
  <2>1. Stamped(s, r, clock')
    BY <1>1, <1>2, <1>3, NothingStamped
  <2> QED
    BY <1>1, <1>3, <2>1, StampedStep
<1>4. ASSUME NEW kind \in Kinds, NEW b \in Seq(Item)
      PROVE  /\ Begin(r, kind, b) \in Session
             /\ Begin(r, kind, b).pend = work[r].pend /\ Begin(r, kind, b).next = 1
  BY <1>1, <1>2 DEF Begin, Session, PCs
<1>5. CASE BeginBulkReview(r)
  <2>1. PICK b \in Batches : work' = [work EXCEPT ![r] = Begin(r, "review", b)]
    BY <1>5 DEF BeginBulkReview
  <2> QED
    BY <1>3, <1>4, <2>1, CardsAssumption DEF Kinds
<1>6. CASE BeginInitCards(r)
  <2>1. PICK b \in InitLists : work' = [work EXCEPT ![r] = Begin(r, "init", b)]
    BY <1>6 DEF BeginInitCards
  <2> QED
    BY <1>3, <1>4, <2>1, CardsAssumption DEF Kinds
<1>7. CASE BeginReschedule(r)
  <2> DEFINE b == Begin(r, "reschedule", AllWords)
             s == [b EXCEPT !.loaded = {w \in Words : card[w].exists},
                            !.seen = card, !.new = card]
  <2>1. b \in Session /\ b.pend = work[r].pend /\ b.next = 1
    BY <1>4, AllWordsType DEF Kinds
  <2>2. work' = [work EXCEPT ![r] = s]
    BY <1>7 DEF BeginReschedule
  <2> HIDE DEF b
  <2>3. s \in Session /\ s.pend = work[r].pend /\ s.next = 1
    BY <1>1, <2>1 DEF Session, TypeOK
  <2> HIDE DEF s
  <2> QED
    BY <1>3, <2>2, <2>3
<1> QED
  BY <1>5, <1>6, <1>7 DEF Arrive

\* One more item: its row is stamped with the clock.
RowAdded(body, stamp, later, n, t, r) ==
    \A w \in Words :
        RowsUpTo(body, later, n + 1, r, w) =
          RowsUpTo(body, stamp, n, r, w) \cup
          (IF body[n + 1].word = w
           THEN {[by |-> r, at |-> t, again |-> body[n + 1].again]} ELSE {})

LEMMA OneMoreRow ==
    ASSUME NEW body \in Seq(Item), NEW n \in Nat, n + 1 \in 1..Len(body),
           NEW stamp, NEW t \in Nat \ {0}, Ascends(stamp, n, t), NEW r
    PROVE  \E later : Ascends(later, n + 1, t + 1) /\ RowAdded(body, stamp, later, n, t, r)
<1>1. PICK later : later = [i \in 1..(n + 1) |-> IF i = n + 1 THEN t ELSE stamp[i]]
  OBVIOUS
<1>2. later[n + 1] = t /\ \A i \in 1..n : later[i] = stamp[i]
  BY <1>1
<1>3. 1..(n + 1) = 1..n \cup {n + 1}
  OBVIOUS
<1>4. Ascends(later, n + 1, t + 1)
  <2>1. \A i \in 1..n : stamp[i] \in 1..(t - 1)
    BY DEF Ascends
  <2>2. later \in [1..(n + 1) -> 1..((t + 1) - 1)]
    BY <1>1, <2>1
  <2>3. ASSUME NEW i \in 1..(n + 1), NEW j \in 1..(n + 1), i < j
        PROVE  later[i] < later[j]
    <3>1. i \in 1..n
      BY <2>3
    <3>2. CASE j = n + 1
      BY <1>2, <2>1, <3>1, <3>2
    <3>3. CASE j \in 1..n
      BY <1>2, <2>3, <3>1, <3>3 DEF Ascends
    <3> QED
      BY <3>2, <3>3
  <2> QED
    BY <2>2, <2>3 DEF Ascends
<1>5. ASSUME NEW w \in Words
      PROVE  RowsUpTo(body, later, n + 1, r, w) =
               RowsUpTo(body, stamp, n, r, w) \cup
               (IF body[n + 1].word = w
                THEN {[by |-> r, at |-> t, again |-> body[n + 1].again]} ELSE {})
  <2>1. {j \in 1..(n + 1) : body[j].word = w} =
          {j \in 1..n : body[j].word = w} \cup
          (IF body[n + 1].word = w THEN {n + 1} ELSE {})
    BY <1>3
  <2>2. RowsUpTo(body, later, n, r, w) = RowsUpTo(body, stamp, n, r, w)
    BY <1>2 DEF RowsUpTo
  <2>3. RowsUpTo(body, later, n + 1, r, w) =
          RowsUpTo(body, later, n, r, w) \cup
          (IF body[n + 1].word = w
           THEN {[by |-> r, at |-> later[n + 1], again |-> body[n + 1].again]} ELSE {})
    BY <2>1 DEF RowsUpTo
  <2> QED
    BY <1>2, <2>2, <2>3
<1> QED
  BY <1>4, <1>5 DEF RowAdded

LEMMA StampedReview ==
    ASSUME HistoryInv, BatchInv', NEW r \in Requests, ReviewCard(r)
    PROVE  HistoryInv'
<1> DEFINE w   == Current(r).word
           log == [by |-> r, at |-> clock, again |-> Current(r).again]
           l   == Load(r, w)
           n   == [l.new EXCEPT ![w] = Reviewed(@, log)]
           p   == [l.pend EXCEPT ![w] = @ \cup {log}]
           t   == [l EXCEPT !.new = n, !.pend = p, !.dirty = {w}]
           s   == work[r]
<1>1. /\ TypeOK /\ s \in Session /\ work' \in [Requests -> Session]
      /\ clock \in Nat /\ clock >= 1 /\ clock' = clock + 1
      /\ Ready(r, "review") /\ Stamped(s, r, clock) /\ work \in [Requests -> Session]
  BY DEF HistoryInv, BatchInv, BlankInv, CardsInv, TypeOK, ReviewCard
<1>2. w \in Words
  BY <1>1, ItemType
<1>3. work' = [work EXCEPT ![r] = t]
  BY DEF ReviewCard
<1>4. t = work'[r] /\ t \in Session
  BY <1>1, <1>3
<1>5. l \in Session
  BY <1>1, <1>2, LoadType
<1>6. w = s.batch[s.next].word /\ log = [by |-> r, at |-> clock, again |-> s.batch[s.next].again]
  BY DEF Current
<1> HIDE DEF w, log
<1>7. l.batch = s.batch /\ l.next = s.next + 1 /\ l.pend = s.pend
  BY <1>1, <1>2, LoadFacts
<1> HIDE DEF l
<1>8. t.batch = s.batch /\ t.next = s.next + 1 /\ t.pend = p
  BY <1>5, <1>7 DEF Session
<1>9. p = [s.pend EXCEPT ![w] = s.pend[w] \cup {log}]
  BY <1>7
<1> HIDE DEF n, p, t, s
<1>10. s.batch \in Seq(Item) /\ s.next \in 1..Len(s.batch) /\ s.pend \in [Words -> SUBSET Log]
  BY <1>1 DEF Session, Ready, s
<1>11. PICK stamp : StampedBy(stamp, s, r, clock)
  BY <1>1 DEF Stamped, Reviewing, Ready, s
<1>12. PICK later :
        /\ Ascends(later, (s.next - 1) + 1, clock + 1)
        /\ RowAdded(s.batch, stamp, later, s.next - 1, clock, r)
  <2>1. s.next - 1 \in Nat /\ (s.next - 1) + 1 \in 1..Len(s.batch) /\ clock \in Nat \ {0}
    BY <1>1, <1>10
  <2>2. Ascends(stamp, s.next - 1, clock)
    BY <1>11 DEF StampedBy
  <2> QED
    BY <1>10, <2>1, <2>2, OneMoreRow
<1>13. (s.next - 1) + 1 = s.next /\ t.next - 1 = s.next
  BY <1>8, <1>10
<1>14. ASSUME NEW v \in Words
       PROVE  t.pend[v] = RowsUpTo(t.batch, later, t.next - 1, r, v)
  <2>1. s.pend[v] = RowsUpTo(s.batch, stamp, s.next - 1, r, v)
    BY <1>11 DEF StampedBy
  <2>2. RowsUpTo(t.batch, later, t.next - 1, r, v) =
          s.pend[v] \cup (IF w = v THEN {log} ELSE {})
    BY <1>6, <1>8, <1>12, <1>13, <2>1 DEF RowAdded
  <2>3. t.pend[v] = s.pend[v] \cup (IF w = v THEN {log} ELSE {})
    BY <1>2, <1>8, <1>9, <1>10
  <2> QED
    BY <2>2, <2>3
<1>15. StampedBy(later, t, r, clock')
  <2>1. Ascends(later, t.next - 1, clock')
    BY <1>1, <1>12, <1>13
  <2> QED
    BY <1>14, <2>1 DEF StampedBy
<1> QED
  BY <1>1, <1>3, <1>4, <1>15, StampedStep DEF Stamped

LEMMA StampedOthers ==
    ASSUME HistoryInv, BatchInv', NEW r \in Requests,
           InitCard(r) \/ RescheduleCard(r)
    PROVE  HistoryInv'
<1>1. /\ work \in [Requests -> Session] /\ work' \in [Requests -> Session]
      /\ work[r] \in Session /\ clock' = clock /\ TypeOK
  BY DEF HistoryInv, BatchInv, BlankInv, CardsInv, TypeOK, InitCard, RescheduleCard
<1>2. work[r].kind \in {"init", "reschedule"}
  BY DEF InitCard, RescheduleCard, Ready
<1>3. PICK s : work' = [work EXCEPT ![r] = s]
  BY DEF InitCard, RescheduleCard
<1>4. s = work'[r] /\ s \in Session
  BY <1>1, <1>3
<1>5. s.kind = work[r].kind
  <2>1. CASE InitCard(r)
    <3> DEFINE w == Current(r).word
               l == Load(r, w)
               n == [l.new EXCEPT ![w] = BlankRow]
    <3>1. w \in Words
      BY <1>1, <2>1, ItemType DEF InitCard
    <3>2. s = [l EXCEPT !.new = n, !.dirty = {w}] \/ s = l
      BY <1>1, <1>4, <2>1 DEF InitCard
    <3> HIDE DEF w
    <3>3. l \in Session /\ l.kind = work[r].kind
      BY <1>1, <3>1, LoadType, LoadFacts
    <3> HIDE DEF l, n
    <3> QED
      BY <3>2, <3>3 DEF Session
  <2>2. CASE RescheduleCard(r)
    <3> DEFINE w == Current(r).word
               l == [work[r] EXCEPT !.next = @ + 1]
               n == [l.new EXCEPT ![w] = Replayed(logs[w])]
    <3>1. s = [l EXCEPT !.new = n, !.dirty = {w}] \/ s = l
      BY <1>1, <1>4, <2>2 DEF RescheduleCard
    <3> HIDE DEF w, n
    <3> QED
      BY <1>1, <3>1 DEF Session
  <2> QED
    BY <2>1, <2>2
<1>6. ~Reviewing(s)
  BY <1>2, <1>5 DEF Reviewing
<1> QED
  BY <1>1, <1>3, <1>4, <1>6, SameStamped

LEMMA StampedEnded ==
    ASSUME HistoryInv, BatchInv', NEW r \in Requests, NEW pc \in {"committed", "failed"},
           work' = [work EXCEPT ![r] = [Closed EXCEPT !.pc = pc, !.kind = work[r].kind,
                                                      !.batch = work[r].batch]],
           clock' = clock
    PROVE  HistoryInv'
<1> DEFINE t == [Closed EXCEPT !.pc = pc, !.kind = work[r].kind, !.batch = work[r].batch]
<1>1. work[r] \in Session
  BY DEF HistoryInv, BatchInv, BlankInv, CardsInv, TypeOK
<1>2. t \in Session /\ t.pc = pc
  BY <1>1, ClosedIsSession DEF Session, PCs
<1>3. work' = [work EXCEPT ![r] = t]
  OBVIOUS
<1> HIDE DEF t
<1> QED
  BY <1>2, <1>3, SameStamped DEF Reviewing

LEMMA StampedFlush ==
    ASSUME HistoryInv, BatchInv', NEW r \in Requests, Flush(r)
    PROVE  HistoryInv'
<1>1. /\ work[r] \in Session /\ work' \in [Requests -> Session] /\ clock' = clock
      /\ work \in [Requests -> Session]
  BY DEF HistoryInv, BatchInv, BlankInv, CardsInv, TypeOK, Flush
<1>2. PICK w \in work[r].dirty :
        \/ work' = [work EXCEPT ![r] = Rollback(r)]
        \/ work' = [work EXCEPT ![r] =
                      [work[r] EXCEPT !.dirty = {}, !.held = @ \cup {w}]]
  BY DEF Flush
<1>3. CASE work' = [work EXCEPT ![r] = Rollback(r)]
  BY <1>1, <1>3, StampedEnded DEF Rollback
<1>4. CASE work' = [work EXCEPT ![r] =
                      [work[r] EXCEPT !.dirty = {}, !.held = @ \cup {w}]]
  <2> DEFINE s == [work[r] EXCEPT !.dirty = {}, !.held = @ \cup {w}]
  <2>1. s = work'[r] /\ s \in Session
    BY <1>1, <1>4
  <2>2. /\ s.pc = work[r].pc /\ s.kind = work[r].kind /\ s.pend = work[r].pend
        /\ s.batch = work[r].batch /\ s.next = work[r].next
    BY <1>1 DEF Session
  <2> HIDE DEF s
  <2> QED
    BY <1>1, <1>4, <2>1, <2>2, SameStamped DEF s, Reviewing
<1> QED
  BY <1>2, <1>3, <1>4

LEMMA HistoryInit == Init => HistoryInv
<1> SUFFICES ASSUME Init PROVE HistoryInv
  OBVIOUS
<1>1. \A r \in Requests : work[r].next = 1 /\ \A w \in Words : work[r].pend[w] = {}
  BY DEF Init, Closed
<1>2. \A r \in Requests : Stamped(work[r], r, clock)
  BY <1>1, NothingStamped
<1>3. clock >= 1
  BY DEF Init
<1> QED
  BY <1>2, <1>3, BatchInit DEF HistoryInv

LEMMA HistoryNext == HistoryInv /\ [Next]_vars => HistoryInv'
<1> SUFFICES ASSUME HistoryInv, [Next]_vars PROVE HistoryInv'
  OBVIOUS
<1>1. BatchInv'
  BY BatchNext DEF HistoryInv
<1>2. CASE UNCHANGED vars
  <2>1. work' = work /\ clock' = clock
    BY <1>2 DEF vars
  <2> QED
    BY <1>1, <2>1 DEF HistoryInv, Stamped, Reviewing, StampedBy
<1>3. CASE Next
  <2> PICK r \in Requests : Arrive(r) \/ Serve(r) \/ Abort(r) \/ LoseAnswer(r)
    BY <1>3 DEF Next
  <2>1. CASE DeadlockVictim(r) \/ Abort(r)
    BY <1>1, <2>1, StampedEnded DEF DeadlockVictim, Abort, Rollback
  <2>2. CASE Commit(r)
    BY <1>1, <2>2, StampedEnded DEF Commit
  <2>3. CASE Answer(r) \/ LoseAnswer(r)
    <3>1. TypeOK
      BY DEF HistoryInv, BatchInv, BlankInv, CardsInv
    <3>2. PICK t \in Session : work' = [work EXCEPT ![r] = t] /\ Answered(work[r], t)
      BY <2>3, <3>1, AnswerOf
    <3>3. clock' = clock /\ ~Reviewing(t)
      BY <2>3, <3>1, <3>2, AnswerOf DEF Answered, Reviewing
    <3> QED
      BY <1>1, <3>2, <3>3, SameStamped
  <2> QED
    BY <1>1, <2>1, <2>2, <2>3, StampedArrive, StampedReview, StampedOthers, StampedFlush DEF Serve
<1> QED
  BY <1>2, <1>3

(***************************************************************************)
(* The mapping.  Arriving, committing, being answered and failing are       *)
(* steps of the history, a review stamps the clock, and all else stutters. *)
(***************************************************************************)

Body(s) == IF s.kind = "review" THEN s.batch ELSE << >>

LEMMA AskedChanges ==
    ASSUME work \in [Requests -> Session], NEW r \in Requests, NEW s \in Session,
           work' = [work EXCEPT ![r] = s]
    PROVE  Asked' = [Asked EXCEPT ![r] = [pc |-> s.pc, body |-> Body(s)]]
<1>1. work'[r] = s /\ \A q \in Requests \ {r} : work'[q] = work[q]
  BY SessionUpdate
<1>2. Asked' = [q \in Requests |-> [pc |-> work'[q].pc, body |-> Body(work'[q])]]
  BY DEF Asked, Body
<1>3. Asked = [q \in Requests |-> [pc |-> work[q].pc, body |-> Body(work[q])]]
  BY DEF Asked, Body
<1> HIDE DEF Asked
<1> QED
  BY <1>1, <1>2, <1>3

LEMMA AskedIs ==
    ASSUME NEW r \in Requests
    PROVE  /\ Asked[r] = [pc |-> work[r].pc, body |-> Body(work[r])]
           /\ Asked[r].pc = work[r].pc /\ Asked[r].body = Body(work[r])
BY DEF Asked, Body

\* A step that changes neither the place of a request nor its body.
LEMMA AskedSame ==
    ASSUME work \in [Requests -> Session], NEW r \in Requests, NEW s \in Session,
           work' = [work EXCEPT ![r] = s], s.pc = work[r].pc, Body(s) = Body(work[r])
    PROVE  Asked' = Asked
<1>1. Asked' = [Asked EXCEPT ![r] = Asked[r]]
  <2>1. Asked[r] = [pc |-> s.pc, body |-> Body(s)]
    BY AskedIs
  <2>2. Asked' = [Asked EXCEPT ![r] = [pc |-> s.pc, body |-> Body(s)]]
    BY AskedChanges
  <2> QED
    BY <2>1, <2>2
<1>2. Asked \in [Requests -> {Asked[q] : q \in Requests}]
  BY DEF Asked
<1> QED
  BY <1>1, <1>2

\* A request ends: it keeps its body.
LEMMA AskedEnded ==
    ASSUME work \in [Requests -> Session], NEW r \in Requests, work[r].pc = "run",
           NEW pc \in {"committed", "failed"},
           work' = [work EXCEPT ![r] = [Closed EXCEPT !.pc = pc, !.kind = work[r].kind,
                                                      !.batch = work[r].batch]]
    PROVE  Asked[r].pc = "run" /\ Asked' = [Asked EXCEPT ![r].pc = pc]
<1> DEFINE t == [Closed EXCEPT !.pc = pc, !.kind = work[r].kind, !.batch = work[r].batch]
<1>1. work[r] \in Session
  OBVIOUS
<1>2. t \in Session /\ t.pc = pc /\ t.kind = work[r].kind /\ t.batch = work[r].batch
  BY <1>1, ClosedIsSession DEF Session, PCs, Closed
<1>3. work' = [work EXCEPT ![r] = t]
  OBVIOUS
<1> HIDE DEF t
<1>4. Asked' = [Asked EXCEPT ![r] = [pc |-> pc, body |-> Body(work[r])]]
  <2>1. Body(t) = Body(work[r])
    BY <1>2 DEF Body
  <2>2. Asked' = [Asked EXCEPT ![r] = [pc |-> t.pc, body |-> Body(t)]]
    BY <1>2, <1>3, AskedChanges
  <2> QED
    BY <1>2, <2>1, <2>2
<1>5. Asked[r] = [pc |-> work[r].pc, body |-> Body(work[r])]
  BY AskedIs
<1>6. [Asked[r] EXCEPT !.pc = pc] = [pc |-> pc, body |-> Body(work[r])]
  BY <1>5
<1>7. [Asked EXCEPT ![r].pc = pc] = [Asked EXCEPT ![r] = [Asked[r] EXCEPT !.pc = pc]]
  OBVIOUS
<1>8. Asked[r].pc = "run"
  BY AskedIs
<1>9. Asked' = [Asked EXCEPT ![r].pc = pc]
  BY <1>4, <1>6, <1>7
<1> QED
  BY <1>8, <1>9

LEMMA CommitEnters ==
    ASSUME HistoryInv, NEW r \in Requests, Commit(r)
    PROVE  History!Enter(r)
<1> DEFINE s == work[r]
<1>1. /\ work \in [Requests -> Session] /\ s \in Session /\ s.pc = "run" /\ AtCommit(r)
      /\ Counted(s, r) /\ Stamped(s, r, clock)
      /\ logs' = [w \in Words |-> logs[w] \cup s.pend[w]] /\ clock' = clock
  BY DEF HistoryInv, BatchInv, BlankInv, CardsInv, TypeOK, Commit, LogsAfter
<1>2. Asked[r].pc = "run" /\ Asked' = [Asked EXCEPT ![r].pc = "committed"]
  BY <1>1, AskedEnded DEF Commit
<1>3. Asked[r].body = Body(s)
  BY AskedIs
<1>4. ASSUME NEW stamp, Ascends(stamp, Len(Body(s)), clock),
             \A w \in Words : s.pend[w] = RowsUpTo(Body(s), stamp, Len(Body(s)), r, w)
      PROVE  History!Enter(r)
  <2>1. \A w \in Words : History!Rows(r, stamp, w) = s.pend[w]
    BY <1>3, <1>4 DEF History!Rows, RowsUpTo
  <2>2. logs' = [w \in Words |-> logs[w] \cup History!Rows(r, stamp, w)]
    BY <1>1, <2>1
  <2>3. stamp \in [1..Len(Asked[r].body) -> 1..(clock - 1)]
    BY <1>3, <1>4 DEF Ascends
  <2>4. \A i, j \in DOMAIN stamp : i < j => stamp[i] < stamp[j]
    BY <1>4 DEF Ascends
  <2> QED
    BY <1>1, <1>2, <2>2, <2>3, <2>4 DEF History!Enter
<1>5. CASE s.kind = "review"
  <2>1. Body(s) = s.batch
    BY <1>5 DEF Body
  <2>2. s.next - 1 = Len(s.batch)
    <3>1. Len(s.batch) \in Nat /\ s.next \in 1..(Len(s.batch) + 1) /\ s.next \notin 1..Len(s.batch)
      BY <1>1, <1>5 DEF Counted, AtCommit, Session
    <3> QED
      BY <3>1
  <2>3. PICK stamp : StampedBy(stamp, s, r, clock)
    BY <1>1, <1>5 DEF Stamped, Reviewing
  <2> HIDE DEF s
  <2> QED
    BY <1>4, <2>1, <2>2, <2>3 DEF StampedBy
<1>6. CASE s.kind # "review"
  <2>1. Body(s) = << >> /\ Len(<< >>) = 0 /\ 1..0 = {}
    BY <1>6 DEF Body
  <2>2. \A w \in Words : s.pend[w] = {}
    BY <1>1, <1>6 DEF Counted, Pending
  <2>3. PICK stamp : stamp = [i \in 1..0 |-> 1]
    OBVIOUS
  <2>4. Ascends(stamp, 0, clock)
    BY <2>1, <2>3 DEF Ascends
  <2>5. \A w \in Words : RowsUpTo(Body(s), stamp, 0, r, w) = {}
    BY <2>1 DEF RowsUpTo
  <2> HIDE DEF s
  <2> QED
    BY <1>4, <2>1, <2>2, <2>4, <2>5
<1> QED
  BY <1>5, <1>6

LEMMA AnswerAnswers ==
    ASSUME HistoryInv, NEW r \in Requests, Answer(r) \/ LoseAnswer(r)
    PROVE  History!Answer(r) \/ History!Fail(r)
<1>1. TypeOK /\ work \in [Requests -> Session]
  BY DEF HistoryInv, BatchInv, BlankInv, CardsInv, TypeOK
<1>2. logs' = logs /\ clock' = clock
  BY <1>1, AnswerOf
<1>3. PICK t \in Session : work' = [work EXCEPT ![r] = t] /\ Answered(work[r], t)
  BY <1>1, AnswerOf
<1>4. Body(t) = Body(work[r]) /\ t.pc \in {"done", "failed"} /\ work[r].pc = "committed"
  BY <1>3 DEF Body, Answered
<1>5. Asked' = [Asked EXCEPT ![r] = [pc |-> t.pc, body |-> Body(work[r])]]
  <2>1. Asked' = [Asked EXCEPT ![r] = [pc |-> t.pc, body |-> Body(t)]]
    BY <1>1, <1>3, AskedChanges
  <2> QED
    BY <1>4, <2>1
<1>6. Asked[r] = [pc |-> "committed", body |-> Body(work[r])] /\ Asked[r].pc = "committed"
  BY <1>4, AskedIs
<1>7. \A pc : [Asked[r] EXCEPT !.pc = pc] = [pc |-> pc, body |-> Body(work[r])]
  BY <1>6
<1>8. Asked' = [Asked EXCEPT ![r].pc = t.pc]
  BY <1>5, <1>7
<1>9. CASE t.pc = "done"
  BY <1>2, <1>6, <1>8, <1>9 DEF History!Answer
<1>10. CASE t.pc = "failed"
  BY <1>2, <1>6, <1>8, <1>10 DEF History!Fail
<1> QED
  BY <1>4, <1>9, <1>10

LEMMA ArriveAsks ==
    ASSUME HistoryInv, HistoryInv', NEW r \in Requests, Arrive(r)
    PROVE  History!Ask(r)
<1>1. /\ work \in [Requests -> Session] /\ work' \in [Requests -> Session]
      /\ work[r] \in Session /\ work[r].pc = "idle" /\ UNCHANGED <<logs, clock>>
  BY DEF HistoryInv, BatchInv, BlankInv, CardsInv, TypeOK, Arrive,
     BeginBulkReview, BeginInitCards, BeginReschedule
<1>2. ASSUME NEW s, work' = [work EXCEPT ![r] = s], s.pc = "run",
             Body(s) \in Batches \cup {<< >>}
      PROVE  History!Ask(r)
  <2>1. s = work'[r] /\ s \in Session
    BY <1>1, <1>2
  <2>2. Asked' = [Asked EXCEPT ![r] = [pc |-> "run", body |-> Body(s)]]
    BY <1>1, <1>2, <2>1, AskedChanges
  <2>3. Asked[r].pc = "idle"
    BY <1>1, AskedIs
  <2> QED
    BY <1>1, <1>2, <2>2, <2>3 DEF History!Ask
<1>3. ASSUME NEW kind, NEW b
      PROVE  /\ Begin(r, kind, b).pc = "run" /\ Begin(r, kind, b).kind = kind
             /\ Begin(r, kind, b).batch = b
  BY <1>1 DEF Begin, Session
<1>4. CASE BeginBulkReview(r)
  <2>1. PICK b \in Batches : work' = [work EXCEPT ![r] = Begin(r, "review", b)]
    BY <1>4 DEF BeginBulkReview
  <2>2. Body(Begin(r, "review", b)) = b
    BY <1>3 DEF Body
  <2> QED
    BY <1>2, <1>3, <2>1, <2>2
<1>5. CASE BeginInitCards(r)
  <2>1. PICK b \in InitLists : work' = [work EXCEPT ![r] = Begin(r, "init", b)]
    BY <1>5 DEF BeginInitCards
  <2>2. Body(Begin(r, "init", b)) = << >>
    BY <1>3 DEF Body
  <2> QED
    BY <1>2, <1>3, <2>1, <2>2
<1>6. CASE BeginReschedule(r)
  <2> DEFINE b == Begin(r, "reschedule", AllWords)
             s == [b EXCEPT !.loaded = {w \in Words : card[w].exists},
                            !.seen = card, !.new = card]
  <2>1. b.pc = "run" /\ b.kind = "reschedule"
    BY <1>3
  <2>2. work' = [work EXCEPT ![r] = s]
    BY <1>6 DEF BeginReschedule
  <2>3. b = [work[r] EXCEPT !.pc = "run", !.kind = "reschedule", !.batch = AllWords]
    BY DEF Begin
  <2> HIDE DEF b
  <2>4. s.pc = "run" /\ s.kind = "reschedule"
    BY <1>1, <2>1, <2>3 DEF Session
  <2> HIDE DEF s
  <2>5. Body(s) = << >>
    BY <2>4 DEF Body
  <2> QED
    BY <1>2, <2>2, <2>4, <2>5
<1> QED
  BY <1>4, <1>5, <1>6 DEF Arrive

LEMMA RollbackFails ==
    ASSUME HistoryInv, NEW r \in Requests, work[r].pc = "run",
           work' = [work EXCEPT ![r] = Rollback(r)], UNCHANGED <<logs, clock>>
    PROVE  History!Fail(r)
<1>1. work \in [Requests -> Session]
  BY DEF HistoryInv, BatchInv, BlankInv, CardsInv, TypeOK
<1>2. work' = [work EXCEPT ![r] = [Closed EXCEPT !.pc = "failed", !.kind = work[r].kind,
                                                 !.batch = work[r].batch]]
  BY DEF Rollback
<1>3. Asked[r].pc = "run" /\ Asked' = [Asked EXCEPT ![r].pc = "failed"]
  BY <1>1, <1>2, AskedEnded
<1> QED
  BY <1>3 DEF History!Fail

\* Only a running request can be in a cycle of waiting ones: no other is dirty.
LEMMA VictimRuns ==
    ASSUME HistoryInv, NEW r \in Requests, InCycle(r)
    PROVE  work[r].pc = "run"
<1>1. work[r].dirty # {}
  BY DEF InCycle, BlockedBy
<1>2. Blank(work[r])
  BY DEF HistoryInv, BatchInv, BlankInv
<1> QED
  BY <1>1, <1>2 DEF Blank

LEMMA ReviewStamps ==
    ASSUME HistoryInv, HistoryInv', NEW r \in Requests, ReviewCard(r)
    PROVE  History!Stamp
<1>1. /\ work \in [Requests -> Session] /\ work' \in [Requests -> Session]
      /\ work[r] \in Session /\ clock' = clock + 1 /\ logs' = logs /\ TypeOK
      /\ Ready(r, "review")
  BY DEF HistoryInv, BatchInv, BlankInv, CardsInv, TypeOK, ReviewCard
<1> DEFINE w   == Current(r).word
           log == [by |-> r, at |-> clock, again |-> Current(r).again]
           l   == Load(r, w)
           n   == [l.new EXCEPT ![w] = Reviewed(@, log)]
           p   == [l.pend EXCEPT ![w] = @ \cup {log}]
           t   == [l EXCEPT !.new = n, !.pend = p, !.dirty = {w}]
<1>2. w \in Words
  BY <1>1, ItemType
<1>3. work' = [work EXCEPT ![r] = t]
  BY DEF ReviewCard
<1>4. t = work'[r] /\ t \in Session
  BY <1>1, <1>3
<1> HIDE DEF w
<1>5. l \in Session /\ l.pc = work[r].pc /\ l.kind = work[r].kind /\ l.batch = work[r].batch
  BY <1>1, <1>2, LoadType, LoadFacts
<1> HIDE DEF l, n, p, log
<1>6. t.pc = work[r].pc /\ t.kind = work[r].kind /\ t.batch = work[r].batch
  BY <1>5 DEF Session
<1> HIDE DEF t
<1>7. Body(t) = Body(work[r])
  BY <1>6 DEF Body
<1>8. Asked' = Asked
  BY <1>1, <1>3, <1>4, <1>6, <1>7, AskedSame
<1> QED
  BY <1>1, <1>8 DEF History!Stamp

LEMMA OthersStutter ==
    ASSUME HistoryInv, HistoryInv', NEW r \in Requests, InitCard(r) \/ RescheduleCard(r)
    PROVE  UNCHANGED <<logs, clock, Asked>>
<1>1. /\ work \in [Requests -> Session] /\ work' \in [Requests -> Session]
      /\ work[r] \in Session /\ clock' = clock /\ logs' = logs /\ TypeOK
  BY DEF HistoryInv, BatchInv, BlankInv, CardsInv, TypeOK, InitCard, RescheduleCard
<1>2. PICK s : work' = [work EXCEPT ![r] = s]
  BY DEF InitCard, RescheduleCard
<1>3. s = work'[r] /\ s \in Session
  BY <1>1, <1>2
<1>4. s.pc = work[r].pc /\ s.kind = work[r].kind /\ s.batch = work[r].batch
  <2>1. CASE InitCard(r)
    <3> DEFINE w == Current(r).word
               l == Load(r, w)
               n == [l.new EXCEPT ![w] = BlankRow]
    <3>1. w \in Words
      BY <1>1, <2>1, ItemType DEF InitCard
    <3>2. s = [l EXCEPT !.new = n, !.dirty = {w}] \/ s = l
      BY <1>1, <1>3, <2>1 DEF InitCard
    <3> HIDE DEF w
    <3>3. l \in Session /\ l.pc = work[r].pc /\ l.kind = work[r].kind /\ l.batch = work[r].batch
      BY <1>1, <3>1, LoadType, LoadFacts
    <3> HIDE DEF l, n
    <3> QED
      BY <3>2, <3>3 DEF Session
  <2>2. CASE RescheduleCard(r)
    <3> DEFINE w == Current(r).word
               l == [work[r] EXCEPT !.next = @ + 1]
               n == [l.new EXCEPT ![w] = Replayed(logs[w])]
    <3>1. s = [l EXCEPT !.new = n, !.dirty = {w}] \/ s = l
      BY <1>1, <1>3, <2>2 DEF RescheduleCard
    <3> HIDE DEF w, n
    <3> QED
      BY <1>1, <3>1 DEF Session
  <2> QED
    BY <2>1, <2>2
<1>5. Body(s) = Body(work[r])
  BY <1>4 DEF Body
<1>6. Asked' = Asked
  BY <1>1, <1>2, <1>3, <1>4, <1>5, AskedSame
<1> QED
  BY <1>1, <1>6

LEMMA FlushStutters ==
    ASSUME HistoryInv, HistoryInv', NEW r \in Requests, Flush(r)
    PROVE  History!Fail(r) \/ UNCHANGED <<logs, clock, Asked>>
<1>1. /\ work \in [Requests -> Session] /\ work' \in [Requests -> Session]
      /\ work[r] \in Session /\ work[r].pc = "run" /\ clock' = clock /\ logs' = logs
  BY DEF HistoryInv, BatchInv, BlankInv, CardsInv, TypeOK, Flush
<1>2. PICK w \in work[r].dirty :
        \/ work' = [work EXCEPT ![r] = Rollback(r)]
        \/ work' = [work EXCEPT ![r] =
                      [work[r] EXCEPT !.dirty = {}, !.held = @ \cup {w}]]
  BY DEF Flush
<1>3. CASE work' = [work EXCEPT ![r] = Rollback(r)]
  BY <1>1, <1>3, RollbackFails
<1>4. CASE work' = [work EXCEPT ![r] =
                      [work[r] EXCEPT !.dirty = {}, !.held = @ \cup {w}]]
  <2> DEFINE s == [work[r] EXCEPT !.dirty = {}, !.held = @ \cup {w}]
  <2>1. s = work'[r] /\ s \in Session /\ work' = [work EXCEPT ![r] = s]
    BY <1>1, <1>4
  <2>2. s.pc = work[r].pc /\ s.kind = work[r].kind /\ s.batch = work[r].batch
    BY <1>1 DEF Session
  <2> HIDE DEF s
  <2>3. Body(s) = Body(work[r])
    BY <2>2 DEF Body
  <2>4. Asked' = Asked
    BY <1>1, <2>1, <2>2, <2>3, AskedSame
  <2> QED
    BY <1>1, <2>4
<1> QED
  BY <1>2, <1>3, <1>4

LEMMA HistoryStep ==
    HistoryInv /\ HistoryInv' /\ [Next]_vars => [History!Next]_(History!vars)
<1> SUFFICES ASSUME HistoryInv, HistoryInv', [Next]_vars
             PROVE  [History!Next]_(History!vars)
  OBVIOUS
<1>1. CASE UNCHANGED vars
  BY <1>1 DEF vars, Asked, History!vars
<1>2. CASE Next
  <2> PICK r \in Requests : Arrive(r) \/ Serve(r) \/ Abort(r) \/ LoseAnswer(r)
    BY <1>2 DEF Next
  <2>1. CASE Arrive(r)
    BY <2>1, ArriveAsks DEF History!Next
  <2>2. CASE ReviewCard(r)
    BY <2>2, ReviewStamps DEF History!Next
  <2>3. CASE InitCard(r) \/ RescheduleCard(r)
    BY <2>3, OthersStutter DEF History!vars
  <2>4. CASE Flush(r)
    BY <2>4, FlushStutters DEF History!Next, History!vars
  <2>5. CASE Commit(r)
    BY <2>5, CommitEnters DEF History!Next
  <2>6. CASE DeadlockVictim(r)
    <3>1. work[r].pc = "run"
      BY <2>6, VictimRuns DEF DeadlockVictim
    <3>2. History!Fail(r)
      BY <2>6, <3>1, RollbackFails DEF DeadlockVictim
    <3> QED
      BY <3>2 DEF History!Next
  <2>7. CASE Abort(r)
    <3>1. History!Fail(r)
      BY <2>7, RollbackFails DEF Abort
    <3> QED
      BY <3>1 DEF History!Next
  <2>8. CASE Answer(r) \/ LoseAnswer(r)
    BY <2>8, AnswerAnswers DEF History!Next
  <2> QED
    BY <2>1, <2>2, <2>3, <2>4, <2>5, <2>6, <2>7, <2>8 DEF Serve
<1> QED
  BY <1>1, <1>2

LEMMA HistoryInitMapped == Init => History!Init
<1> SUFFICES ASSUME Init PROVE History!Init
  OBVIOUS
<1>1. \A r \in Requests : work[r] = Closed
  BY DEF Init
<1>2. Closed.pc = "idle" /\ Closed.kind = "review" /\ Closed.batch = << >>
  BY DEF Closed
<1>3. Asked = [r \in Requests |-> [pc |-> "idle", body |-> << >>]]
  BY <1>1, <1>2 DEF Asked
<1> QED
  BY <1>3 DEF Init, History!Init

\* Bulk reviews are atomic in the log: the service implements the history of
\* ReviewHistory.  A batch enters it whole, in the order of the body, and before
\* it is answered; one that is open or was rolled back (a conflict, a deadlock,
\* an error, a restart) is not in it, and one whose answer got lost is.
THEOREM HistoryImplemented == Spec => ImplementsHistory
<1>1. Init /\ [][Next]_vars => []HistoryInv
  BY HistoryInit, HistoryNext, PTL
<1>2. Init /\ [][Next]_vars => [][History!Next]_(History!vars)
  BY <1>1, HistoryStep, PTL
<1> QED
  BY <1>2, HistoryInitMapped, PTL DEF Spec, ImplementsHistory, History!Spec
=============================================================================
