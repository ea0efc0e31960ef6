------------------------ MODULE ModelVersionsProofs ------------------------
(* What holds of the model versions of a user for every number of requests, *)
(* every policy and every bound.                                           *)
EXTENDS ModelVersions, FiniteSetTheorems, TLAPS

(***************************************************************************)
(* The inductive invariant.  Dense numbering survives a stale maximum       *)
(* because a number taken from it is either still the next one or already   *)
(* taken: a request never holds a number above the next one (Ahead).  The   *)
(* weights and versions that sessions carry were accepted (Carried), since  *)
(* rows are never deleted.                                                  *)
(***************************************************************************)

FromAccepted(conf) ==
    /\ conf.version # 0 => conf.version \in {v.version : v \in Accepted}
    /\ conf.weights # 0 => conf.weights \in {v.weights : v \in Accepted}

Ahead(s) == s.number <= Cardinality(rows) + 1

Carried(s) == FromAccepted(s.conf) /\ FromAccepted(s.new)

VersionsInv ==
    /\ TypeOK
    /\ IsFiniteSet(rows)
    /\ VersionsDense
    /\ CurrentWasAccepted
    /\ \A r \in Requests :
         /\ Ahead(req[r])
         /\ Carried(req[r])
         /\ req[r].pc = "numbered" => req[r].number # 0

LEMMA ConfigTypes == NoConfig \in Config /\ DefaultConfig \in Config
BY DEF NoConfig, DefaultConfig, Config

LEMMA ClosedType == Closed \in Request
BY ConfigTypes DEF Closed, Request, PCs, Open, Answered

LEMMA MaxOfInterval ==
    ASSUME NEW n \in Nat, n # 0
    PROVE  Max(1..n) = n
<1>1. n \in 1..n /\ \A y \in 1..n : n >= y
  OBVIOUS
<1>2. \A x \in 1..n : (\A y \in 1..n : x >= y) => x = n
  BY <1>1
<1> QED
  BY <1>1, <1>2 DEF Max

\* With dense numbers the last version is the number of rows.
LEMMA LastIsCount ==
    ASSUME IsFiniteSet(rows), VersionsDense
    PROVE  LastVersion = Cardinality(rows) /\ Cardinality(rows) \in Nat
<1>1. Cardinality(rows) \in Nat
  BY FS_CardinalityType
<1>2. CASE rows = {}
  BY <1>2, FS_EmptySet DEF LastVersion
<1>3. CASE rows # {}
  <2>1. Cardinality(rows) # 0
    BY <1>3, FS_EmptySet
  <2>2. Max(Numbers) = Cardinality(rows)
    BY <1>1, <2>1, MaxOfInterval DEF VersionsDense
  <2> QED
    BY <1>1, <1>3, <2>2 DEF LastVersion
<1> QED
  BY <1>1, <1>2, <1>3

LEMMA VersionsInit == Init => VersionsInv
<1> SUFFICES ASSUME Init PROVE VersionsInv
  OBVIOUS
<1>1. TypeOK
  BY ConfigTypes, ClosedType DEF Init, TypeOK
<1>2. IsFiniteSet(rows) /\ Cardinality(rows) = 0
  BY FS_EmptySet DEF Init
<1>3. VersionsDense
  BY <1>2 DEF Init, VersionsDense, Numbers
<1>4. FromAccepted(NoConfig)
  BY DEF FromAccepted, NoConfig
<1>5. CurrentWasAccepted
  BY DEF Init, CurrentWasAccepted, NoConfig
<1>6. ASSUME NEW r \in Requests
      PROVE  Ahead(req[r]) /\ Carried(req[r]) /\ req[r].pc # "numbered"
  <2>1. req[r] = Closed
    BY DEF Init
  <2> QED
    BY <1>2, <1>4, <2>1 DEF Ahead, Carried, Closed
<1> QED
  BY <1>1, <1>2, <1>3, <1>5, <1>6 DEF VersionsInv

\* A step that changes one session and commits nothing; the cards may be
\* rescheduled in it.
Becomes(r, s) ==
    /\ req' = [req EXCEPT ![r] = s]
    /\ applied' \in {applied, cfg.weights}
    /\ UNCHANGED <<cfg, rows, nlogs, day, mixed>>

LEMMA SessionBecomes ==
    ASSUME VersionsInv, NEW r \in Requests, NEW s \in Request, Becomes(r, s),
           Ahead(s), Carried(s), s.pc = "numbered" => s.number # 0
    PROVE  VersionsInv'
<1>1. /\ req' = [req EXCEPT ![r] = s] /\ req \in [Requests -> Request]
      /\ UNCHANGED <<cfg, rows, nlogs, day, mixed>>
  BY DEF Becomes, VersionsInv, TypeOK
<1>2. TypeOK'
  <2>1. applied' \in Nat
    BY DEF Becomes, VersionsInv, TypeOK, Config
  <2> QED
    BY <1>1, <2>1 DEF VersionsInv, TypeOK
<1>3. VersionsDense' /\ CurrentWasAccepted' /\ IsFiniteSet(rows)'
  BY <1>1 DEF VersionsInv, VersionsDense, Numbers, CurrentWasAccepted, Accepted
<1>4. ASSUME NEW q \in Requests
      PROVE  /\ Ahead(req[q])' /\ Carried(req[q])'
             /\ (req[q].pc = "numbered" => req[q].number # 0)'
  BY <1>1 DEF VersionsInv, Ahead, Carried, FromAccepted, Accepted
<1> QED
  BY <1>2, <1>3, <1>4 DEF VersionsInv

LEMMA SessionStep ==
    ASSUME VersionsInv, NEW r \in Requests, NEW s \in Request, Goto(r, s),
           Ahead(s), Carried(s), s.pc = "numbered" => s.number # 0
    PROVE  VersionsInv'
BY SessionBecomes DEF Goto, Becomes

LEMMA EndedType ==
    ASSUME VersionsInv, NEW r \in Requests, NEW pc \in PCs, pc # "numbered"
    PROVE  /\ Ended(pc) \in Request /\ Ahead(Ended(pc)) /\ Carried(Ended(pc))
           /\ Ended(pc).pc # "numbered"
<1>1. req[r] \in Request
  BY DEF VersionsInv, TypeOK
<1>2. /\ Ended(pc) \in Request
      /\ Ended(pc).number = 0 /\ Ended(pc).pc = pc
      /\ Ended(pc).conf = NoConfig /\ Ended(pc).new = NoConfig
  BY <1>1, ClosedType DEF Ended, Closed, Request
<1>3. Cardinality(rows) \in Nat
  BY FS_CardinalityType DEF VersionsInv
<1> QED
  BY <1>2, <1>3 DEF Ahead, Carried, FromAccepted, NoConfig

LEMMA EndStep ==
    ASSUME VersionsInv, NEW r \in Requests, NEW pc \in PCs, pc # "numbered",
           End(r, pc)
    PROVE  VersionsInv'
BY EndedType, SessionStep DEF End, Goto

\* The facts a step on request r starts from.
LEMMA Facts ==
    ASSUME VersionsInv, NEW r \in Requests
    PROVE  /\ req[r] \in Request /\ cfg \in Config /\ day \in Nat
           /\ rows \subseteq Version
           /\ FromAccepted(cfg) /\ Ahead(req[r]) /\ Carried(req[r])
           /\ LastVersion = Cardinality(rows) /\ LastVersion \in Nat
BY LastIsCount DEF VersionsInv, TypeOK, FromAccepted, CurrentWasAccepted

LEMMA LoadedFacts ==
    ASSUME VersionsInv, NEW s \in Request, NEW conf \in Config,
           Ahead(s), FromAccepted(conf), LastVersion \in Nat
    PROVE  /\ Loaded(s, conf) \in Request
           /\ Ahead(Loaded(s, conf)) /\ Carried(Loaded(s, conf))
           /\ Loaded(s, conf).pc # "numbered"
BY DEF Loaded, Request, PCs, Open, Ahead, Carried

LEMMA ArriveStep ==
    ASSUME VersionsInv, NEW r \in Requests, NEW kind \in {"optimize", "rollback"},
           NEW t \in Nat, Arrive(r, kind, t)
    PROVE  VersionsInv'
<1> DEFINE s == [Closed EXCEPT !.kind = kind, !.target = t]
           i == [s EXCEPT !.pc = "inserting"]
<1>1. /\ s \in Request /\ i \in Request /\ s.number = 0
      /\ i.number = 0 /\ i.conf = NoConfig /\ i.new = NoConfig /\ i.pc # "numbered"
  BY ClosedType DEF Closed, Request, PCs, Open
<1>2. Goto(r, IF cfg.exists THEN Loaded(s, cfg) ELSE i)
  BY DEF Arrive
<1> HIDE DEF s, i
<1>3. Cardinality(rows) \in Nat
  BY Facts
<1>4. Ahead(s) /\ Ahead(i)
  BY <1>1, <1>3 DEF Ahead
<1>5. Carried(i)
  BY <1>1 DEF Carried, FromAccepted, NoConfig
<1>6. CASE cfg.exists
  <2>1. Goto(r, Loaded(s, cfg))
    BY <1>2, <1>6
  <2> QED
    BY <1>1, <1>4, <2>1, Facts, LoadedFacts, SessionStep
<1>7. CASE ~cfg.exists
  <2>1. Goto(r, i)
    BY <1>2, <1>7
  <2> QED
    BY <1>1, <1>4, <1>5, <2>1, SessionStep
<1> QED
  BY <1>6, <1>7

LEMMA InsertStep ==
    ASSUME VersionsInv, NEW r \in Requests, InsertConfig(r)
    PROVE  VersionsInv'
<1> DEFINE l == Loaded(req[r], DefaultConfig)
           s == [l EXCEPT !.fresh = TRUE]
<1>1. CASE cfg.exists
  BY <1>1, EndStep DEF InsertConfig, PCs, Answered
<1>2. CASE ~cfg.exists
  <2>1. FromAccepted(DefaultConfig)
    BY DEF FromAccepted, DefaultConfig, NoConfig
  <2>2. l \in Request /\ Ahead(l) /\ Carried(l) /\ l.pc # "numbered"
    BY <2>1, Facts, LoadedFacts, ConfigTypes
  <2>3. Goto(r, s)
    BY <1>2 DEF InsertConfig
  <2> HIDE DEF l
  <2>4. s \in Request /\ Ahead(s) /\ Carried(s) /\ s.pc # "numbered"
    BY <2>2 DEF Request, Ahead, Carried
  <2> HIDE DEF s
  <2> QED
    BY <2>3, <2>4, SessionStep
<1> QED
  BY <1>1, <1>2

LEMMA TrainStep ==
    ASSUME VersionsInv, NEW r \in Requests, Train(r)
    PROVE  VersionsInv'
<1>1. PICK w \in Weights, ok \in BOOLEAN :
        Goto(r, [req[r] EXCEPT !.pc = "trained", !.accepted = ok, !.weights = w])
  BY DEF Train
<1> DEFINE s == [req[r] EXCEPT !.pc = "trained", !.accepted = ok, !.weights = w]
<1>2. w \in Nat
  BY VersionsAssumption
<1>3. s \in Request /\ Ahead(s) /\ Carried(s) /\ s.pc # "numbered"
  BY <1>2, Facts DEF Request, PCs, Open, Ahead, Carried
<1> HIDE DEF s
<1> QED
  BY <1>1, <1>3, SessionStep DEF s

LEMMA NumberStep ==
    ASSUME VersionsInv, NEW r \in Requests, NumberVersion(r) \/ FlushAndNumber(r)
    PROVE  VersionsInv'
<1>1. PICK b \in BOOLEAN :
        Goto(r, [req[r] EXCEPT !.pc = "numbered", !.writing = b,
                               !.number = NextModelVersion])
  <2>1. CASE FlushAndNumber(r)
    BY <2>1 DEF FlushAndNumber
  <2>2. CASE NumberVersion(r)
    <3>1. [req[r] EXCEPT !.pc = "numbered", !.number = NextModelVersion]
          = [req[r] EXCEPT !.pc = "numbered", !.writing = req[r].writing,
                           !.number = NextModelVersion]
      BY Facts DEF Request
    <3>2. req[r].writing \in BOOLEAN
      BY Facts DEF Request
    <3> QED
      BY <2>2, <3>1, <3>2 DEF NumberVersion
  <2> QED
    BY <2>1, <2>2
<1> DEFINE s == [req[r] EXCEPT !.pc = "numbered", !.writing = b,
                               !.number = NextModelVersion]
<1>2. /\ NextModelVersion = Cardinality(rows) + 1
      /\ NextModelVersion \in Nat /\ NextModelVersion # 0
  BY Facts DEF NextModelVersion
<1>3. s \in Request /\ s.number = NextModelVersion /\ Carried(s)
  BY <1>2, Facts DEF Request, PCs, Open, Carried
<1>4. Ahead(s)
  BY <1>2, <1>3 DEF Ahead
<1> HIDE DEF s
<1> QED
  BY <1>1, <1>2, <1>3, <1>4, SessionStep DEF s

LEMMA PickStep ==
    ASSUME VersionsInv, NEW r \in Requests, PickTarget(r)
    PROVE  VersionsInv'
<1>1. PICK v \in Eligible(req[r]) :
        Goto(r, [req[r] EXCEPT !.pc = "trained",
                               !.new = Restored(req[r].conf, v),
                               !.weights = v.weights])
  BY DEF PickTarget
<1> DEFINE n == Restored(req[r].conf, v)
           s == [req[r] EXCEPT !.pc = "trained", !.new = n, !.weights = v.weights]
<1>2. v \in Accepted /\ v.weights \in Nat /\ v.version \in Nat
  BY Facts DEF Eligible, Accepted, Version
<1>3. req[r].conf \in Config
  BY Facts DEF Request
<1>4. n \in Config /\ n.weights = v.weights /\ n.version = v.version
  BY <1>2, <1>3 DEF Restored, Config
<1>5. FromAccepted(n)
  BY <1>2, <1>4 DEF FromAccepted
<1> HIDE DEF n
<1>6. s \in Request /\ Ahead(s) /\ Carried(s) /\ s.pc # "numbered"
  BY <1>2, <1>4, <1>5, Facts DEF Request, PCs, Open, Ahead, Carried
<1> HIDE DEF s
<1> QED
  BY <1>1, <1>6, SessionStep DEF s, n

\* Rows are only ever added.
LEMMA StillAccepted ==
    ASSUME NEW conf, FromAccepted(conf), rows \subseteq rows'
    PROVE  /\ conf.version # 0 => conf.version \in {v.version : v \in Accepted'}
           /\ conf.weights # 0 => conf.weights \in {v.weights : v \in Accepted'}
<1>1. Accepted \subseteq Accepted'
  BY DEF Accepted
<1> QED
  BY <1>1 DEF FromAccepted

LEMMA SaveRowStep ==
    ASSUME VersionsInv, NEW r \in Requests, Save(r), ~Taken(req[r])
    PROVE  VersionsInv'
<1> DEFINE s == req[r]
           e == [Ended("saved") EXCEPT !.kind = s.kind, !.accepted = s.accepted]
           n == Cardinality(rows)
<1>1. /\ s.pc = "numbered" /\ rows' = rows \cup {Row(s)}
      /\ cfg' = IF WritesConfig(s) THEN Written(cfg, s.conf, Object(s)) ELSE cfg
      /\ mixed' = (mixed \/ (WritesConfig(s) /\ cfg.exists /\ cfg # s.conf))
      /\ req' = [req EXCEPT ![r] = e] /\ UNCHANGED <<nlogs, day, applied>>
  BY DEF Save
<1>2. /\ s \in Request /\ n \in Nat /\ cfg \in Config /\ day \in Nat
      /\ rows \subseteq Version /\ Ahead(s) /\ Carried(s) /\ FromAccepted(cfg)
  BY Facts
<1>3. Row(s) \in Version /\ Row(s).version = s.number /\ Row(s).weights = s.weights
  BY <1>2 DEF Row, Version, Request, Statuses
<1>4. s.number = n + 1
  <2>1. s.number \in Nat /\ s.number # 0
    BY <1>1, <1>2 DEF VersionsInv, Request
  <2>2. s.number \notin 1..n
    BY DEF Taken, VersionsInv, VersionsDense
  <2> QED
    BY <1>2, <2>1, <2>2 DEF Ahead
<1>5. Row(s) \notin rows
  BY <1>3 DEF Taken, Numbers
<1>6. IsFiniteSet(rows') /\ Cardinality(rows') = n + 1
  BY <1>1, <1>5, FS_AddElement DEF VersionsInv
<1>7. VersionsDense'
  <2>1. Numbers' = Numbers \cup {s.number}
    BY <1>1, <1>3 DEF Numbers
  <2>2. Numbers = 1..n
    BY DEF VersionsInv, VersionsDense
  <2>3. 1..(n + 1) = (1..n) \cup {n + 1}
    BY <1>2
  <2> QED
    BY <1>4, <1>6, <2>1, <2>2, <2>3 DEF VersionsDense
<1>8. Object(s) \in Config /\ cfg' \in Config
  BY <1>1, <1>2 DEF Object, Trained, Written, Request, Config
<1>9. /\ e \in Request /\ e.number = 0 /\ e.pc = "saved"
      /\ e.conf = NoConfig /\ e.new = NoConfig
  <2>1. /\ Ended("saved") \in Request /\ s.accepted \in BOOLEAN
        /\ s.kind \in {"optimize", "rollback"}
    BY <1>2, EndedType DEF PCs, Open, Request
  <2> QED
    BY <1>2, <2>1, ClosedType DEF Ended, Closed, Request
<1>10. TypeOK'
  BY <1>1, <1>2, <1>3, <1>8, <1>9 DEF VersionsInv, TypeOK
<1>11. ASSUME NEW o, o = Object(s)
       PROVE  /\ o.version # 0 => o.version \in {v.version : v \in Accepted'}
              /\ o.weights # 0 => o.weights \in {v.weights : v \in Accepted'}
  <2>1. CASE s.kind = "optimize" /\ s.accepted
    <3>1. Row(s) \in Accepted'
      BY <1>1, <2>1 DEF Row, Accepted
    <3>2. s.new \in Config
      BY <1>2 DEF Request
    <3>3. o.version = s.number /\ o.weights = s.weights
      BY <1>11, <2>1, <3>2 DEF Object, Trained, Config
    <3> QED
      BY <1>3, <3>1, <3>3
  <2>2. CASE ~(s.kind = "optimize" /\ s.accepted)
    <3>1. o = s.new
      BY <1>11, <2>2 DEF Object, Trained
    <3> QED
      BY <1>1, <1>2, <3>1, StillAccepted DEF Carried
  <2> QED
    BY <2>1, <2>2
<1>12. ASSUME NEW o, o = Object(s), NEW c, c = Written(cfg, s.conf, o)
       PROVE  /\ c.version # 0 => c.version \in {v.version : v \in Accepted'}
              /\ c.weights # 0 => c.weights \in {v.weights : v \in Accepted'}
  <2>1. c.version \in {o.version, cfg.version} /\ c.weights \in {o.weights, cfg.weights}
    BY <1>12 DEF Written
  <2> QED
    BY <1>1, <1>2, <1>11, <1>12, <2>1, StillAccepted
<1>13. CurrentWasAccepted'
  <2>1. CASE WritesConfig(s)
    BY <1>1, <1>12, <2>1 DEF CurrentWasAccepted
  <2>2. CASE ~WritesConfig(s)
    BY <1>1, <1>2, <2>2, StillAccepted DEF CurrentWasAccepted
  <2> QED
    BY <2>1, <2>2
<1>14. ASSUME NEW q \in Requests
       PROVE  /\ Ahead(req[q])' /\ Carried(req[q])'
              /\ (req[q].pc = "numbered" => req[q].number # 0)'
  <2>1. req \in [Requests -> Request]
    BY DEF VersionsInv, TypeOK
  <2>2. CASE q = r
    <3>1. req'[q] = e
      BY <1>1, <2>1, <2>2
    <3> HIDE DEF e
    <3> QED
      BY <1>2, <1>6, <1>9, <3>1 DEF Ahead, Carried, FromAccepted, NoConfig
  <2>3. CASE q # r
    <3>1. req'[q] = req[q] /\ req[q] \in Request
      BY <1>1, <2>1, <2>3
    <3>2. Ahead(req[q]) /\ Carried(req[q])
          /\ (req[q].pc = "numbered" => req[q].number # 0)
      BY DEF VersionsInv
    <3>3. Ahead(req[q])'
      BY <1>2, <1>6, <3>1, <3>2 DEF Ahead, Request
    <3>4. Carried(req[q])'
      BY <1>1, <3>1, <3>2, StillAccepted DEF Carried, FromAccepted
    <3> QED
      BY <3>1, <3>2, <3>3, <3>4
  <2> QED
    BY <2>2, <2>3
<1> QED
  BY <1>6, <1>7, <1>10, <1>13, <1>14 DEF VersionsInv

LEMMA SaveStep ==
    ASSUME VersionsInv, NEW r \in Requests, Save(r)
    PROVE  VersionsInv'
<1>1. CASE Taken(req[r])
  BY <1>1, EndStep DEF Save, PCs, Answered
<1>2. CASE ~Taken(req[r])
  BY <1>2, SaveRowStep
<1> QED
  BY <1>1, <1>2

\* Steps that touch neither the config, nor the rows, nor a request.
LEMMA ElsewhereStep ==
    ASSUME VersionsInv, UNCHANGED <<cfg, rows, req, mixed>>, nlogs' \in Nat,
           day' \in Nat, applied' \in Nat
    PROVE  VersionsInv'
<1>1. TypeOK'
  BY DEF VersionsInv, TypeOK
<1>2. IsFiniteSet(rows)' /\ VersionsDense' /\ CurrentWasAccepted'
  BY DEF VersionsInv, VersionsDense, Numbers, CurrentWasAccepted, Accepted
<1>3. ASSUME NEW q \in Requests
      PROVE  /\ Ahead(req[q])' /\ Carried(req[q])'
             /\ (req[q].pc = "numbered" => req[q].number # 0)'
  BY DEF VersionsInv, Ahead, Carried, FromAccepted, Accepted
<1> QED
  BY <1>1, <1>2, <1>3 DEF VersionsInv

LEMMA RespondEnds ==
    ASSUME NEW r \in Requests, Respond(r)
    PROVE  \E pc \in Answered : Becomes(r, Ended(pc))
<1> DEFINE pc == CASE req[r].kind = "rollback" -> "success"
                   [] ~req[r].accepted         -> "rejected"
                   [] Scheduled                -> "success"
                   [] OTHER                    -> "error"
<1>1. pc \in Answered
  BY DEF Answered
<1>2. Becomes(r, Ended(pc))
  BY DEF Respond, Becomes
<1> QED
  BY <1>1, <1>2

LEMMA RespondStep ==
    ASSUME VersionsInv, NEW r \in Requests, Respond(r)
    PROVE  VersionsInv'
<1>1. PICK pc \in Answered : Becomes(r, Ended(pc))
  BY RespondEnds
<1>2. pc \in PCs /\ pc # "numbered"
  BY DEF PCs, Answered
<1> QED
  BY <1>1, <1>2, EndedType, SessionBecomes

LEMMA VersionsStep == VersionsInv /\ [Next]_vars => VersionsInv'
<1> SUFFICES ASSUME VersionsInv, [Next]_vars PROVE VersionsInv'
  OBVIOUS
<1>1. /\ nlogs \in Nat /\ day \in Nat /\ applied \in Nat /\ cfg.weights \in Nat
  BY DEF VersionsInv, TypeOK, Config
<1>2. CASE UNCHANGED vars
  BY <1>1, <1>2, ElsewhereStep DEF vars
<1>3. CASE Reschedule
  BY <1>1, <1>3, ElsewhereStep DEF Reschedule
<1>4. CASE LogReview
  BY <1>1, <1>4, ElsewhereStep DEF LogReview
<1>5. CASE DayPasses
  BY <1>1, <1>5, ElsewhereStep DEF DayPasses
<1>6. ASSUME NEW r \in Requests, Optimize(r) \/ Rollback(r) \/ Serve(r) \/ Abort(r)
      PROVE  VersionsInv'
  <2>1. {"skipped", "not_found", "success", "rejected", "failed"} \subseteq PCs
    BY DEF PCs, Answered
  <2>2. CASE Optimize(r)
    BY <2>2, ArriveStep DEF Optimize
  <2>3. CASE Rollback(r)
    BY <2>3, ArriveStep, VersionsAssumption DEF Rollback
  <2>4. CASE InsertConfig(r)
    BY <2>4, InsertStep
  <2>5. CASE Skip(r)
    BY <2>1, <2>5, EndStep DEF Skip
  <2>6. CASE Train(r)
    BY <2>6, TrainStep
  <2>7. CASE NumberVersion(r) \/ FlushAndNumber(r)
    BY <2>7, NumberStep
  <2>8. CASE NoTarget(r)
    BY <2>1, <2>8, EndStep DEF NoTarget
  <2>9. CASE PickTarget(r)
    BY <2>9, PickStep
  <2>10. CASE Save(r)
    BY <2>10, SaveStep
  <2>11. CASE Respond(r)
    BY <2>11, RespondStep
  <2>12. CASE Abort(r)
    BY <2>1, <2>12, EndStep DEF Abort
  <2> QED
    BY <1>6, <2>2, <2>3, <2>4, <2>5, <2>6, <2>7, <2>8, <2>9, <2>10, <2>11, <2>12
       DEF Serve
<1> QED
  BY <1>2, <1>3, <1>4, <1>5, <1>6 DEF Next

\* Type correctness: whatever requests overlap, fail or are refused.
THEOREM VersionsTyped == Spec => []TypeOK
<1>1. VersionsInv => TypeOK
  BY DEF VersionsInv
<1> QED
  BY <1>1, VersionsInit, VersionsStep, PTL DEF Spec

\* The version numbers of a user have neither gap nor repetition, for any
\* number of optimise and rollback requests in any interleaving.
THEOREM NumberingCorrect == Spec => []VersionsDense
<1>1. VersionsInv => VersionsDense
  BY DEF VersionsInv
<1> QED
  BY <1>1, VersionsInit, VersionsStep, PTL DEF Spec

\* No interleaving makes a model current that was not accepted.
THEOREM OnlyAcceptedModels == Spec => []CurrentWasAccepted
<1>1. VersionsInv => CurrentWasAccepted
  BY DEF VersionsInv
<1> QED
  BY <1>1, VersionsInit, VersionsStep, PTL DEF Spec

-----------------------------------------------------------------------------
(***************************************************************************)
(* The versions implement the log of VersionLog.  On top of VersionsInv,   *)
(* what a session is about to write is what the log would write: a         *)
(* candidate that was accepted is not what the session's config holds, so  *)
(* the UPDATE sets it; a rollback holds an accepted row's model.           *)
(***************************************************************************)

Deciding(s) == s.pc \in {"trained", "numbered"}

Improves(s) ==
    (Deciding(s) /\ s.kind = "optimize") =>
        /\ s.weights \in Weights
        /\ s.accepted => s.weights # s.conf.weights
        /\ s.new = s.conf

Restores(s) ==
    (Deciding(s) /\ s.kind = "rollback") =>
        \E v \in Accepted : s.new = Restored(s.conf, v) /\ s.weights = v.weights

\* Until a candidate is chosen the session's object is the config it has read.
Untouched(s) == s.pc = "loaded" => s.new = s.conf

LogInv ==
    /\ VersionsInv
    /\ \A r \in Requests :
         Improves(req[r]) /\ Restores(req[r]) /\ Untouched(req[r])

LEMMA LogInit == Init => LogInv
<1> SUFFICES ASSUME Init, NEW r \in Requests
             PROVE  Improves(req[r]) /\ Restores(req[r]) /\ Untouched(req[r])
  BY VersionsInit DEF LogInv
<1>1. req[r].pc = "idle"
  BY DEF Init, Closed
<1> QED
  BY <1>1 DEF Improves, Restores, Untouched, Deciding

\* The other sessions keep what they hold, because rows stay.
LEMMA OthersKeep ==
    ASSUME LogInv, NEW r \in Requests, NEW s, req' = [req EXCEPT ![r] = s],
           rows \subseteq rows',
           Improves(s), Restores(s), Untouched(s), VersionsInv'
    PROVE  LogInv'
<1>1. req \in [Requests -> Request] /\ Accepted \subseteq Accepted'
  BY DEF LogInv, VersionsInv, TypeOK, Accepted
<1> SUFFICES ASSUME NEW q \in Requests
             PROVE  Improves(req[q])' /\ Restores(req[q])' /\ Untouched(req[q])'
  BY DEF LogInv
<1>2. req'[q] = s \/ req'[q] = req[q]
  BY <1>1
<1>3. Improves(req[q]) /\ Restores(req[q]) /\ Untouched(req[q])
  BY DEF LogInv
<1>4. Improves(req'[q]) /\ Untouched(req'[q])
  BY <1>2, <1>3
<1>5. Restores(req'[q])
  BY <1>2, <1>3
<1>6. Improves(req[q])' /\ Untouched(req[q])'
  BY <1>4 DEF Improves, Untouched, Deciding
<1>7. Restores(req[q])'
  BY <1>1, <1>5 DEF Restores, Deciding, Restored
<1> QED
  BY <1>6, <1>7

\* A session that decides nothing has nothing to show.
LEMMA Undecided ==
    ASSUME NEW s, ~Deciding(s), s.pc # "loaded" \/ s.new = s.conf
    PROVE  Improves(s) /\ Restores(s) /\ Untouched(s)
BY DEF Improves, Restores, Untouched

LEMMA LogEnd ==
    ASSUME LogInv, NEW r \in Requests, NEW pc \in Answered, End(r, pc), VersionsInv'
    PROVE  LogInv'
<1>1. Ended(pc).pc = pc /\ pc \notin {"trained", "numbered", "loaded"}
  BY DEF Ended, Closed, Answered
<1>2. Improves(Ended(pc)) /\ Restores(Ended(pc)) /\ Untouched(Ended(pc))
  BY <1>1, Undecided DEF Deciding
<1> QED
  BY <1>2, OthersKeep DEF End

LEMMA LogRespond ==
    ASSUME LogInv, NEW r \in Requests, Respond(r), VersionsInv'
    PROVE  LogInv'
<1>1. PICK pc \in Answered : Becomes(r, Ended(pc))
  BY RespondEnds
<1>2. Ended(pc).pc = pc /\ pc \notin {"trained", "numbered", "loaded"}
  BY DEF Ended, Closed, Answered
<1>3. Improves(Ended(pc)) /\ Restores(Ended(pc)) /\ Untouched(Ended(pc))
  BY <1>2, Undecided DEF Deciding
<1> QED
  BY <1>1, <1>3, OthersKeep DEF Becomes

LEMMA LogGoto ==
    ASSUME LogInv, NEW r \in Requests, NEW s, Goto(r, s),
           Improves(s), Restores(s), Untouched(s), VersionsInv'
    PROVE  LogInv'
BY OthersKeep DEF Goto

LEMMA LoadedUntouched ==
    ASSUME NEW s \in Request, NEW conf
    PROVE  /\ Loaded(s, conf).pc = "loaded"
           /\ Loaded(s, conf).new = conf /\ Loaded(s, conf).conf = conf
BY DEF Loaded, Request

LEMMA LogArrive ==
    ASSUME LogInv, NEW r \in Requests, NEW kind \in {"optimize", "rollback"},
           NEW t \in Nat, Arrive(r, kind, t), VersionsInv'
    PROVE  LogInv'
<1> DEFINE s == [Closed EXCEPT !.kind = kind, !.target = t]
           i == [s EXCEPT !.pc = "inserting"]
<1>1. s \in Request /\ i.pc = "inserting"
  BY ClosedType DEF Closed, Request
<1>2. Goto(r, IF cfg.exists THEN Loaded(s, cfg) ELSE i)
  BY DEF Arrive
<1> HIDE DEF s, i
<1>3. CASE cfg.exists
  BY <1>1, <1>2, <1>3, LoadedUntouched, Undecided, LogGoto DEF Deciding
<1>4. CASE ~cfg.exists
  BY <1>1, <1>2, <1>4, Undecided, LogGoto DEF Deciding
<1> QED
  BY <1>3, <1>4

LEMMA LogInsert ==
    ASSUME LogInv, NEW r \in Requests, InsertConfig(r), VersionsInv'
    PROVE  LogInv'
<1> DEFINE l == Loaded(req[r], DefaultConfig)
           s == [l EXCEPT !.fresh = TRUE]
<1>1. CASE cfg.exists
  BY <1>1, LogEnd DEF InsertConfig, Answered
<1>2. CASE ~cfg.exists
  <2>1. Goto(r, s)
    BY <1>2 DEF InsertConfig
  <2>2. req[r] \in Request
    BY DEF LogInv, VersionsInv, TypeOK
  <2>3. s.pc = "loaded" /\ s.new = s.conf
    BY <2>2 DEF Loaded, Request
  <2> HIDE DEF s
  <2> QED
    BY <2>1, <2>3, Undecided, LogGoto DEF Deciding
<1> QED
  BY <1>1, <1>2

LEMMA LogTrain ==
    ASSUME LogInv, NEW r \in Requests, Train(r), VersionsInv'
    PROVE  LogInv'
<1>1. PICK w \in Weights, ok \in BOOLEAN :
        /\ ok => w # req[r].conf.weights
        /\ Goto(r, [req[r] EXCEPT !.pc = "trained", !.accepted = ok, !.weights = w])
  BY DEF Train
<1> DEFINE s == [req[r] EXCEPT !.pc = "trained", !.accepted = ok, !.weights = w]
<1>2. req[r] \in Request /\ req[r].kind = "optimize" /\ req[r].pc = "loaded"
  BY DEF LogInv, VersionsInv, TypeOK, Train
<1>3. req[r].new = req[r].conf
  BY <1>2 DEF LogInv, Untouched
<1>4. /\ s.pc = "trained" /\ s.accepted = ok /\ s.weights = w /\ s.kind = "optimize"
      /\ s.conf = req[r].conf /\ s.new = req[r].new
  BY <1>2 DEF Request
<1> HIDE DEF s
<1>5. Improves(s) /\ Restores(s) /\ Untouched(s)
  BY <1>1, <1>3, <1>4 DEF Improves, Restores, Untouched, Deciding
<1> QED
  BY <1>1, <1>5, LogGoto DEF s

LEMMA LogNumber ==
    ASSUME LogInv, NEW r \in Requests, NumberVersion(r) \/ FlushAndNumber(r), VersionsInv'
    PROVE  LogInv'
<1>1. req[r] \in Request /\ req[r].pc = "trained"
  BY DEF LogInv, VersionsInv, TypeOK, NumberVersion, FlushAndNumber
<1>2. PICK s : /\ Goto(r, s)
               /\ s.pc = "numbered" /\ s.accepted = req[r].accepted
               /\ s.weights = req[r].weights /\ s.kind = req[r].kind
               /\ s.conf = req[r].conf /\ s.new = req[r].new
  <2> DEFINE a == [req[r] EXCEPT !.pc = "numbered", !.number = NextModelVersion]
             b == [req[r] EXCEPT !.pc = "numbered", !.writing = TRUE,
                                 !.number = NextModelVersion]
  <2>1. /\ a.pc = "numbered" /\ a.accepted = req[r].accepted
        /\ a.weights = req[r].weights /\ a.kind = req[r].kind
        /\ a.conf = req[r].conf /\ a.new = req[r].new
    BY <1>1 DEF Request
  <2>2. /\ b.pc = "numbered" /\ b.accepted = req[r].accepted
        /\ b.weights = req[r].weights /\ b.kind = req[r].kind
        /\ b.conf = req[r].conf /\ b.new = req[r].new
    BY <1>1 DEF Request
  <2>3. Goto(r, a) \/ Goto(r, b)
    BY DEF NumberVersion, FlushAndNumber
  <2> HIDE DEF a, b
  <2> QED
    BY <2>1, <2>2, <2>3
<1>3. Improves(req[r]) /\ Restores(req[r])
  BY DEF LogInv
<1>4. Improves(s) /\ Restores(s) /\ Untouched(s)
  BY <1>1, <1>2, <1>3 DEF Improves, Restores, Untouched, Deciding
<1> QED
  BY <1>2, <1>4, LogGoto

LEMMA LogPick ==
    ASSUME LogInv, NEW r \in Requests, PickTarget(r), VersionsInv'
    PROVE  LogInv'
<1>1. PICK v \in Eligible(req[r]) :
        Goto(r, [req[r] EXCEPT !.pc = "trained",
                               !.new = Restored(req[r].conf, v),
                               !.weights = v.weights])
  BY DEF PickTarget
<1> DEFINE n == Restored(req[r].conf, v)
           s == [req[r] EXCEPT !.pc = "trained", !.new = n, !.weights = v.weights]
<1>2. req[r] \in Request /\ req[r].kind = "rollback" /\ v \in Accepted
  BY DEF LogInv, VersionsInv, TypeOK, PickTarget, Eligible, Accepted
<1> HIDE DEF n
<1>3. /\ s.pc = "trained" /\ s.weights = v.weights /\ s.kind = "rollback"
      /\ s.conf = req[r].conf /\ s.new = n
  BY <1>2 DEF Request
<1> HIDE DEF s
<1>4. Improves(s) /\ Untouched(s)
  BY <1>3 DEF Improves, Untouched, Deciding
<1>5. s.new = Restored(s.conf, v)
  BY <1>3 DEF n
<1>6. Restores(s)
  BY <1>2, <1>3, <1>5 DEF Restores
<1> QED
  BY <1>1, <1>4, <1>6, LogGoto DEF s, n

LEMMA LogSave ==
    ASSUME LogInv, NEW r \in Requests, Save(r), VersionsInv'
    PROVE  LogInv'
<1> DEFINE e == [Ended("saved") EXCEPT !.kind = req[r].kind, !.accepted = req[r].accepted]
<1>1. CASE Taken(req[r])
  BY <1>1, LogEnd DEF Save, Answered
<1>2. CASE ~Taken(req[r])
  <2>1. req' = [req EXCEPT ![r] = e] /\ rows \subseteq rows'
    BY <1>2 DEF Save
  <2>2. e.pc = "saved"
    BY DEF Ended, Closed
  <2> HIDE DEF e
  <2> QED
    BY <2>1, <2>2, Undecided, OthersKeep DEF Deciding
<1> QED
  BY <1>1, <1>2

LEMMA LogStep == LogInv /\ [Next]_vars => LogInv'
<1> SUFFICES ASSUME LogInv, [Next]_vars PROVE LogInv'
  OBVIOUS
<1>1. VersionsInv'
  BY VersionsStep DEF LogInv
<1>2. CASE UNCHANGED <<rows, req>>
  <2>1. \A r \in Requests :
          Improves(req[r])' /\ Restores(req[r])' /\ Untouched(req[r])'
    BY <1>2 DEF LogInv, Improves, Restores, Untouched, Deciding, Accepted
  <2> QED
    BY <1>1, <2>1 DEF LogInv
<1>3. CASE UNCHANGED vars \/ Reschedule \/ LogReview \/ DayPasses
  BY <1>2, <1>3 DEF vars, Reschedule, LogReview, DayPasses
<1>4. ASSUME NEW r \in Requests, Optimize(r) \/ Rollback(r) \/ Serve(r) \/ Abort(r)
      PROVE  LogInv'
  <2>1. CASE Optimize(r) \/ Rollback(r)
    BY <1>1, <2>1, LogArrive, VersionsAssumption DEF Optimize, Rollback
  <2>2. CASE InsertConfig(r)
    BY <1>1, <2>2, LogInsert
  <2>3. CASE Skip(r) \/ NoTarget(r) \/ Respond(r) \/ Abort(r)
    BY <1>1, <2>3, LogEnd, LogRespond DEF Skip, NoTarget, Abort, Answered
  <2>4. CASE Train(r)
    BY <1>1, <2>4, LogTrain
  <2>5. CASE NumberVersion(r) \/ FlushAndNumber(r)
    BY <1>1, <2>5, LogNumber
  <2>6. CASE PickTarget(r)
    BY <1>1, <2>6, LogPick
  <2>7. CASE Save(r)
    BY <1>1, <2>7, LogSave
  <2> QED
    BY <1>4, <2>1, <2>2, <2>3, <2>4, <2>5, <2>6, <2>7 DEF Serve
<1> QED
  BY <1>3, <1>4 DEF Next

LEMMA LogInitMapped == Init => Log!Init
BY DEF Init, Log!Init, LastVersion, Entries, NoConfig

\* What a saved row adds to the log.
LEMMA Saved ==
    ASSUME LogInv, NEW r \in Requests, Save(r), ~Taken(req[r])
    PROVE  LET s == req[r] IN
           /\ s.number = LastVersion + 1
           /\ LastVersion' = LastVersion + 1
           /\ Entries' = Entries \cup
                {[version |-> s.number, weights |-> s.weights, status |-> Row(s).status]}
<1> DEFINE s == req[r]
           n == Cardinality(rows)
<1>1. rows' = rows \cup {Row(s)} /\ s.pc = "numbered"
  BY DEF Save
<1>2. LastVersion = n /\ n \in Nat /\ Ahead(s) /\ s \in Request
  BY Facts DEF LogInv
<1>3. s.number = n + 1
  <2>1. s.number \in Nat /\ s.number # 0
    BY <1>1, <1>2 DEF LogInv, VersionsInv, Request
  <2>2. s.number \notin 1..n
    BY DEF Taken, LogInv, VersionsInv, VersionsDense
  <2> QED
    BY <1>2, <2>1, <2>2 DEF Ahead
<1>4. Row(s).version = s.number /\ Row(s).weights = s.weights
  BY DEF Row
<1>5. LastVersion' = n + 1
  <2>1. Row(s) \notin rows /\ IsFiniteSet(rows)
    BY <1>4 DEF Taken, Numbers, LogInv, VersionsInv
  <2>2. Cardinality(rows') = n + 1
    BY <1>1, <2>1, FS_AddElement
  <2>3. VersionsInv'
    BY VersionsStep DEF LogInv, Next, Serve
  <2>4. (IsFiniteSet(rows) /\ VersionsDense)'
    BY <2>3 DEF VersionsInv
  <2>5. Numbers' = 1..(n + 1) /\ rows' # {}
    BY <1>1, <2>2, <2>4 DEF VersionsDense
  <2>6. Max(1..(n + 1)) = n + 1
    BY <1>2, MaxOfInterval
  <2> QED
    BY <2>5, <2>6 DEF LastVersion
<1>6. Entries' = Entries \cup
        {[version |-> Row(s).version, weights |-> Row(s).weights, status |-> Row(s).status]}
  BY <1>1 DEF Entries
<1> QED
  BY <1>2, <1>3, <1>4, <1>5, <1>6

LEMMA SaveMapped ==
    ASSUME LogInv, NEW r \in Requests, Save(r), ~Taken(req[r])
    PROVE  Log!Next
<1> DEFINE s == req[r]
<1>1. /\ s.number = LastVersion + 1
      /\ LastVersion' = LastVersion + 1
      /\ Entries' = Entries \cup
           {[version |-> s.number, weights |-> s.weights, status |-> Row(s).status]}
  BY Saved
<1>2. /\ s \in Request /\ s.conf \in Config /\ s.new \in Config /\ cfg \in Config
      /\ LastVersion \in Nat /\ LastVersion = Cardinality(rows)
      /\ s.pc = "numbered" /\ FromAccepted(s.conf)
  BY Facts DEF LogInv, Save, Request, Carried
<1>3. cfg' = IF WritesConfig(s) THEN Written(cfg, s.conf, Object(s)) ELSE cfg
  BY DEF Save
<1>4. Improves(s) /\ Restores(s)
  BY DEF LogInv
<1>5. CASE s.kind = "optimize" /\ s.accepted
  <2>1. Object(s).weights = s.weights /\ Object(s).version = s.number
    BY <1>2, <1>5 DEF Object, Trained, Config
  <2>2. s.weights # s.conf.weights /\ s.weights \in Weights
    BY <1>2, <1>4, <1>5 DEF Improves, Deciding
  <2>3. s.number # s.conf.version
    <3>1. \A v \in Accepted : v.version \in 1..Cardinality(rows)
      BY DEF LogInv, VersionsInv, VersionsDense, Numbers, Accepted
    <3>2. s.conf.version = 0 \/ s.conf.version \in 1..Cardinality(rows)
      BY <1>2, <3>1 DEF FromAccepted
    <3> QED
      BY <1>1, <1>2, <3>2
  <2>4. cfg'.weights = s.weights /\ cfg'.version = s.number
    BY <1>3, <1>5, <2>1, <2>2, <2>3 DEF WritesConfig, Written
  <2>5. Row(s).status = "accepted"
    BY <1>5 DEF Row
  <2>6. Log!Accept(s.weights)
    BY <1>1, <2>4, <2>5 DEF Log!Accept, Log!Add
  <2> QED
    BY <2>2, <2>6 DEF Log!Next
<1>6. CASE s.kind = "optimize" /\ ~s.accepted
  <2>1. s.weights \in Weights /\ s.new = s.conf
    BY <1>2, <1>4, <1>6 DEF Improves, Deciding
  <2>2. Object(s) = s.conf
    BY <1>6, <2>1 DEF Object, Trained
  <2>3. cfg'.weights = cfg.weights /\ cfg'.version = cfg.version
    BY <1>3, <2>2 DEF Written
  <2>4. Row(s).status = "rejected"
    BY <1>6 DEF Row
  <2>5. Log!Reject(s.weights)
    BY <1>1, <2>3, <2>4 DEF Log!Reject, Log!Add
  <2> QED
    BY <2>1, <2>5 DEF Log!Next
<1>7. CASE s.kind = "rollback"
  <2>1. PICK v \in Accepted : s.new = Restored(s.conf, v) /\ s.weights = v.weights
    BY <1>2, <1>4, <1>7 DEF Restores, Deciding
  <2> DEFINE e == [version |-> v.version, weights |-> v.weights, status |-> v.status]
  <2>2. e \in Entries /\ e.status = "accepted" /\ e.weights = s.weights /\ e.version = v.version
    BY <2>1 DEF Entries, Accepted
  <2>3. Object(s).weights = v.weights /\ Object(s).version = v.version
    BY <1>2, <1>7, <2>1 DEF Object, Restored, Config
  <2>4. cfg'.weights \in {cfg.weights, v.weights} /\ cfg'.version \in {cfg.version, v.version}
    BY <1>3, <1>7, <2>3 DEF WritesConfig, Written
  <2>5. Row(s).status = "rolled_back"
    BY <1>7 DEF Row
  <2>6. e.weights = v.weights
    OBVIOUS
  <2> HIDE DEF e
  <2>7. Log!Rollback(e)
    BY <1>1, <2>1, <2>2, <2>4, <2>5, <2>6 DEF Log!Rollback, Log!Add
  <2> QED
    BY <2>2, <2>7 DEF Log!Next
<1> QED
  BY <1>2, <1>5, <1>6, <1>7 DEF Request

LEMMA StepMapped == LogInv /\ [Next]_vars => [Log!Next]_(Log!vars)
<1> SUFFICES ASSUME LogInv, [Next]_vars PROVE [Log!Next]_(Log!vars)
  OBVIOUS
<1>1. ASSUME UNCHANGED <<cfg, rows>> PROVE [Log!Next]_(Log!vars)
  BY <1>1 DEF Log!vars, LastVersion, Numbers, Entries
<1>2. CASE UNCHANGED vars \/ Reschedule \/ LogReview \/ DayPasses
  BY <1>1, <1>2 DEF vars, Reschedule, LogReview, DayPasses
<1>3. ASSUME NEW r \in Requests, Optimize(r) \/ Rollback(r) \/ Serve(r) \/ Abort(r)
      PROVE  [Log!Next]_(Log!vars)
  <2>1. CASE Save(r)
    <3>1. CASE Taken(req[r])
      BY <1>1, <2>1, <3>1 DEF Save, End
    <3>2. CASE ~Taken(req[r])
      BY <2>1, <3>2, SaveMapped
    <3> QED
      BY <3>1, <3>2
  <2>2. CASE \/ Optimize(r) \/ Rollback(r) \/ InsertConfig(r) \/ Skip(r) \/ Train(r)
             \/ NumberVersion(r) \/ NoTarget(r) \/ PickTarget(r) \/ FlushAndNumber(r)
             \/ Respond(r) \/ Abort(r)
    <3>1. UNCHANGED <<cfg, rows>>
      BY <2>2 DEF Optimize, Rollback, Arrive, InsertConfig, Skip, Train, NumberVersion,
                  NoTarget, PickTarget, FlushAndNumber, Respond, Abort, End, Goto
    <3> QED
      BY <1>1, <3>1
  <2> QED
    BY <1>3, <2>1, <2>2 DEF Serve
<1> QED
  BY <1>2, <1>3 DEF Next

\* The detailed versions implement the log: every step of every interleaving
\* adds one entry as VersionLog says, or changes neither entries nor model.
THEOREM LogImplemented == Spec => ImplementsLog
<1>1. Init /\ [][Next]_vars => [][Log!Next]_(Log!vars)
  BY LogInit, LogStep, StepMapped, PTL
<1> QED
  BY <1>1, LogInitMapped, PTL DEF Spec, ImplementsLog, Log!Spec

-----------------------------------------------------------------------------
(***************************************************************************)
(* Dates and weights.  The training date of the config is that of the last *)
(* accepted row, and a session knows, by the config it has read, the date  *)
(* of every accepted row that was there when it read it (Recent).          *)
(***************************************************************************)

Reading(s) == s.pc \in {"loaded", "trained", "numbered"}

Dated ==
    /\ \A u, v \in rows : u.version = v.version => u = v
    /\ ~cfg.exists => cfg = NoConfig /\ Accepted = {}
    /\ day >= 1 /\ cfg.trained <= day
    /\ \A u \in Accepted : 1 <= u.day /\ u.day <= cfg.trained
    /\ \A v \in rows : v.base <= LastVersion

Recent(s) ==
    Reading(s) =>
        /\ ~cfg.exists => s.conf = DefaultConfig
        /\ s.conf.trained <= cfg.trained /\ s.base <= LastVersion
        /\ \A u \in Accepted : u.version <= s.base => u.day <= s.conf.trained
        /\ Deciding(s) /\ s.kind = "optimize" /\ s.accepted => CooldownOver(s.conf)

TrailInv ==
    /\ LogInv /\ Dated /\ WeightsOfCurrentVersion /\ CooldownUnlessOverlapped
    /\ \A r \in Requests : Recent(req[r])

LEMMA TrailInit == Init => TrailInv
<1> SUFFICES ASSUME Init PROVE TrailInv
  OBVIOUS
<1>1. Dated
  BY DEF Init, Dated, Accepted, NoConfig
<1>2. WeightsOfCurrentVersion /\ CooldownUnlessOverlapped
  BY DEF Init, WeightsOfCurrentVersion, CooldownUnlessOverlapped, Accepted
<1>3. \A r \in Requests : Recent(req[r])
  BY DEF Init, Recent, Reading, Closed
<1> QED
  BY <1>1, <1>2, <1>3, LogInit DEF TrailInv

\* A step of one session that commits nothing.
LEMMA TrailBecomes ==
    ASSUME TrailInv, NEW r \in Requests, NEW s, Becomes(r, s), Recent(s), LogInv'
    PROVE  TrailInv'
<1>1. /\ req \in [Requests -> Request] /\ req' = [req EXCEPT ![r] = s]
      /\ UNCHANGED <<cfg, rows, day, mixed>>
  BY DEF TrailInv, LogInv, VersionsInv, TypeOK, Becomes
<1>2. Dated' /\ WeightsOfCurrentVersion' /\ CooldownUnlessOverlapped'
  BY <1>1 DEF TrailInv, Dated, WeightsOfCurrentVersion, CooldownUnlessOverlapped, Accepted,
              LastVersion, Numbers
<1>3. ASSUME NEW q \in Requests PROVE Recent(req[q])'
  <2>1. req'[q] = s \/ req'[q] = req[q]
    BY <1>1
  <2>2. Recent(req'[q])
    BY <2>1 DEF TrailInv
  <2> QED
    BY <1>1, <2>2 DEF Recent, Reading, Deciding, CooldownOver, Accepted, LastVersion, Numbers
<1> QED
  BY <1>2, <1>3 DEF TrailInv

LEMMA TrailGoto ==
    ASSUME TrailInv, NEW r \in Requests, NEW s, Goto(r, s), Recent(s), LogInv'
    PROVE  TrailInv'
BY TrailBecomes DEF Goto, Becomes

LEMMA TrailRespond ==
    ASSUME TrailInv, NEW r \in Requests, Respond(r), LogInv'
    PROVE  TrailInv'
<1>1. PICK pc \in Answered : Becomes(r, Ended(pc))
  BY RespondEnds
<1>2. Ended(pc).pc = pc /\ pc \notin {"loaded", "trained", "numbered"}
  BY DEF Ended, Closed, Answered
<1>3. Recent(Ended(pc))
  BY <1>2 DEF Recent, Reading
<1> QED
  BY <1>1, <1>3, TrailBecomes

LEMMA TrailEnd ==
    ASSUME TrailInv, NEW r \in Requests, NEW pc \in Answered, End(r, pc), LogInv'
    PROVE  TrailInv'
<1>1. Ended(pc).pc = pc /\ pc \notin {"loaded", "trained", "numbered"}
  BY DEF Ended, Closed, Answered
<1>2. Recent(Ended(pc))
  BY <1>1 DEF Recent, Reading
<1>3. Goto(r, Ended(pc))
  BY DEF End, Goto
<1> QED
  BY <1>2, <1>3, TrailGoto

\* What a session reads of the config is recent.
LEMMA LoadedRecent ==
    ASSUME TrailInv, NEW s \in Request, NEW conf \in Config, NEW l,
           conf = cfg \/ (conf = DefaultConfig /\ ~cfg.exists), cfg.exists \/ conf = DefaultConfig,
           l.pc = "loaded", l.conf = conf, l.base = LastVersion
    PROVE  Recent(l)
<1>1. LastVersion \in Nat /\ cfg \in Config
  BY LastIsCount DEF TrailInv, LogInv, VersionsInv, TypeOK
<1>2. conf.trained <= cfg.trained
  BY <1>1 DEF TrailInv, Dated, DefaultConfig, NoConfig, Config
<1>3. \A u \in Accepted : u.day <= conf.trained
  BY DEF TrailInv, Dated
<1> QED
  BY <1>1, <1>2, <1>3 DEF Recent, Reading, Deciding

LEMMA TrailArrive ==
    ASSUME TrailInv, NEW r \in Requests, NEW kind \in {"optimize", "rollback"},
           NEW t \in Nat, Arrive(r, kind, t), LogInv'
    PROVE  TrailInv'
<1> DEFINE s == [Closed EXCEPT !.kind = kind, !.target = t]
           i == [s EXCEPT !.pc = "inserting"]
           l == Loaded(s, cfg)
<1>1. s \in Request /\ i.pc = "inserting" /\ cfg \in Config
  BY ClosedType DEF Closed, Request, TrailInv, LogInv, VersionsInv, TypeOK
<1>2. Goto(r, IF cfg.exists THEN l ELSE i)
  BY DEF Arrive
<1> HIDE DEF s, i
<1>3. CASE cfg.exists
  <2>1. l.pc = "loaded" /\ l.conf = cfg /\ l.base = LastVersion
    BY <1>1 DEF Loaded, Request
  <2> HIDE DEF l
  <2>2. Recent(l)
    BY <1>1, <1>3, <2>1, LoadedRecent
  <2> QED
    BY <1>2, <1>3, <2>2, TrailGoto
<1>4. CASE ~cfg.exists
  <2>1. Recent(i)
    BY <1>1 DEF Recent, Reading
  <2> QED
    BY <1>2, <1>4, <2>1, TrailGoto
<1> QED
  BY <1>3, <1>4

LEMMA TrailInsert ==
    ASSUME TrailInv, NEW r \in Requests, InsertConfig(r), LogInv'
    PROVE  TrailInv'
<1> DEFINE l == [Loaded(req[r], DefaultConfig) EXCEPT !.fresh = TRUE]
<1>1. CASE cfg.exists
  BY <1>1, TrailEnd DEF InsertConfig, Answered
<1>2. CASE ~cfg.exists
  <2>1. Goto(r, l) /\ req[r] \in Request
    BY <1>2 DEF InsertConfig, TrailInv, LogInv, VersionsInv, TypeOK
  <2>2. l.pc = "loaded" /\ l.conf = DefaultConfig /\ l.base = LastVersion
    BY <2>1 DEF Loaded, Request
  <2> HIDE DEF l
  <2>3. Recent(l)
    BY <1>2, <2>1, <2>2, ConfigTypes, LoadedRecent
  <2> QED
    BY <2>1, <2>3, TrailGoto
<1> QED
  BY <1>1, <1>2

\* A session that goes on keeps what it has read.
LEMMA StillRecent ==
    ASSUME TrailInv, NEW s, NEW n, Recent(s), Reading(s),
           n.conf = s.conf, n.base = s.base,
           Deciding(n) /\ n.kind = "optimize" /\ n.accepted => CooldownOver(n.conf)
    PROVE  Recent(n)
BY DEF Recent

LEMMA TrailTrain ==
    ASSUME TrailInv, NEW r \in Requests, Train(r), LogInv'
    PROVE  TrailInv'
<1>1. PICK w \in Weights, ok \in BOOLEAN :
        Goto(r, [req[r] EXCEPT !.pc = "trained", !.accepted = ok, !.weights = w])
  BY DEF Train
<1> DEFINE s == [req[r] EXCEPT !.pc = "trained", !.accepted = ok, !.weights = w]
<1>2. /\ req[r] \in Request /\ req[r].pc = "loaded" /\ Recent(req[r])
      /\ CooldownOver(req[r].conf)
  BY DEF TrailInv, LogInv, VersionsInv, TypeOK, Train, MayTrain
<1>3. s.conf = req[r].conf /\ s.base = req[r].base
  BY <1>2 DEF Request
<1> HIDE DEF s
<1>4. Recent(s)
  BY <1>2, <1>3, StillRecent DEF Reading
<1> QED
  BY <1>1, <1>4, TrailGoto DEF s

LEMMA TrailNumber ==
    ASSUME TrailInv, NEW r \in Requests, NumberVersion(r) \/ FlushAndNumber(r), LogInv'
    PROVE  TrailInv'
<1> DEFINE a == [req[r] EXCEPT !.pc = "numbered", !.number = NextModelVersion]
           b == [req[r] EXCEPT !.pc = "numbered", !.writing = TRUE, !.number = NextModelVersion]
<1>1. req[r] \in Request /\ req[r].pc = "trained" /\ Recent(req[r])
  BY DEF TrailInv, LogInv, VersionsInv, TypeOK, NumberVersion, FlushAndNumber
<1>2. /\ a.conf = req[r].conf /\ a.base = req[r].base /\ a.kind = req[r].kind
      /\ a.accepted = req[r].accepted
      /\ b.conf = req[r].conf /\ b.base = req[r].base /\ b.kind = req[r].kind
      /\ b.accepted = req[r].accepted
  BY <1>1 DEF Request
<1>3. Goto(r, a) \/ Goto(r, b)
  BY DEF NumberVersion, FlushAndNumber
<1> HIDE DEF a, b
<1>4. req[r].kind = "optimize" /\ req[r].accepted => CooldownOver(req[r].conf)
  BY <1>1 DEF Recent, Reading, Deciding
<1>5. Recent(a) /\ Recent(b)
  BY <1>1, <1>2, <1>4, StillRecent DEF Reading
<1> QED
  BY <1>3, <1>5, TrailGoto

LEMMA TrailPick ==
    ASSUME TrailInv, NEW r \in Requests, PickTarget(r), LogInv'
    PROVE  TrailInv'
<1>1. PICK v \in Eligible(req[r]) :
        Goto(r, [req[r] EXCEPT !.pc = "trained",
                               !.new = Restored(req[r].conf, v),
                               !.weights = v.weights])
  BY DEF PickTarget
<1> DEFINE s == [req[r] EXCEPT !.pc = "trained", !.new = Restored(req[r].conf, v),
                               !.weights = v.weights]
<1>2. /\ req[r] \in Request /\ req[r].pc = "loaded" /\ Recent(req[r])
      /\ req[r].kind = "rollback"
  BY DEF TrailInv, LogInv, VersionsInv, TypeOK, PickTarget
<1>3. s.conf = req[r].conf /\ s.base = req[r].base /\ s.kind = "rollback"
  BY <1>2 DEF Request
<1> HIDE DEF s
<1>4. Recent(s)
  BY <1>2, <1>3, StillRecent DEF Reading
<1> QED
  BY <1>1, <1>4, TrailGoto DEF s

-----------------------------------------------------------------------------
\* What is saved: the object's date is today or the one that was read, and a
\* config that nobody has changed meanwhile becomes the object.
LEMMA WrittenFacts ==
    ASSUME TrailInv, NEW r \in Requests, Save(r), ~Taken(req[r])
    PROVE  LET s == req[r]
               o == Object(s) IN
           /\ cfg'.trained = day \/ cfg'.trained = cfg.trained
           /\ s.kind = "optimize" /\ s.accepted => cfg'.trained = day /\ cfg'.exists
           /\ cfg'.exists \/ cfg' = cfg
           /\ WritesConfig(s) /\ ~mixed' => cfg'.weights = o.weights /\ cfg'.version = o.version
<1> DEFINE s == req[r]
           o == Object(s)
<1>1. /\ s \in Request /\ s.conf \in Config /\ s.new \in Config /\ cfg \in Config /\ day \in Nat
      /\ s.pc = "numbered" /\ Recent(s) /\ Improves(s) /\ Restores(s)
      /\ cfg.trained <= day /\ (~cfg.exists => cfg = NoConfig)
  BY DEF TrailInv, LogInv, VersionsInv, TypeOK, Save, Request, Dated
<1>2. /\ cfg' = IF WritesConfig(s) THEN Written(cfg, s.conf, o) ELSE cfg
      /\ mixed' = (mixed \/ (WritesConfig(s) /\ cfg.exists /\ cfg # s.conf))
  BY DEF Save
<1>3. s.conf.trained <= cfg.trained /\ (~cfg.exists => s.conf = DefaultConfig)
  BY <1>1 DEF Recent, Reading
<1>4. IF s.kind = "optimize" /\ s.accepted THEN o.trained = day ELSE o.trained = s.conf.trained
  <2>1. CASE s.kind = "optimize"
    BY <1>1, <2>1 DEF Object, Trained, Improves, Deciding, Config
  <2>2. CASE s.kind = "rollback"
    BY <1>1, <2>2 DEF Object, Restores, Deciding, Restored, Config
  <2> QED
    BY <1>1, <2>1, <2>2 DEF Request
<1> HIDE DEF o
<1>5. CASE ~WritesConfig(s)
  BY <1>2, <1>5 DEF WritesConfig
<1>6. CASE WritesConfig(s)
  <2>1. /\ cfg'.exists = TRUE
        /\ cfg'.weights = IF o.weights # s.conf.weights THEN o.weights ELSE cfg.weights
        /\ cfg'.version = IF o.version # s.conf.version THEN o.version ELSE cfg.version
        /\ cfg'.trained = IF o.trained # s.conf.trained THEN o.trained ELSE cfg.trained
    BY <1>2, <1>6 DEF Written
  <2>2. cfg'.trained = day \/ cfg'.trained = cfg.trained
    BY <1>4, <2>1
  <2>3. s.kind = "optimize" /\ s.accepted => cfg'.trained = day
    BY <1>1, <1>3, <1>4, <2>1 DEF Config
  <2>4. ~mixed' => cfg'.weights = o.weights /\ cfg'.version = o.version
    <3>1. CASE cfg.exists
      BY <1>2, <1>6, <2>1, <3>1
    <3>2. CASE ~cfg.exists
      BY <1>1, <1>3, <2>1, <3>2 DEF DefaultConfig, NoConfig
    <3> QED
      BY <3>1, <3>2
  <2> QED
    BY <2>1, <2>2, <2>3, <2>4 DEF o
<1> QED
  BY <1>5, <1>6

\* What the rows are before and after a version is saved.
LEMMA SavedRows ==
    ASSUME TrailInv, NEW r \in Requests, Save(r), ~Taken(req[r])
    PROVE  LET s == req[r]
               e == Row(s) IN
           /\ rows' = rows \cup {e} /\ e.version = s.number /\ e.weights = s.weights
           /\ e.day = day /\ e.base = s.base
           /\ e.status = "accepted" <=> s.kind = "optimize" /\ s.accepted
           /\ s.number = LastVersion + 1 /\ LastVersion' = LastVersion + 1 /\ LastVersion \in Nat
           /\ \A v \in rows : /\ v.version \in 1..LastVersion /\ v \in Version
                              /\ v \in Accepted' <=> v \in Accepted
           /\ e \in Accepted' <=> s.kind = "optimize" /\ s.accepted
<1> DEFINE s == req[r]
           e == Row(s)
<1>1. s.number = LastVersion + 1 /\ LastVersion' = LastVersion + 1
  BY Saved DEF TrailInv
<1>2. LastVersion = Cardinality(rows) /\ LastVersion \in Nat /\ s \in Request /\ rows \subseteq Version
  BY Facts DEF TrailInv, LogInv
<1>3. \A v \in rows : v.version \in 1..LastVersion /\ v \in Version
  BY <1>2 DEF TrailInv, LogInv, VersionsInv, VersionsDense, Numbers
<1>4. rows' = rows \cup {e}
  BY DEF Save
<1>5. /\ e.version = s.number /\ e.weights = s.weights /\ e.day = day /\ e.base = s.base
      /\ e.status = "accepted" <=> s.kind = "optimize" /\ s.accepted
  BY <1>2 DEF Row, Request
<1> HIDE DEF e
<1>6. \A v : v \in Accepted' <=> v \in rows' /\ v.status = "accepted"
  BY DEF Accepted
<1>7. \A v \in rows : v \in Accepted' <=> v \in Accepted
  BY <1>4, <1>6 DEF Accepted
<1> QED
  BY <1>1, <1>2, <1>3, <1>4, <1>5, <1>6, <1>7 DEF e

LEMMA TrailSave ==
    ASSUME TrailInv, NEW r \in Requests, Save(r), ~Taken(req[r]), LogInv'
    PROVE  TrailInv'
<1> DEFINE s == req[r]
           e == Row(s)
           o == Object(s)
           won == s.kind = "optimize" /\ s.accepted
           d == [Ended("saved") EXCEPT !.kind = s.kind, !.accepted = s.accepted]
<1>1. /\ s \in Request /\ s.conf \in Config /\ s.new \in Config /\ cfg \in Config /\ day \in Nat
      /\ s.pc = "numbered" /\ Recent(s) /\ Improves(s) /\ Restores(s) /\ Dated
      /\ WeightsOfCurrentVersion /\ CooldownUnlessOverlapped /\ FromAccepted(cfg)
      /\ req \in [Requests -> Request] /\ s.base \in Nat
  BY Facts DEF TrailInv, LogInv, VersionsInv, TypeOK, Save, Request
<1>2. /\ rows' = rows \cup {e} /\ e.version = s.number /\ e.weights = s.weights
      /\ e.day = day /\ e.base = s.base
      /\ s.number = LastVersion + 1 /\ LastVersion' = LastVersion + 1 /\ LastVersion \in Nat
      /\ \A v \in rows : /\ v.version \in 1..LastVersion /\ v \in Version
                         /\ v \in Accepted' <=> v \in Accepted
      /\ e \in Accepted' <=> won
  BY SavedRows
<1>3. /\ cfg'.trained = day \/ cfg'.trained = cfg.trained
      /\ won => cfg'.trained = day /\ cfg'.exists
      /\ cfg'.exists \/ cfg' = cfg
      /\ WritesConfig(s) /\ ~mixed' => cfg'.weights = o.weights /\ cfg'.version = o.version
  BY WrittenFacts
<1>4. /\ day' = day /\ req' = [req EXCEPT ![r] = d] /\ (~mixed' => ~mixed)
      /\ (~WritesConfig(s) => cfg' = cfg) /\ Accepted' \subseteq rows'
  BY DEF Save, Accepted
<1>5. d.pc = "saved"
  BY DEF Ended, Closed
<1>6. won => o.version = s.number /\ o.weights = s.weights
  BY <1>1 DEF Object, Trained, Config
<1>7. s.kind = "optimize" /\ ~s.accepted => o = s.conf
  BY <1>1 DEF Object, Trained, Improves, Deciding
<1>8. s.kind = "rollback" =>
        \E v \in rows : o.version = v.version /\ o.weights = v.weights
  BY <1>1 DEF Object, Restores, Deciding, Restored, Config, Accepted
<1>9. WritesConfig(s) <=> s.fresh \/ s.kind = "rollback" \/ s.accepted
  BY DEF WritesConfig
<1> HIDE DEF e, o, d
<1>10. Dated'
  <2>1. \A u, v \in rows' : u.version = v.version => u = v
    BY <1>1, <1>2 DEF Dated
  <2>2. ~cfg'.exists => cfg' = NoConfig /\ Accepted' = {}
    BY <1>1, <1>2, <1>3, <1>4 DEF Dated
  <2>3. day' >= 1 /\ cfg'.trained <= day'
    BY <1>1, <1>3, <1>4 DEF Dated
  <2>4. ASSUME NEW u \in Accepted' PROVE 1 <= u.day /\ u.day <= cfg'.trained
    <3>1. CASE u = e
      BY <1>1, <1>2, <1>3, <2>4, <3>1 DEF Dated
    <3>2. CASE u \in Accepted
      <4>1. u \in Version
        BY <1>2, <3>2 DEF Accepted
      <4> QED
        BY <1>1, <1>3, <3>2, <4>1 DEF Dated, Version, Config
    <3> QED
      BY <1>2, <1>4, <2>4, <3>1, <3>2
  <2>5. \A v \in rows' : v.base <= LastVersion'
    BY <1>1, <1>2 DEF Dated, Recent, Reading, Version
  <2> QED
    BY <2>1, <2>2, <2>3, <2>4, <2>5 DEF Dated
<1>11. WeightsOfCurrentVersion'
  <2> SUFFICES ASSUME ~mixed', NEW v \in rows', v.version = cfg'.version
               PROVE  v.weights = cfg'.weights
    BY DEF WeightsOfCurrentVersion
  <2>1. cfg.version # s.number
    <3>1. cfg.version = 0 \/ \E u \in rows : u.version = cfg.version
      BY <1>1 DEF FromAccepted, Accepted
    <3> QED
      BY <1>2, <3>1
  <2>2. CASE cfg'.version = cfg.version /\ cfg'.weights = cfg.weights
    BY <1>1, <1>2, <1>4, <2>1, <2>2 DEF WeightsOfCurrentVersion
  <2>3. CASE WritesConfig(s) /\ won
    BY <1>2, <1>3, <1>6, <2>3
  <2>4. CASE WritesConfig(s) /\ s.kind = "rollback"
    <3>1. PICK u \in rows : o.version = u.version /\ o.weights = u.weights
      BY <1>8, <2>4
    <3>2. cfg'.version = u.version /\ cfg'.weights = u.weights
      BY <1>3, <2>4, <3>1
    <3> QED
      BY <1>1, <1>2, <3>1, <3>2 DEF Dated
  <2>5. CASE WritesConfig(s) /\ s.kind = "optimize" /\ ~s.accepted
    <3>1. cfg'.weights = s.conf.weights /\ cfg'.version = s.conf.version
      BY <1>3, <1>7, <2>5
    <3>2. CASE cfg.exists
      <4>1. cfg = s.conf
        BY <2>5, <3>2 DEF Save
      <4> QED
        BY <2>2, <3>1, <4>1
    <3>3. CASE ~cfg.exists
      <4>1. s.conf = DefaultConfig /\ cfg = NoConfig
        BY <1>1, <3>3 DEF Recent, Reading, Dated
      <4>2. cfg'.weights = cfg.weights /\ cfg'.version = cfg.version
        BY <3>1, <4>1 DEF DefaultConfig, NoConfig
      <4> QED
        BY <2>2, <4>2
    <3> QED
      BY <3>2, <3>3
  <2>6. CASE ~WritesConfig(s)
    BY <1>4, <2>2, <2>6
  <2> QED
    BY <1>1, <2>3, <2>4, <2>5, <2>6 DEF Request
<1>12. CooldownUnlessOverlapped'
  <2> SUFFICES ASSUME NEW u \in Accepted', NEW v \in Accepted', u.version <= v.base
               PROVE  v.day - u.day >= MinDays
    BY DEF CooldownUnlessOverlapped
  <2>1. CASE u = e
    <3>1. v.base <= LastVersion
      BY <1>1, <1>2, <1>4 DEF Dated, Recent, Reading
    <3>2. v.base \in Nat
      BY <1>1, <1>2, <1>4 DEF Version
    <3> QED
      BY <1>2, <2>1, <3>1, <3>2
  <2>2. CASE u \in Accepted /\ v \in Accepted
    BY <1>1, <2>2 DEF CooldownUnlessOverlapped
  <2>3. CASE u \in Accepted /\ v = e
    <3>1. u.day <= s.conf.trained /\ 1 <= u.day /\ u.day \in Nat
      BY <1>1, <1>2, <2>3 DEF Recent, Reading, Dated, Accepted, Version
    <3>2. won /\ CooldownOver(s.conf)
      BY <1>1, <1>2, <2>3 DEF Recent, Reading, Deciding
    <3>3. day - s.conf.trained >= MinDays /\ s.conf.trained \in Nat /\ MinDays \in Nat
      BY <1>1, <3>1, <3>2, VersionsAssumption DEF CooldownOver, Config
    <3> QED
      BY <1>1, <1>2, <2>3, <3>1, <3>3
  <2> QED
    BY <1>2, <1>4, <2>1, <2>2, <2>3
<1>13. ASSUME NEW q \in Requests PROVE Recent(req[q])'
  <2>1. CASE q = r
    BY <1>1, <1>4, <1>5, <2>1 DEF Recent, Reading
  <2>2. CASE q # r
    <3>1. req'[q] = req[q] /\ req[q] \in Request /\ Recent(req[q])
      BY <1>1, <1>4, <2>2 DEF TrailInv
    <3> SUFFICES ASSUME Reading(req[q])
                 PROVE  /\ ~cfg'.exists => req[q].conf = DefaultConfig
                        /\ req[q].conf.trained <= cfg'.trained /\ req[q].base <= LastVersion'
                        /\ \A u \in Accepted' : u.version <= req[q].base => u.day <= req[q].conf.trained
                        /\ Deciding(req[q]) /\ req[q].kind = "optimize" /\ req[q].accepted =>
                             CooldownOver(req[q].conf)
      BY <1>4, <3>1 DEF Recent, Reading, Deciding, CooldownOver
    <3>2. /\ ~cfg.exists => req[q].conf = DefaultConfig
          /\ req[q].conf.trained <= cfg.trained /\ req[q].base <= LastVersion
          /\ \A u \in Accepted : u.version <= req[q].base => u.day <= req[q].conf.trained
          /\ Deciding(req[q]) /\ req[q].kind = "optimize" /\ req[q].accepted =>
               CooldownOver(req[q].conf)
      BY <3>1 DEF Recent
    <3>3. req[q].base \in Nat /\ req[q].conf \in Config
      BY <3>1 DEF Request
    <3>4. ~cfg'.exists => req[q].conf = DefaultConfig
      BY <1>3, <3>2
    <3>5. req[q].conf.trained <= cfg'.trained /\ req[q].base <= LastVersion'
      BY <1>1, <1>2, <1>3, <3>2, <3>3 DEF Dated, Config
    <3>6. \A u \in Accepted' : u.version <= req[q].base => u.day <= req[q].conf.trained
      BY <1>2, <1>4, <3>2, <3>3
    <3> QED
      BY <3>2, <3>4, <3>5, <3>6
  <2> QED
    BY <2>1, <2>2
<1> QED
  BY <1>10, <1>11, <1>12, <1>13 DEF TrailInv

LEMMA TrailStep == TrailInv /\ [Next]_vars => TrailInv'
<1> SUFFICES ASSUME TrailInv, [Next]_vars PROVE TrailInv'
  OBVIOUS
<1>1. LogInv' /\ cfg \in Config /\ day \in Nat
  BY LogStep DEF TrailInv, LogInv, VersionsInv, TypeOK
<1>2. ASSUME UNCHANGED <<cfg, rows, req, mixed>>, day' = day \/ day' = day + 1 PROVE TrailInv'
  <2>1. Dated' /\ WeightsOfCurrentVersion' /\ CooldownUnlessOverlapped'
    BY <1>1, <1>2 DEF TrailInv, Dated, WeightsOfCurrentVersion, CooldownUnlessOverlapped,
                      Accepted, LastVersion, Numbers, Config
  <2>2. ASSUME NEW q \in Requests PROVE Recent(req[q])'
    <3>1. req[q] \in Request /\ Recent(req[q]) /\ MinDays \in Nat
      BY VersionsAssumption DEF TrailInv, LogInv, VersionsInv, TypeOK
    <3>2. CooldownOver(req[q].conf) => CooldownOver(req[q].conf)'
      BY <1>1, <1>2, <3>1 DEF CooldownOver, Request, Config
    <3> QED
      BY <1>2, <3>1, <3>2 DEF Recent, Reading, Deciding, Accepted, LastVersion, Numbers
  <2> QED
    BY <1>1, <2>1, <2>2 DEF TrailInv
<1>3. CASE UNCHANGED vars \/ Reschedule \/ LogReview \/ DayPasses
  BY <1>2, <1>3 DEF vars, Reschedule, LogReview, DayPasses
<1>4. ASSUME NEW r \in Requests, Optimize(r) \/ Rollback(r) \/ Serve(r) \/ Abort(r)
      PROVE  TrailInv'
  <2>1. CASE Optimize(r) \/ Rollback(r)
    BY <1>1, <2>1, TrailArrive, VersionsAssumption DEF Optimize, Rollback
  <2>2. CASE InsertConfig(r)
    BY <1>1, <2>2, TrailInsert
  <2>3. CASE Skip(r) \/ NoTarget(r) \/ Respond(r) \/ Abort(r)
    BY <1>1, <2>3, TrailEnd, TrailRespond DEF Skip, NoTarget, Abort, Answered
  <2>4. CASE Train(r)
    BY <1>1, <2>4, TrailTrain
  <2>5. CASE NumberVersion(r) \/ FlushAndNumber(r)
    BY <1>1, <2>5, TrailNumber
  <2>6. CASE PickTarget(r)
    BY <1>1, <2>6, TrailPick
  <2>7. CASE Save(r)
    <3>1. CASE Taken(req[r])
      BY <1>1, <2>7, <3>1, TrailEnd DEF Save, Answered
    <3>2. CASE ~Taken(req[r])
      BY <1>1, <2>7, <3>2, TrailSave
    <3> QED
      BY <3>1, <3>2
  <2> QED
    BY <1>4, <2>1, <2>2, <2>3, <2>4, <2>5, <2>6, <2>7 DEF Serve
<1> QED
  BY <1>3, <1>4 DEF Next

\* The weights in use are those of the current version, as long as no request
\* has written the config on top of one it had not read.
THEOREM WeightsCorrect == Spec => []WeightsOfCurrentVersion
<1>1. TrailInv => WeightsOfCurrentVersion
  BY DEF TrailInv
<1> QED
  BY <1>1, TrailInit, TrailStep, PTL DEF Spec

\* Two accepted trainings of which the later one had read the config after the
\* earlier one was saved are MinDays apart, whatever happens in between.
THEOREM CooldownCorrect == Spec => []CooldownUnlessOverlapped
<1>1. TrailInv => CooldownUnlessOverlapped
  BY DEF TrailInv
<1> QED
  BY <1>1, TrailInit, TrailStep, PTL DEF Spec

=============================================================================
