--------------------------- MODULE ModelVersions ---------------------------
(* Training, versioning and rollback of the FSRS weights of one user.      *)
(*                                                                         *)
(* POST /optimize and POST /optimize/rollback are transactions over the    *)
(* user's fsrs_config row and fsrs_model_version rows.  The config row is  *)
(* read at the start, without a lock, and written at the end.  Training    *)
(* itself runs on the event loop: nothing else of the service runs between *)
(* the policy gate and the query for the next version number.              *)
EXTENDS Naturals, FiniteSets, FiniteSetsExt

CONSTANTS
    Requests,   \* slots of the requests served at a time, each with a session
    Weights,    \* weight vectors a training may return, as positive integers
    Targets,    \* values of targetVersion in rollback requests, 0: not given
    MinLogs,    \* FSRS_TRAIN_MIN_VALID_LOGS
    MinDays,    \* FSRS_TRAIN_MIN_DAYS_SINCE_LAST
    MaxLogs,    \* bound: reviews logged
    MaxDay,     \* bound: days that pass
    MaxVersion  \* bound: no request arrives once there are so many versions

ASSUME VersionsAssumption ==
    /\ Weights \subseteq Nat \ {0}
    /\ Targets \subseteq Nat
    /\ {MinLogs, MinDays, MaxLogs, MaxDay, MaxVersion} \subseteq Nat

VARIABLES
    cfg,      \* the committed fsrs_config row
    rows,     \* the committed fsrs_model_version rows
    nlogs,    \* how many valid review logs are committed
    day,      \* today
    req,      \* req[r]: the session and the program counter of request r
    applied,  \* the weights of the last reschedule of the cards
    mixed     \* history: cfg was written by a request that had read another cfg

vars == <<cfg, rows, nlogs, day, req, applied, mixed>>

\* weights = 0 is the empty list: the library's defaults are used.
\* trained = 0 is a null last_trained_at.
Config == [exists : BOOLEAN, weights : Nat, version : Nat, trained : Nat]

NoConfig      == [exists |-> FALSE, weights |-> 0, version |-> 0, trained |-> 0]
DefaultConfig == [NoConfig EXCEPT !.exists = TRUE]

Statuses == {"accepted", "rejected", "rolled_back"}

\* base is a history field: the last version at the time the request that
\* wrote the row had read its config.
Version == [version : Nat, weights : Nat, status : Statuses, day : Nat, base : Nat]

Open     == {"inserting", "loaded", "trained", "numbered", "saved"}
Answered == {"idle", "success", "rejected", "skipped", "not_found", "error", "failed"}
PCs      == Open \cup Answered

Request ==
    [pc       : PCs,
     kind     : {"optimize", "rollback"},
     target   : Nat,       \* targetVersion
     fresh    : BOOLEAN,   \* the session has inserted the config row
     writing  : BOOLEAN,   \* the session has flushed an UPDATE of it
     conf     : Config,    \* the config as it was loaded
     new      : Config,    \* the session's object
     accepted : BOOLEAN,
     weights  : Nat,       \* of the version row to be written
     number   : Nat,       \* and its version
     base     : Nat]

Closed ==
    [pc |-> "idle", kind |-> "optimize", target |-> 0, fresh |-> FALSE,
     writing |-> FALSE, conf |-> NoConfig, new |-> NoConfig,
     accepted |-> FALSE, weights |-> 0, number |-> 0, base |-> 0]

Init ==
    /\ cfg = NoConfig
    /\ rows = {}
    /\ nlogs = 0
    /\ day = 1
    /\ req = [r \in Requests |-> Closed]
    /\ applied = 0
    /\ mixed = FALSE

-----------------------------------------------------------------------------
Numbers == {v.version : v \in rows}

LastVersion == IF rows = {} THEN 0 ELSE Max(Numbers)

NextModelVersion == LastVersion + 1

\* The session ends: its locks are released and its objects dropped.
Ended(pc) == [Closed EXCEPT !.pc = pc]

End(r, pc) ==
    /\ req' = [req EXCEPT ![r] = Ended(pc)]
    /\ UNCHANGED <<cfg, rows, nlogs, day, applied, mixed>>

Goto(r, s) ==
    /\ req' = [req EXCEPT ![r] = s]
    /\ UNCHANGED <<cfg, rows, nlogs, day, applied, mixed>>

\* The config row is locked by the session that has inserted or updated it.
ConfigFree(r) == \A q \in Requests \ {r} : ~req[q].fresh /\ ~req[q].writing

Loaded(s, conf) == [s EXCEPT !.pc = "loaded", !.conf = conf, !.new = conf,
                             !.base = LastVersion]

\* The request arrives and SELECTs the config.
Arrive(r, kind, target) ==
    /\ req[r].pc \in Answered
    /\ LastVersion < MaxVersion
    /\ LET s == [Closed EXCEPT !.kind = kind, !.target = target]
       IN  Goto(r, IF cfg.exists THEN Loaded(s, cfg)
                   ELSE [s EXCEPT !.pc = "inserting"])

Optimize(r) == Arrive(r, "optimize", 0)
Rollback(r) == \E t \in Targets : Arrive(r, "rollback", t)

\* There was none: INSERT one and flush.  The insert waits for another one
\* of the same key, and fails if that was committed.
InsertConfig(r) ==
    /\ req[r].pc = "inserting"
    /\ ConfigFree(r)
    /\ IF cfg.exists
       THEN End(r, "failed")
       ELSE Goto(r, [Loaded(req[r], DefaultConfig) EXCEPT !.fresh = TRUE])

-----------------------------------------------------------------------------
(* Optimise.                                                               *)

CooldownOver(conf) == conf.trained = 0 \/ day - conf.trained >= MinDays

\* Variant: the cooldown is not looked at.
MayTrain_AnyTime(conf) == nlogs >= MinLogs

MayTrain(conf) == nlogs >= MinLogs /\ CooldownOver(conf)

\* The policy gate refuses; a config the session inserted is not committed.
Skip(r) ==
    /\ req[r].pc = "loaded"
    /\ req[r].kind = "optimize"
    /\ ~MayTrain(req[r].conf)
    /\ End(r, "skipped")

\* The candidate is accepted when it improves enough on the weights in the
\* session's config, which the same weights never do.
Train(r) ==
    /\ req[r].pc = "loaded"
    /\ req[r].kind = "optimize"
    /\ MayTrain(req[r].conf)
    /\ \E w \in Weights, ok \in BOOLEAN :
         /\ ok => w # req[r].conf.weights
         /\ Goto(r, [req[r] EXCEPT !.pc = "trained", !.accepted = ok,
                                   !.weights = w])

\* Variant: a rejected candidate is put into the config as well.
Trained_Always(s) ==
    [s.new EXCEPT !.weights = s.weights, !.version = s.number, !.trained = day]

\* The session's config after the outcome is known.
Trained(s) ==
    IF s.accepted
    THEN [s.new EXCEPT !.weights = s.weights, !.version = s.number,
                       !.trained = day]
    ELSE s.new

NumberVersion(r) ==
    /\ req[r].pc = "trained"
    /\ req[r].kind = "optimize"
    /\ Goto(r, [req[r] EXCEPT !.pc = "numbered", !.number = NextModelVersion])

-----------------------------------------------------------------------------
(* Rollback.                                                               *)

\* Variant: every version row is eligible.
Eligible_AnyStatus(s) ==
    {v \in rows : IF s.target # 0 THEN v.version = s.target
                  ELSE v.version < s.conf.version}

Eligible(s) ==
    {v \in rows : /\ v.status = "accepted"
                  /\ IF s.target # 0 THEN v.version = s.target
                     ELSE v.version < s.conf.version}

NoTarget(r) ==
    /\ req[r].pc = "loaded"
    /\ req[r].kind = "rollback"
    /\ Eligible(req[r]) = {}
    /\ End(r, "not_found")

\* Variant: the weights are restored and the version number is left.
Restored_WeightsOnly(conf, v) == [conf EXCEPT !.weights = v.weights]

Restored(conf, v) == [conf EXCEPT !.weights = v.weights, !.version = v.version]

\* The target is found and the session's config set to it.
PickTarget(r) ==
    /\ req[r].pc = "loaded"
    /\ req[r].kind = "rollback"
    /\ \E v \in Eligible(req[r]) :
         /\ \A u \in Eligible(req[r]) : u.version <= v.version
         /\ Goto(r, [req[r] EXCEPT !.pc = "trained",
                                   !.new = Restored(req[r].conf, v),
                                   !.weights = v.weights])

\* The query for the next version flushes the changed config before it runs.
FlushAndNumber(r) ==
    /\ req[r].pc = "trained"
    /\ req[r].kind = "rollback"
    /\ ConfigFree(r)
    /\ Goto(r, [req[r] EXCEPT !.pc = "numbered", !.writing = TRUE,
                              !.number = NextModelVersion])

-----------------------------------------------------------------------------
(* Commit.                                                                 *)

\* An UPDATE sets the columns whose value is not the loaded one.
Written(cur, seen, new) ==
    [exists  |-> TRUE,
     weights |-> IF new.weights # seen.weights THEN new.weights ELSE cur.weights,
     version |-> IF new.version # seen.version THEN new.version ELSE cur.version,
     trained |-> IF new.trained # seen.trained THEN new.trained ELSE cur.trained]

Object(s) == IF s.kind = "optimize" THEN Trained(s) ELSE s.new

\* Variant: the row gets the status word of the response.
Row_ResponseStatus(s) ==
    [version |-> s.number, weights |-> s.weights, day |-> day, base |-> s.base,
     status  |-> IF s.kind = "rollback" \/ s.accepted THEN "success" ELSE "rejected"]

Row(s) ==
    [version |-> s.number, weights |-> s.weights, day |-> day, base |-> s.base,
     status  |-> IF s.kind = "rollback" THEN "rolled_back"
                 ELSE IF s.accepted THEN "accepted" ELSE "rejected"]

\* Variant: there is no uq_fsrs_model_user_version.
Taken_Never(s) == FALSE

Taken(s) == s.number \in Numbers

WritesConfig(s) == s.fresh \/ s.kind = "rollback" \/ s.accepted

\* INSERT the version row, UPDATE the config where it changed, COMMIT.
Save(r) ==
    /\ req[r].pc = "numbered"
    /\ WritesConfig(req[r]) => ConfigFree(r)
    /\ LET s == req[r]
       IN  IF Taken(s)
           THEN End(r, "failed")
           ELSE /\ rows' = rows \cup {Row(s)}
                /\ cfg' = IF WritesConfig(s)
                          THEN Written(cfg, s.conf, Object(s)) ELSE cfg
                /\ mixed' = (mixed \/ (WritesConfig(s) /\ cfg.exists /\ cfg # s.conf))
                /\ req' = [req EXCEPT ![r] =
                             [Ended("saved") EXCEPT !.kind = s.kind,
                                                    !.accepted = s.accepted]]
                /\ UNCHANGED <<nlogs, day, applied>>

\* The fields of Settings that the router's condition could name.
SettingsFields == {"FSRS_TRAIN_MIN_VALID_LOGS", "FSRS_TRAIN_MIN_DAYS_SINCE_LAST",
                   "FSRS_TRAIN_MIN_IMPROVEMENT_PCT", "FSRS_TRAIN_METRIC",
                   "FSRS_RESCHEDULE_MAX_SHIFT_RATIO"}

\* The flag of the background reschedule is on.
Scheduled == "FSRS_ASYNC_RESCHEDULE_ENABLED" \in SettingsFields

\* The router looks at the flag only if the result is accepted; reading a field
\* that Settings lacks raises.  The task that would be queued runs after the
\* answer, in a session of its own, and reschedules with the weights it finds.
Respond(r) ==
    /\ req[r].pc = "saved"
    /\ req' = [req EXCEPT ![r] =
                 Ended(CASE req[r].kind = "rollback" -> "success"
                         [] ~req[r].accepted         -> "rejected"
                         [] Scheduled                -> "success"
                         [] OTHER                    -> "error")]
    /\ applied' = IF req[r].accepted /\ Scheduled THEN cfg.weights ELSE applied
    /\ UNCHANGED <<cfg, rows, nlogs, day, mixed>>

\* A statement fails, the client goes away or the service restarts.
Abort(r) ==
    /\ req[r].pc \in Open
    /\ End(r, "failed")

-----------------------------------------------------------------------------
(* Around the two endpoints.                                               *)

\* POST /helper/reschedule, the only caller of reschedule_cards that runs.
Reschedule ==
    /\ cfg.weights # 0
    /\ applied' = cfg.weights
    /\ UNCHANGED <<cfg, rows, nlogs, day, req, mixed>>

LogReview ==
    /\ nlogs < MaxLogs
    /\ nlogs' = nlogs + 1
    /\ UNCHANGED <<cfg, rows, day, req, applied, mixed>>

DayPasses ==
    /\ day < MaxDay
    /\ day' = day + 1
    /\ UNCHANGED <<cfg, rows, nlogs, req, applied, mixed>>

Serve(r) ==
    \/ InsertConfig(r)
    \/ Skip(r) \/ Train(r) \/ NumberVersion(r)
    \/ NoTarget(r) \/ PickTarget(r) \/ FlushAndNumber(r)
    \/ Save(r) \/ Respond(r)

Next ==
    \/ \E r \in Requests : Optimize(r) \/ Rollback(r) \/ Serve(r) \/ Abort(r)
    \/ Reschedule \/ LogReview \/ DayPasses

\* The service keeps serving what it has begun; no client has to call.
Spec == Init /\ [][Next]_vars /\ \A r \in Requests : WF_vars(Serve(r))
-----------------------------------------------------------------------------
(* Properties.                                                             *)

TypeOK ==
    /\ cfg \in Config
    /\ rows \subseteq Version
    /\ nlogs \in Nat
    /\ day \in Nat
    /\ req \in [Requests -> Request]
    /\ applied \in Nat
    /\ mixed \in BOOLEAN

\* The version numbers are 1, 2, 3, ... without a gap or a repetition, though
\* every request computes its number from a maximum read before it writes.
VersionsDense == Numbers = 1..Cardinality(rows)

Accepted == {v \in rows : v.status = "accepted"}

\* What the config holds was at some time accepted: no request, however it
\* overlaps with others or fails, makes a rejected model the current one.
CurrentWasAccepted ==
    /\ cfg.version # 0 => cfg.version \in {v.version : v \in Accepted}
    /\ cfg.weights # 0 => cfg.weights \in {v.weights : v \in Accepted}

\* The weights in use are those of the version said to be current, unless a
\* request has written the config on top of one it had not read.
WeightsOfCurrentVersion ==
    ~mixed => \A v \in rows : v.version = cfg.version => v.weights = cfg.weights

\* Two accepted trainings are MinDays apart unless they overlapped: the later
\* one had read the config before the earlier one committed.
CooldownUnlessOverlapped ==
    \A u, v \in Accepted :
        u.version <= v.base => v.day - u.day >= MinDays

\* The rows, without what is history, and the model in use behave as the log
\* of VersionLog: every step of a request either adds one whole entry, numbered
\* next though the number comes from a maximum read before the write, or
\* changes neither rows nor model, so that a request ended before its commit
\* leaves nothing behind and one ended after it (as by Respond) no half; and
\* the model in use changes only together with the row that records it.
Entries == {[version |-> v.version, weights |-> v.weights, status |-> v.status] : v \in rows}

Log == INSTANCE VersionLog WITH
         last <- LastVersion, log <- Entries,
         version <- cfg.version, weights <- cfg.weights

ImplementsLog == Log!Spec

\* "Rollback current model to a previous accepted version": the same, of every
\* interleaving.
CurrentVersionNamesWeights ==
    \A v \in rows : v.version = cfg.version => v.weights = cfg.weights

\* README: a "cooldown (days) between 2 accepted optimize runs".
CooldownBetweenAccepted ==
    \A u, v \in Accepted : u.version < v.version => v.day - u.day >= MinDays

\* SPEC 2.3: "Run reschedule async after accepted model": once an accepted
\* candidate is saved, the cards come to be rescheduled with its weights,
\* unless they are replaced before or the request is cut off.
AcceptedIsRescheduled ==
    \A r \in Requests, w \in Weights :
        (req[r].pc = "saved" /\ req[r].accepted /\ cfg.weights = w)
            ~> (applied = w \/ cfg.weights # w \/ req[r].pc = "failed")

=============================================================================
