----------------------------- MODULE VersionLog -----------------------------
(* What the model versions of a user promise (fsrs-ai): a log of trained   *)
(* models, numbered by a counter, to which entries are only ever added.    *)
(* The model in use changes together with an entry that says so and is     *)
(* always one that was accepted.  ModelVersions implements it.             *)
EXTENDS Naturals

CONSTANT Weights    \* weight vectors a training may return

VARIABLES
    last,      \* the number given last
    log,       \* the entries
    version,   \* the version in use, 0 if none
    weights    \* the weights in use, 0 for the library's own

vars == <<last, log, version, weights>>

Init == last = 0 /\ log = {} /\ version = 0 /\ weights = 0

Add(w, status) ==
    /\ last' = last + 1
    /\ log' = log \cup {[version |-> last + 1, weights |-> w, status |-> status]}

Accept(w) == Add(w, "accepted") /\ version' = last + 1 /\ weights' = w

Reject(w) == Add(w, "rejected") /\ UNCHANGED <<version, weights>>

\* An accepted model is taken back into use; a rollback that overlaps another
\* request may restore one half only.
Rollback(e) ==
    /\ e.status = "accepted"
    /\ Add(e.weights, "rolled_back")
    /\ version' \in {version, e.version}
    /\ weights' \in {weights, e.weights}

Next ==
    \/ \E w \in Weights : Accept(w) \/ Reject(w)
    \/ \E e \in log : Rollback(e)

Spec == Init /\ [][Next]_vars
=============================================================================
