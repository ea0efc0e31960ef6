--------------------------- MODULE ReviewHistory ---------------------------
(* What the review log of a user promises (fsrs-ai): a history to which a  *)
(* bulk review adds all of its items at once - each to the word it names,  *)
(* with its grade, stamped in the order of the body - or, if it fails      *)
(* before that, none, and to which nothing else adds or takes away.  Only  *)
(* then is it answered; the answer may still get lost.  FsrsCards          *)
(* implements it.                                                          *)
EXTENDS Naturals, Sequences

CONSTANTS
    Words,
    Requests,
    Bodies      \* the items of a bulk review

VARIABLES
    logs,       \* logs[w]: the reviews of w
    clock,      \* later than every stamp given so far
    asked       \* per request: where it is, and the items it is to log

vars == <<logs, clock, asked>>

Init ==
    /\ logs  = [w \in Words |-> {}]
    /\ clock = 1
    /\ asked = [r \in Requests |-> [pc |-> "idle", body |-> <<>>]]

\* A request that writes cards arrives; one that reviews nothing logs nothing.
Ask(r) ==
    /\ asked[r].pc = "idle"
    /\ \E body \in Bodies \cup {<<>>} :
         asked' = [asked EXCEPT ![r] = [pc |-> "run", body |-> body]]
    /\ UNCHANGED <<logs, clock>>

\* A review is given its stamp.
Stamp ==
    /\ clock' = clock + 1
    /\ UNCHANGED <<logs, asked>>

Rows(r, stamp, w) ==
    LET body == asked[r].body IN
    {[by |-> r, at |-> stamp[i], again |-> body[i].again] :
        i \in {j \in 1..Len(body) : body[j].word = w}}

\* The whole batch becomes part of the history.
Enter(r) ==
    /\ asked[r].pc = "run"
    /\ asked' = [asked EXCEPT ![r].pc = "committed"]
    /\ \E stamp \in [1..Len(asked[r].body) -> 1..(clock - 1)] :
         /\ \A i, j \in DOMAIN stamp : i < j => stamp[i] < stamp[j]
         /\ logs' = [w \in Words |-> logs[w] \cup Rows(r, stamp, w)]
    /\ UNCHANGED clock

Answer(r) ==
    /\ asked[r].pc = "committed"
    /\ asked' = [asked EXCEPT ![r].pc = "done"]
    /\ UNCHANGED <<logs, clock>>

\* Before the batch has entered the history, or after.
Fail(r) ==
    /\ asked[r].pc \in {"run", "committed"}
    /\ asked' = [asked EXCEPT ![r].pc = "failed"]
    /\ UNCHANGED <<logs, clock>>

Next ==
    Stamp \/ \E r \in Requests : Ask(r) \/ Enter(r) \/ Answer(r) \/ Fail(r)

Spec == Init /\ [][Next]_vars
=============================================================================
