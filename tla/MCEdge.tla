------------------------------- MODULE MCEdge -------------------------------
(* The gateway and the auth service in one run: the tokens of a browser,   *)
(* the cached profile and the request limit.  The parts share no state     *)
(* here, so each behaviour moves the part it has chosen.                   *)
EXTENDS GatewayLimiter, TLC

CONSTANTS Requests, MaxPairs, MaxVersion

ASSUME EdgeAssumption ==
    IsFiniteSet(Requests) /\ MaxPairs \in Nat /\ MaxVersion \in Nat \ {0}

VARIABLES
    part,
    jar, revokedA, revokedR, origin, removed, tokenReq, raced, ended,
    row, edits, linked, profile, profileReq, tainted, overtaken, googleRefused

tokenState == <<jar, revokedA, revokedR, origin, removed, tokenReq, raced, ended>>
profileState == <<row, edits, linked, profile, profileReq, tainted, overtaken, googleRefused>>

A == INSTANCE AuthSession WITH req <- tokenReq

P == INSTANCE UserProfile WITH
       Clients <- Requests, req <- profileReq, refused <- googleRefused

EdgeInit ==
    /\ part \in {"session", "profile", "limit"}
    /\ A!Init /\ P!Init /\ Init

EdgeNext ==
    /\ UNCHANGED part
    /\ \/ part = "session" /\ A!Next /\ UNCHANGED <<profileState, vars>>
       \/ part = "profile" /\ P!Next /\ UNCHANGED <<tokenState, vars>>
       \/ part = "limit" /\ Next /\ UNCHANGED <<tokenState, profileState>>

EdgeSpec == EdgeInit /\ [][EdgeNext]_<<part, tokenState, profileState, vars>>

\* Requests differ in nothing but their name.
Symmetry == Permutations(Requests) \union Permutations(Clients)

\* The variables of the part that moves keep their types.
EdgeTypeOK ==
    /\ part = "session" => A!TypeOK
    /\ part = "profile" => P!TypeOK
    /\ part = "limit" => TypeOK

\* See AuthSession: a login has one refresh token that works, until its logout.
OneTokenPerLogin == part = "session" => A!OneTokenPerLogin

\* See AuthSession: only the race named there spends a refresh token twice.
NeverReused == A!NeverReused

\* See UserProfile: what the gateway tells the services of a user is current.
ProfileFresh == P!ProfileFresh

\* See UserProfile: neither an edit nor a way to log in gets lost.
AccountIsKept == P!NoLostEdit /\ P!GoogleLoginWorks
=============================================================================
