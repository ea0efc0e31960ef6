---------------------------- MODULE AuthSession ----------------------------
(***************************************************************************)
(* The token life cycle of one user in one browser, across the gateway     *)
(* (src/gateway/src/proxy/gateway-proxy.service.ts) and the auth service   *)
(* (src/auth/src/modules/auth).  Login mints a pair of an access and a     *)
(* refresh token; refresh blacklists the pair it was given and mints the   *)
(* next one; logout blacklists both.  The pairs live in the browser's      *)
(* cookie jar and only reach it with an answer, so several tabs, lost      *)
(* answers and crashes interleave.  What the same handlers do to the       *)
(* user's row and cached profile is modelled by UserProfile.               *)
(***************************************************************************)
EXTENDS Naturals, Sequences, FiniteSets

CONSTANTS
    Requests, \* request slots: how many requests are in flight at once
    MaxPairs  \* bound: token pairs ever minted

VARIABLES
    jar,      \* the browser's cookies: the pair each of them belongs to, or 0
    revokedA, \* blacklisted access tokens (TOKEN_BLACKLIST_* in Redis)
    revokedR, \* blacklisted refresh tokens
    origin,   \* history: origin[n]: the pair whose refresh token minted pair n, 0 at a
              \* login, and the login it descends from
    removed,  \* an administrator removed the user
    req,      \* the requests in flight
    raced,    \* history: pairs two requests were spending at the same time
    ended     \* history: pairs whose refresh token a logout that answered carried

vars == <<jar, revokedA, revokedR, origin, removed, req, raced, ended>>

Pairs == 1..MaxPairs
Minted == DOMAIN origin
NoJar == [access |-> 0, refresh |-> 0]
Idle == [op |-> "none", pc |-> "idle", cookies |-> NoJar, pair |-> 0]
Ops == {"login", "refresh", "logout"}
Minters == {"login", "refresh"}
Spenders == {"refresh", "logout"}

Init ==
    /\ jar = NoJar
    /\ revokedA = {} /\ revokedR = {}
    /\ origin = <<>> /\ removed = FALSE
    /\ req = [r \in Requests |-> Idle]
    /\ raced = {} /\ ended = {}

Goto(r, pc) == req' = [req EXCEPT ![r].pc = pc]

\* The answer is on its way, with the cookies of a pair or clearing them.
Answer(r, pair) ==
    req' = [req EXCEPT ![r] = [op |-> @.op, pc |-> "answered", cookies |-> NoJar, pair |-> pair]]

\* A request is answered without cookies: an error.
Drop(r) == req' = [req EXCEPT ![r] = Idle]

-----------------------------------------------------------------------------
(* The browser *)

\* Requests that may still mint a pair keep below the bound; a refresh with
\* a revoked token mints nothing and is never held back.
MayMint(op) ==
    op \in Minters /\ (op = "refresh" => jar.refresh \notin revokedR) =>
        Len(origin) + Cardinality({r \in Requests :
            req[r].op \in Minters /\ req[r].pc # "answered"}) < MaxPairs

Send(r, op) ==
    /\ req[r] = Idle
    /\ MayMint(op)
    /\ op = "refresh" => jar.refresh # 0
    /\ req' = [req EXCEPT ![r] = [op |-> op, pc |-> "sent", pair |-> 0,
                   cookies |-> IF op = "login" THEN NoJar ELSE jar]]
    /\ UNCHANGED <<jar, revokedA, revokedR, origin, removed, raced, ended>>

\* setTokenCookies, clearTokenCookies: both cookies are replaced or removed.
Deliver(r) ==
    /\ req[r].pc = "answered"
    /\ jar' = [access |-> req[r].pair, refresh |-> req[r].pair]
    /\ Drop(r)
    /\ UNCHANGED <<revokedA, revokedR, origin, removed, raced, ended>>

\* The access cookie's maxAge is the life time of its token: the browser drops
\* it, and a request that carries it and was not verified yet is refused.
ExpireAccess(n) ==
    LET Aged(c) == IF c.access = n THEN [c EXCEPT !.access = 0] ELSE c IN
    /\ n = jar.access \/ \E r \in Requests : req[r].pc = "sent" /\ req[r].cookies.access = n
    /\ jar' = Aged(jar)
    /\ req' = [r \in Requests |-> IF req[r].pc = "sent"
                  THEN [req[r] EXCEPT !.cookies = Aged(@)] ELSE req[r]]
    /\ UNCHANGED <<revokedA, revokedR, origin, removed, raced, ended>>

-----------------------------------------------------------------------------
(* Guards *)

\* The gateway's verifyAccessToken: present, not expired, not blacklisted.
VerifyAccessToken(c) == c.access # 0 /\ c.access \notin revokedA

\* Variant: the refresh strategy does not look at the blacklist.
ValidateRefresh_Unchecked(c) == c.refresh # 0

\* JwtRefreshStrategy.validate
ValidateRefresh(c) == c.refresh # 0 /\ c.refresh \notin revokedR

\* A 401 on POST /auth/refresh: the gateway adds the clearing cookies.
Unauthorized(r) ==
    IF req[r].op = "refresh" THEN Answer(r, 0) ELSE Drop(r)

\* The gateway's handle: only logout, of the three, is not a public route.
Handle(r) ==
    IF req[r].op = "refresh" THEN ValidateRefresh(req[r].cookies)
                             ELSE VerifyAccessToken(req[r].cookies)

\* The refresh token that another request past its guard is spending as well.
Races(r) == {req[o].cookies.refresh : o \in {o \in Requests \ {r} :
                /\ req[o].op \in Spenders /\ req[o].pc \in {"admitted", "found"}
                /\ req[o].cookies.refresh = req[r].cookies.refresh}} \ {0}

Admit(r) ==
    /\ req[r].op \in Spenders /\ req[r].pc = "sent"
    /\ IF Handle(r)
       THEN Goto(r, "admitted") /\ raced' = raced \union Races(r)
       ELSE Unauthorized(r) /\ UNCHANGED raced
    /\ UNCHANGED <<jar, revokedA, revokedR, origin, removed, ended>>

-----------------------------------------------------------------------------
(* Handlers *)

\* refreshTokens reads the user's row; a missing user is a 401.
FindUser(r) ==
    /\ req[r].op = "refresh" /\ req[r].pc = "admitted"
    /\ IF removed THEN Unauthorized(r) ELSE Goto(r, "found")
    /\ UNCHANGED <<jar, revokedA, revokedR, origin, removed, raced, ended>>

\* generateTokens
GenerateTokens(r, from) ==
    /\ origin' = Append(origin, [from |-> from,
                    login |-> IF from = 0 THEN Len(origin) + 1 ELSE origin[from].login])
    /\ Answer(r, Len(origin'))

\* Refused when the row is gone, before or after the password is compared.
Login(r) ==
    /\ req[r].op = "login" /\ req[r].pc = "sent"
    /\ IF removed THEN Drop(r) /\ UNCHANGED origin ELSE GenerateTokens(r, 0)
    /\ UNCHANGED <<jar, revokedA, revokedR, removed, raced, ended>>

\* Variant: a missing cookie is blacklisted as well.
Revoke_Missing(c) ==
    revokedA' = revokedA \union {c.access} /\ revokedR' = revokedR \union {c.refresh}

\* Variant: the old refresh token is not blacklisted.
Revoke_AccessOnly(c) ==
    revokedA' = revokedA \union ({c.access} \ {0}) /\ UNCHANGED revokedR

Revoke(c) ==
    /\ revokedA' = revokedA \union ({c.access} \ {0})
    /\ revokedR' = revokedR \union ({c.refresh} \ {0})

RefreshTokens(r) ==
    /\ req[r].op = "refresh" /\ req[r].pc = "found"
    /\ Revoke(req[r].cookies)
    /\ GenerateTokens(r, req[r].cookies.refresh)
    /\ UNCHANGED <<jar, removed, raced, ended>>

Logout(r) ==
    /\ req[r].op = "logout" /\ req[r].pc = "admitted"
    /\ Revoke(req[r].cookies)
    /\ Answer(r, 0)
    /\ ended' = ended \union ({req[r].cookies.refresh} \ {0})
    /\ UNCHANGED <<jar, origin, removed, raced>>

\* Promise.all rejects when one of the two writes fails: the other may have
\* been made, and the request ends with a 500.
RevokeFails(r) ==
    /\ \/ req[r].op = "refresh" /\ req[r].pc = "found"
       \/ req[r].op = "logout" /\ req[r].pc = "admitted"
    /\ \/ revokedA' = revokedA \union ({req[r].cookies.access} \ {0}) /\ UNCHANGED revokedR
       \/ revokedR' = revokedR \union ({req[r].cookies.refresh} \ {0}) /\ UNCHANGED revokedA
    /\ Drop(r)
    /\ UNCHANGED <<jar, origin, removed, raced, ended>>

\* An exception, a restart of a service or an answer that gets lost.
Fail(r) ==
    /\ req[r] # Idle
    /\ Drop(r)
    /\ UNCHANGED <<jar, revokedA, revokedR, origin, removed, raced, ended>>

\* DELETE /users/:id does not touch the tokens.
Remove ==
    /\ ~removed /\ removed' = TRUE
    /\ UNCHANGED <<jar, revokedA, revokedR, origin, req, raced, ended>>

-----------------------------------------------------------------------------
Step(r) ==
    Admit(r) \/ FindUser(r) \/ Login(r) \/ RefreshTokens(r) \/ Logout(r) \/ Deliver(r)

Next ==
    \/ \E r \in Requests :
         \/ \E op \in Ops : Send(r, op)
         \/ Step(r) \/ RevokeFails(r) \/ Fail(r)
    \/ \E n \in Pairs : ExpireAccess(n)
    \/ Remove

Spec == Init /\ [][Next]_vars

-----------------------------------------------------------------------------
(* Properties *)

TypeOK ==
    /\ jar \in [access : 0..MaxPairs, refresh : 0..MaxPairs]
    /\ revokedA \subseteq Pairs /\ revokedR \subseteq Pairs
    /\ Len(origin) <= MaxPairs
    /\ \A n \in Minted : origin[n].from \in 0..(n - 1) /\ origin[n].login \in 1..n
    /\ removed \in BOOLEAN
    /\ req \in [Requests -> [op : Ops \union {"none"},
                  pc : {"idle", "sent", "admitted", "found", "answered"},
                  cookies : [access : 0..MaxPairs, refresh : 0..MaxPairs],
                  pair : 0..MaxPairs]]
    /\ raced \subseteq Pairs /\ ended \subseteq Pairs

\* The refresh tokens of a login that work.
Live(l) == {n \in Minted \ revokedR : origin[n].login = l}

\* However answers are lost, repeated or reordered, one login keeps at most one
\* refresh token that works, and none once a logout with a token of it was
\* answered - unless two requests spent one of its tokens at the same time,
\* which the find-then-blacklist of refreshTokens lets through.
OneTokenPerLogin ==
    \A l \in Minted : (\A t \in raced : origin[t].login # l) =>
        /\ \A m, n \in Live(l) : m = n
        /\ (\E t \in ended : origin[t].login = l) => Live(l) = {}

\* Nothing revives a token: a pair is minted from a blacklisted refresh token
\* only while that token was being spent twice at the same time.
NeverReused ==
    [][Len(origin') > Len(origin) /\ origin'[Len(origin')].from \in revokedR
         => origin'[Len(origin')].from \in raced]_vars

=============================================================================
