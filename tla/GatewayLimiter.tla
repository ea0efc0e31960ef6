--------------------------- MODULE GatewayLimiter ---------------------------
(***************************************************************************)
(* What the gateway (src/gateway/src/proxy/gateway-proxy.service.ts) does  *)
(* with the requests of one address before it forwards them: the address   *)
(* blacklist, and a counter per time window in Redis that is increased and *)
(* given its life time in two calls.  Errors of Redis let a request pass.  *)
(***************************************************************************)
EXTENDS Naturals, FiniteSets

CONSTANTS
    Clients,     \* request slots
    RateLimitMax,
    MaxWindow    \* bound: the last time window

ASSUME LimiterAssumption ==
    IsFiniteSet(Clients) /\ RateLimitMax \in Nat /\ MaxWindow \in Nat

VARIABLES
    now,       \* the current window
    count,     \* per window: the value of its key, 0 without a key
    expiring,  \* windows whose key has a life time
    req,       \* the requests in the gateway
    forwarded, \* per window: requests passed on to an upstream
    refused,   \* per window: requests answered with 429
    disturbed  \* history: windows with an error of Redis or a late increment

vars == <<now, count, expiring, req, forwarded, refused, disturbed>>

Windows == 0..MaxWindow
Idle == [pc |-> "idle", window |-> 0, value |-> 0]

Init ==
    /\ now = 0
    /\ count = [w \in Windows |-> 0] /\ expiring = {}
    /\ req = [c \in Clients |-> Idle]
    /\ forwarded = [w \in Windows |-> 0] /\ refused = [w \in Windows |-> 0]
    /\ disturbed = {}

\* The histories tell numbers apart up to one more than the limit.
Counted(n) == IF n > RateLimitMax THEN n ELSE n + 1

Leave(c) == req' = [req EXCEPT ![c] = Idle]

\* A blocked address gets its 403 here; an error of the check lets it go on.
\* Bound: arrivals stop two past the limit of their window.
Arrive(c) ==
    /\ req[c] = Idle
    /\ count[now] <= RateLimitMax + 1
    /\ req' = [req EXCEPT ![c] = [Idle EXCEPT !.pc = "counting", !.window = now]]
    /\ UNCHANGED <<now, count, expiring, forwarded, refused, disturbed>>

\* Requests of the window have been counted already.
Started(w) ==
    \/ forwarded[w] > 0 \/ refused[w] > 0
    \/ \E c \in Clients : req[c].window = w /\ req[c].pc \in {"expiring", "counted"}

\* INCR: a key that is gone starts again at one.
Increment(c) ==
    LET w == req[c].window IN
    /\ req[c].pc = "counting"
    /\ count' = [count EXCEPT ![w] = @ + 1]
    /\ req' = [req EXCEPT ![c].value = count'[w],
                          ![c].pc = IF count'[w] = 1 THEN "expiring" ELSE "counted"]
    /\ disturbed' = IF count'[w] = 1 /\ Started(w) THEN disturbed \union {w} ELSE disturbed
    /\ UNCHANGED <<now, expiring, forwarded, refused>>

\* EXPIRE, by the request that created the key only.
Expire(c) ==
    /\ req[c].pc = "expiring"
    /\ expiring' = expiring \union {req[c].window}
    /\ req' = [req EXCEPT ![c].pc = "counted"]
    /\ UNCHANGED <<now, count, forwarded, refused, disturbed>>

\* isRateLimited catches the error of either call: the request is not limited.
RedisError(c) ==
    /\ req[c].pc \in {"counting", "expiring"}
    /\ disturbed' = disturbed \union {req[c].window}
    /\ req' = [req EXCEPT ![c].pc = "counted", ![c].value = 0]
    /\ UNCHANGED <<now, count, expiring, forwarded, refused>>

\* Variant: the request that reaches the limit is refused already.
IsRateLimited_Inclusive(n) == n >= RateLimitMax

IsRateLimited(n) == n > RateLimitMax

Handle(c) ==
    LET w == req[c].window IN
    /\ req[c].pc = "counted"
    /\ IF IsRateLimited(req[c].value)
       THEN refused' = [refused EXCEPT ![w] = Counted(@)] /\ UNCHANGED forwarded
       ELSE forwarded' = [forwarded EXCEPT ![w] = Counted(@)] /\ UNCHANGED refused
    /\ Leave(c)
    /\ UNCHANGED <<now, count, expiring, disturbed>>

\* The gateway restarts between the two calls: the key stays without life time.
Crash(c) ==
    /\ req[c].pc \in {"counting", "expiring"}
    /\ Leave(c)
    /\ disturbed' = disturbed \union {req[c].window}
    /\ UNCHANGED <<now, count, expiring, forwarded, refused>>

\* A key lives a window and a second: it outlives its window.
Tick ==
    /\ now < MaxWindow
    /\ now' = now + 1
    /\ UNCHANGED <<count, expiring, req, forwarded, refused, disturbed>>

KeyExpires(w) ==
    /\ w \in expiring /\ w < now
    /\ expiring' = expiring \ {w}
    /\ count' = [count EXCEPT ![w] = 0]
    /\ UNCHANGED <<now, req, forwarded, refused, disturbed>>

Next ==
    \/ \E c \in Clients :
         Arrive(c) \/ Increment(c) \/ Expire(c) \/ RedisError(c) \/ Handle(c) \/ Crash(c)
    \/ Tick
    \/ \E w \in Windows : KeyExpires(w)

Spec == Init /\ [][Next]_vars

-----------------------------------------------------------------------------
(* Properties *)

Bound == RateLimitMax + 1 + Cardinality(Clients)

TypeOK ==
    /\ now \in Windows /\ expiring \subseteq Windows /\ disturbed \subseteq Windows
    /\ count \in [Windows -> 0..Bound]
    /\ req \in [Clients -> [pc : {"idle", "counting", "expiring", "counted"},
                            window : Windows, value : 0..Bound]]
    /\ forwarded \in [Windows -> 0..(RateLimitMax + 1)]
    /\ refused \in [Windows -> 0..(RateLimitMax + 1)]

\* A window lets through exactly as many requests as it may, in whatever order
\* the counted ones are handled and windows end, and a key that is counted has
\* a life time or is about to get one - unless Redis failed, the gateway
\* restarted, or a late request was counted after the key was gone.
LimitIsExact ==
    \A w \in Windows \ disturbed :
        LET Pending == {c \in Clients : req[c].window = w
                          /\ req[c].pc \in {"expiring", "counted"}} IN
        /\ forwarded[w] <= RateLimitMax
        /\ refused[w] > 0 => forwarded[w] + Cardinality(Pending) >= RateLimitMax
        /\ count[w] > 0 => w \in expiring \/ \E c \in Pending : req[c].pc = "expiring"

=============================================================================
