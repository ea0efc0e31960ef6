----------------------------- MODULE EdgeProofs ------------------------------
(* What the edge promises, for any number of clients and requests: the      *)
(* limit of the gateway, the tokens of a browser and the cached profile.    *)
EXTENDS MCEdge, Sequences, FiniteSetTheorems, TLAPS

(***************************************************************************)
(* The request limit.  Through w went, or will go, those requests    *)
(* that were forwarded and those that wait with a number within the limit: *)
(* together as many as the counter says, up to the limit (Exact).  The     *)
(* counter of a window whose key is gone says nothing, but then nobody is  *)
(* counted any more without the window being disturbed.                    *)
(***************************************************************************)

Typed ==
    /\ now \in Windows /\ expiring \subseteq Windows /\ disturbed \subseteq Windows
    /\ count \in [Windows -> Nat]
    /\ req \in [Clients -> [pc : {"idle", "counting", "expiring", "counted"},
                            window : Windows, value : Nat]]
    /\ forwarded \in [Windows -> Nat] /\ refused \in [Windows -> Nat]

Pending(w) == {c \in Clients : req[c].window = w /\ req[c].pc \in {"expiring", "counted"}}
Passing(w) == {c \in Pending(w) : req[c].value <= RateLimitMax}
Through(w) == forwarded[w] + Cardinality(Passing(w))
AtMost(n)  == IF n > RateLimitMax THEN RateLimitMax ELSE n

Exact(w) ==
    /\ Through(w) <= RateLimitMax
    /\ count[w] > 0 => Through(w) = AtMost(count[w])
    /\ refused[w] > 0 => Through(w) = RateLimitMax
    /\ \A c \in Pending(w) : req[c].value > RateLimitMax => Through(w) = RateLimitMax
    /\ count[w] > 0 => w \in expiring \/ \E c \in Pending(w) : req[c].pc = "expiring"
    /\ \A c \in Pending(w) : req[c].pc = "expiring" => req[c].value = 1

LimiterInv == Typed /\ \A w \in Windows \ disturbed : Exact(w)

LEMMA WindowsTyped == Windows \subseteq Nat /\ 0 \in Windows
BY LimiterAssumption DEF Windows

LEMMA IdleTyped ==
    Idle \in [pc : {"idle", "counting", "expiring", "counted"},
              window : Windows, value : Nat]
BY WindowsTyped DEF Idle

LEMMA PassingFinite ==
    ASSUME NEW w
    PROVE  /\ IsFiniteSet(Pending(w)) /\ IsFiniteSet(Passing(w))
           /\ Cardinality(Passing(w)) \in Nat /\ Cardinality(Pending(w)) \in Nat
           /\ Cardinality(Passing(w)) <= Cardinality(Pending(w))
<1>1. IsFiniteSet(Pending(w)) /\ IsFiniteSet(Passing(w))
  BY FS_Subset, LimiterAssumption DEF Pending, Passing
<1>2. Passing(w) \subseteq Pending(w)
  BY DEF Passing
<1> QED
  BY <1>1, <1>2, FS_CardinalityType, FS_Subset

\* The invariant says what is claimed.
LEMMA ExactIsClaimed ==
    ASSUME LimiterInv
    PROVE  LimitIsExact
<1> SUFFICES ASSUME NEW w \in Windows \ disturbed
             PROVE  /\ forwarded[w] <= RateLimitMax
                    /\ refused[w] > 0 => forwarded[w] + Cardinality(Pending(w)) >= RateLimitMax
                    /\ count[w] > 0 => w \in expiring \/ \E c \in Pending(w) : req[c].pc = "expiring"
  BY DEF LimitIsExact, Pending
<1>1. forwarded[w] \in Nat /\ Exact(w) /\ RateLimitMax \in Nat
  BY LimiterAssumption DEF LimiterInv, Typed
<1> QED
  BY <1>1, PassingFinite DEF Exact, Through

-----------------------------------------------------------------------------
LEMMA StepTyped ==
    ASSUME Typed, [Next]_vars
    PROVE  Typed'
<1> USE WindowsTyped, IdleTyped, LimiterAssumption
<1>1. CASE UNCHANGED vars
  BY <1>1 DEF Typed, vars
<1>2. ASSUME NEW c \in Clients, Arrive(c) PROVE Typed'
  BY <1>2 DEF Typed, Arrive, Idle
<1>3. ASSUME NEW c \in Clients, Increment(c) PROVE Typed'
  BY <1>3 DEF Typed, Increment
<1>4. ASSUME NEW c \in Clients, Expire(c) PROVE Typed'
  BY <1>4 DEF Typed, Expire
<1>5. ASSUME NEW c \in Clients, RedisError(c) PROVE Typed'
  BY <1>5 DEF Typed, RedisError
<1>6. ASSUME NEW c \in Clients, Handle(c) PROVE Typed'
  BY <1>6 DEF Typed, Handle, Leave, Counted
<1>7. ASSUME NEW c \in Clients, Crash(c) PROVE Typed'
  BY <1>7 DEF Typed, Crash, Leave
<1>8. CASE Tick
  <2>1. now' \in Windows
    BY <1>8 DEF Typed, Tick, Windows
  <2> QED
    BY <1>8, <2>1 DEF Typed, Tick
<1>9. ASSUME NEW w \in Windows, KeyExpires(w) PROVE Typed'
  BY <1>9 DEF Typed, KeyExpires
<1> QED
  BY <1>1, <1>2, <1>3, <1>4, <1>5, <1>6, <1>7, <1>8, <1>9 DEF Next

-----------------------------------------------------------------------------
\* A window that a step does not touch, and whose pending requests stay as
\* they are, keeps its numbers.
Unmoved(w) ==
    /\ Pending(w)' = Pending(w)
    /\ \A c \in Pending(w) : req'[c] = req[c]
    /\ forwarded'[w] = forwarded[w] /\ refused'[w] = refused[w] /\ count'[w] = count[w]
    /\ w \in expiring => w \in expiring'

LEMMA UnmovedExact ==
    ASSUME NEW w, Exact(w), Unmoved(w)
    PROVE  Exact(w)'
<1>1. Passing(w)' = Passing(w)
  BY DEF Unmoved, Passing
<1>2. Through(w)' = Through(w)
  BY <1>1 DEF Unmoved, Through
<1> QED
  BY <1>2 DEF Unmoved, Exact, AtMost

\* A step of one client leaves what is pending in other windows alone.
LEMMA OtherWindows ==
    ASSUME NEW c \in Clients, \A q \in Clients \ {c} : req'[q] = req[q],
           NEW w, w # req[c].window, req'[c].window # w \/ req'[c].pc = "idle"
    PROVE  Pending(w)' = Pending(w) /\ \A q \in Pending(w) : req'[q] = req[q]
BY DEF Pending

LEMMA ArriveExact ==
    ASSUME LimiterInv, NEW c \in Clients, Arrive(c), NEW w \in Windows \ disturbed'
    PROVE  Exact(w)'
<1>1. Typed /\ Exact(w) /\ req[c].pc = "idle"
  BY DEF LimiterInv, Arrive, Idle
<1>2. Pending(w)' = Pending(w) /\ \A q \in Pending(w) : req'[q] = req[q]
  BY <1>1 DEF Typed, Arrive, Idle, Pending
<1> QED
  BY <1>1, <1>2, UnmovedExact DEF Unmoved, Arrive

LEMMA IncrementExact ==
    ASSUME LimiterInv, NEW c \in Clients, Increment(c),
           NEW w \in Windows \ disturbed'
    PROVE  Exact(w)'
<1> DEFINE v == req[c].window
           n == count[v] + 1
           s == [req[c] EXCEPT !.value = n, !.pc = IF n = 1 THEN "expiring" ELSE "counted"]
<1>1. /\ Typed /\ w \notin disturbed /\ Exact(w) /\ RateLimitMax \in Nat
      /\ req[c].pc = "counting" /\ v \in Windows
      /\ count[w] \in Nat /\ forwarded[w] \in Nat /\ refused[w] \in Nat
  BY LimiterAssumption DEF LimiterInv, Increment, Typed
<1>2. /\ count' = [count EXCEPT ![v] = n] /\ req' = [req EXCEPT ![c] = s]
      /\ UNCHANGED <<expiring, forwarded, refused>>
  BY <1>1 DEF Increment, Typed
<1>3. /\ s.window = v /\ s.value = n
      /\ s.pc = IF n = 1 THEN "expiring" ELSE "counted"
  BY <1>1 DEF Typed
<1>4. count'[w] = 1 /\ w = v => ~Started(w)
  BY <1>1, <1>2 DEF Increment
<1>0. req'[c] = s /\ \A q \in Clients \ {c} : req'[q] = req[q]
  BY <1>1, <1>2 DEF Typed
<1> HIDE DEF s
<1>5. CASE w # v
  <2>0. count'[w] = count[w]
    BY <1>1, <1>2, <1>5 DEF Typed
  <2>1. Unmoved(w)
    BY <1>0, <1>2, <1>3, <1>5, <2>0, OtherWindows DEF Unmoved
  <2> QED
    BY <1>1, <2>1, UnmovedExact
<1>6. CASE w = v
  <2>1. /\ count'[w] = n /\ n = count[w] + 1
        /\ req'[c] = s /\ \A q \in Clients \ {c} : req'[q] = req[q]
    BY <1>1, <1>2, <1>6 DEF Typed
  <2>2. Pending(w)' = Pending(w) \union {c} /\ c \notin Pending(w)
    BY <1>1, <1>3, <1>6, <2>1 DEF Pending
  <2>3. /\ n <= RateLimitMax => Passing(w)' = Passing(w) \union {c}
        /\ n > RateLimitMax => Passing(w)' = Passing(w)
    <3>1. Passing(w)' = {q \in Pending(w) \union {c} : req'[q].value <= RateLimitMax}
      BY <2>2 DEF Passing
    <3>2. \A q \in Pending(w) : req'[q] = req[q]
      BY <2>1, <2>2 DEF Pending
    <3>3. req'[c].value = n /\ n \in Nat
      BY <1>1, <1>3, <1>6, <2>1
    <3> QED
      BY <1>1, <3>1, <3>2, <3>3 DEF Passing
  <2>4. c \notin Passing(w)
    BY <2>2 DEF Passing
  <2>5. Through(w)' = IF n <= RateLimitMax THEN Through(w) + 1 ELSE Through(w)
    <3>1. IsFiniteSet(Passing(w)) /\ Cardinality(Passing(w)) \in Nat
      BY PassingFinite
    <3>2. Cardinality(Passing(w) \union {c}) = Cardinality(Passing(w)) + 1
      BY <2>4, <3>1, FS_AddElement
    <3>3. n \in Nat
      BY <1>1, <1>6, <2>1
    <3>4. Through(w) = forwarded[w] + Cardinality(Passing(w))
      BY DEF Through
    <3>5. Through(w)' = forwarded[w] + Cardinality(Passing(w)')
      BY <1>2 DEF Through
    <3> HIDE DEF n
    <3>6. CASE n <= RateLimitMax
      <4>1. Cardinality(Passing(w)') = Cardinality(Passing(w)) + 1
        BY <2>3, <3>2, <3>6
      <4>2. Through(w)' = Through(w) + 1
        BY <1>1, <3>1, <3>4, <3>5, <4>1
      <4> QED
        BY <3>6, <4>2
    <3>7. CASE n > RateLimitMax
      BY <1>1, <2>3, <3>3, <3>4, <3>5, <3>7
    <3> QED
      BY <1>1, <3>3, <3>6, <3>7
  <2>6. Through(w) \in Nat
    BY <1>1, PassingFinite DEF Through
  <2>7. CASE count[w] = 0
    <3>1. Pending(w) = {} /\ forwarded[w] = 0 /\ refused[w] = 0
      BY <1>1, <1>4, <1>6, <2>1, <2>7 DEF Started, Pending
    <3>2. Through(w) = 0
      BY <3>1, FS_EmptySet DEF Through, Passing
    <3>3. \A q \in Pending(w)' : q = c
      BY <2>2, <3>1
    <3>4. c \in Pending(w)' /\ req'[c].pc = "expiring" /\ req'[c].value = 1
      BY <1>3, <2>1, <2>2, <2>7
    <3> QED
      BY <1>1, <1>2, <2>1, <2>5, <2>7, <3>1, <3>2, <3>3, <3>4 DEF Exact, AtMost
  <2>8. CASE count[w] > 0
    <3>1. Through(w) = AtMost(count[w]) /\ Through(w)' = AtMost(n)
      BY <1>1, <2>1, <2>5, <2>6, <2>8 DEF Exact, AtMost
    <3>2. Through(w) = RateLimitMax => Through(w)' = RateLimitMax
      BY <1>1, <2>1, <2>8, <3>1 DEF AtMost
    <3>3. \A q \in Pending(w)' : q = c \/ (q \in Pending(w) /\ req'[q] = req[q])
      BY <2>1, <2>2 DEF Pending
    <3>4. req'[c].pc = "counted" /\ req'[c].value = n
      BY <1>1, <1>3, <2>1, <2>8
    <3>5. \A q \in Pending(w)' : req'[q].value > RateLimitMax => Through(w)' = RateLimitMax
      BY <1>1, <2>1, <3>1, <3>2, <3>3, <3>4 DEF Exact, AtMost
    <3>6. w \in expiring' \/ \E q \in Pending(w)' : req'[q].pc = "expiring"
      BY <1>1, <1>2, <2>1, <2>2, <2>8 DEF Exact, Pending
    <3>7. \A q \in Pending(w)' : req'[q].pc = "expiring" => req'[q].value = 1
      BY <1>1, <3>3, <3>4 DEF Exact
    <3>8. Through(w)' <= RateLimitMax /\ (refused'[w] > 0 => Through(w)' = RateLimitMax)
      BY <1>1, <1>2, <2>1, <3>1, <3>2 DEF Exact, AtMost
    <3> QED
      BY <2>1, <3>1, <3>5, <3>6, <3>7, <3>8 DEF Exact, AtMost
  <2> QED
    BY <1>1, <2>7, <2>8
<1> QED
  BY <1>5, <1>6

LEMMA ExpireExact ==
    ASSUME LimiterInv, NEW c \in Clients, Expire(c), NEW w \in Windows \ disturbed'
    PROVE  Exact(w)'
<1> DEFINE v == req[c].window
           s == [req[c] EXCEPT !.pc = "counted"]
<1>1. /\ Typed /\ Exact(w) /\ req[c].pc = "expiring" /\ v \in Windows
      /\ req' = [req EXCEPT ![c] = s]
      /\ UNCHANGED <<count, forwarded, refused>> /\ expiring' = expiring \union {v}
  BY DEF LimiterInv, Expire, Typed
<1>2. s.window = v /\ s.value = req[c].value /\ s.pc = "counted"
  BY <1>1 DEF Typed
<1> HIDE DEF s
<1>3. req'[c] = s /\ \A q \in Clients \ {c} : req'[q] = req[q]
  BY <1>1 DEF Typed
<1>4. CASE w # v
  <2>1. Unmoved(w)
    BY <1>1, <1>2, <1>3, <1>4, OtherWindows DEF Unmoved
  <2> QED
    BY <1>1, <2>1, UnmovedExact
<1>5. CASE w = v
  <2>1. Pending(w)' = Pending(w) /\ \A q \in Pending(w) : req'[q].value = req[q].value
    BY <1>1, <1>2, <1>3, <1>5 DEF Pending
  <2>2. Passing(w)' = Passing(w)
    BY <2>1 DEF Passing
  <2>3. Through(w)' = Through(w)
    BY <1>1, <2>2 DEF Through
  <2>4. \A q \in Pending(w) : req'[q].pc = "expiring" => req[q].pc = "expiring"
    BY <1>2, <1>3 DEF Pending
  <2> QED
    BY <1>1, <1>5, <2>1, <2>3, <2>4 DEF Exact, AtMost
<1> QED
  BY <1>4, <1>5

\* What is disturbed by an error or a crash makes no claim any more.
LEMMA DisturbedExact ==
    ASSUME LimiterInv, NEW c \in Clients, RedisError(c) \/ Crash(c),
           NEW w \in Windows \ disturbed'
    PROVE  Exact(w)'
<1>1. /\ \A q \in Clients \ {c} : req'[q] = req[q]
      /\ req'[c].window = req[c].window \/ req'[c].pc = "idle"
  <2>1. CASE RedisError(c)
    BY <2>1 DEF RedisError, LimiterInv, Typed
  <2>2. CASE Crash(c)
    <3>1. req' = [req EXCEPT ![c] = Idle] /\ Idle.pc = "idle"
      BY <2>2 DEF Crash, Leave, Idle
    <3> QED
      BY <3>1 DEF LimiterInv, Typed
  <2> QED
    BY <2>1, <2>2
<1>2. /\ Typed /\ Exact(w) /\ w # req[c].window
      /\ UNCHANGED <<count, expiring, forwarded, refused>>
  BY DEF LimiterInv, RedisError, Crash
<1>3. Unmoved(w)
  BY <1>1, <1>2, OtherWindows DEF Unmoved
<1> QED
  BY <1>2, <1>3, UnmovedExact

LEMMA HandleExact ==
    ASSUME LimiterInv, NEW c \in Clients, Handle(c),
           NEW w \in Windows \ disturbed'
    PROVE  Exact(w)'
<1> DEFINE v == req[c].window
<1>1. /\ Typed /\ Exact(w) /\ req[c].pc = "counted" /\ v \in Windows /\ RateLimitMax \in Nat
      /\ req[c].value \in Nat /\ forwarded[w] \in Nat /\ refused[w] \in Nat /\ count[w] \in Nat
      /\ req' = [req EXCEPT ![c] = Idle] /\ UNCHANGED <<count, expiring>>
  BY LimiterAssumption DEF LimiterInv, Handle, Leave, Typed
<1>2. IF req[c].value > RateLimitMax
      THEN refused' = [refused EXCEPT ![v] = Counted(@)] /\ forwarded' = forwarded
      ELSE forwarded' = [forwarded EXCEPT ![v] = Counted(@)] /\ refused' = refused
  BY DEF Handle, IsRateLimited
<1>3. req'[c] = Idle /\ \A q \in Clients \ {c} : req'[q] = req[q]
  BY <1>1 DEF Typed
<1>4. CASE w # v
  <2>1. forwarded'[w] = forwarded[w] /\ refused'[w] = refused[w]
    BY <1>1, <1>2, <1>4 DEF Typed
  <2>2. Idle.pc = "idle"
    BY DEF Idle
  <2>3. Unmoved(w)
    BY <1>1, <1>3, <1>4, <2>1, <2>2, OtherWindows DEF Unmoved
  <2> QED
    BY <1>1, <2>3, UnmovedExact
<1>5. CASE w = v
  <2>1. c \in Pending(w) /\ Pending(w)' = Pending(w) \ {c}
    BY <1>1, <1>3, <1>5 DEF Pending, Idle
  <2>2. Passing(w)' = Passing(w) \ {c}
    <3>1. \A q \in Pending(w) \ {c} : req'[q] = req[q]
      BY <1>3 DEF Pending
    <3>2. Passing(w)' = {q \in Pending(w) \ {c} : req'[q].value <= RateLimitMax}
      BY <2>1 DEF Passing
    <3> QED
      BY <3>1, <3>2 DEF Passing
  <2>3. \A q \in Pending(w)' : q \in Pending(w) /\ req'[q] = req[q]
    BY <1>3, <2>1 DEF Pending
  <2>4. Through(w)' = Through(w) /\ (req[c].value > RateLimitMax \/ refused'[w] = refused[w])
    <3>1. CASE req[c].value > RateLimitMax
      <4>1. c \notin Passing(w)
        BY <1>1, <3>1 DEF Passing
      <4>2. Passing(w)' = Passing(w)
        BY <2>2, <4>1
      <4> QED
        BY <1>2, <3>1, <4>2 DEF Through
    <3>2. CASE ~(req[c].value > RateLimitMax)
      <4>1. c \in Passing(w)
        BY <1>1, <2>1, <3>2 DEF Passing
      <4>2. /\ Cardinality(Passing(w)') = Cardinality(Passing(w)) - 1
            /\ Cardinality(Passing(w)) \in Nat /\ Cardinality(Passing(w)) # 0
        BY <2>2, <4>1, FS_RemoveElement, FS_EmptySet, PassingFinite
      <4>3. forwarded[w] <= RateLimitMax
        BY <1>1, <4>2 DEF Exact, Through
      <4>4. forwarded'[w] = forwarded[w] + 1 /\ refused' = refused
        BY <1>1, <1>2, <1>5, <3>2, <4>3 DEF Counted, Typed
      <4> QED
        BY <1>1, <4>2, <4>4 DEF Through
    <3> QED
      BY <3>1, <3>2
  <2>5. req[c].value > RateLimitMax => Through(w) = RateLimitMax
    BY <1>1, <2>1 DEF Exact
  <2>6. \A q \in Pending(w) : req[q].pc = "expiring" => q \in Pending(w)' /\ req'[q] = req[q]
    BY <1>1, <1>3, <2>1 DEF Pending
  <2> QED
    BY <1>1, <2>3, <2>4, <2>5, <2>6 DEF Exact, AtMost
<1> QED
  BY <1>4, <1>5

LEMMA KeyExpiresExact ==
    ASSUME LimiterInv, NEW v \in Windows, KeyExpires(v), NEW w \in Windows \ disturbed'
    PROVE  Exact(w)'
<1>1. Typed /\ Exact(w) /\ UNCHANGED <<req, forwarded, refused>>
      /\ count' = [count EXCEPT ![v] = 0] /\ expiring' = expiring \ {v}
  BY DEF LimiterInv, KeyExpires
<1>2. Pending(w)' = Pending(w) /\ Passing(w)' = Passing(w)
  BY <1>1 DEF Pending, Passing
<1>3. Through(w)' = Through(w)
  BY <1>1, <1>2 DEF Through
<1>4. count'[w] = (IF w = v THEN 0 ELSE count[w]) /\ (w # v /\ w \in expiring => w \in expiring')
  BY <1>1 DEF Typed
<1> QED
  BY <1>1, <1>2, <1>3, <1>4 DEF Exact, AtMost

LEMMA LimiterStep ==
    ASSUME LimiterInv, [Next]_vars
    PROVE  LimiterInv'
<1>1. Typed'
  BY StepTyped DEF LimiterInv
<1>2. ASSUME NEW w \in Windows \ disturbed' PROVE Exact(w)'
  <2>1. CASE UNCHANGED vars \/ Tick
    <3>1. Exact(w) /\ Unmoved(w)
      BY <2>1 DEF vars, Tick, Unmoved, Pending, LimiterInv
    <3> QED
      BY <3>1, UnmovedExact
  <2> QED
    BY <1>2, <2>1, ArriveExact, IncrementExact, ExpireExact, DisturbedExact, HandleExact,
       KeyExpiresExact DEF Next
<1> QED
  BY <1>1, <1>2 DEF LimiterInv

LEMMA LimiterInit ==
    ASSUME Init
    PROVE  LimiterInv
<1>1. Typed
  BY WindowsTyped, IdleTyped DEF Init, Typed
<1>2. ASSUME NEW w \in Windows PROVE Exact(w)
  <2>1. Pending(w) = {} /\ Passing(w) = {}
    BY DEF Init, Idle, Pending, Passing
  <2>2. Through(w) = 0 /\ count[w] = 0 /\ refused[w] = 0
    BY <2>1, FS_EmptySet DEF Init, Through
  <2> QED
    BY <2>1, <2>2, LimiterAssumption DEF Exact
<1> QED
  BY <1>1, <1>2 DEF LimiterInv

\* For any number of clients and any limit, an undisturbed window lets through
\* exactly as many requests as it may, and every counted key has a life time.
THEOREM LimitCorrect == Spec => []LimitIsExact
<1>1. Init => LimiterInv
  BY LimiterInit
<1>2. LimiterInv /\ [Next]_vars => LimiterInv'
  BY LimiterStep
<1>3. LimiterInv => LimitIsExact
  BY ExactIsClaimed
<1> QED
  BY <1>1, <1>2, <1>3, PTL DEF Spec

-----------------------------------------------------------------------------
(***************************************************************************)
(* Tokens.  A login that no token was spent twice of is a chain: only its   *)
(* newest pair may have a refresh token that works, and of an older pair    *)
(* the access token is blacklisted, or nobody can present it any more.      *)
(***************************************************************************)

Pair == 0..Len(origin)
Cookies == [access : Pair, refresh : Pair]

TokenRequest ==
    [op : {"none", "login", "refresh", "logout"}, pc : {"idle", "sent", "admitted", "found", "answered"},
     cookies : Cookies, pair : Pair]

TokensTyped ==
    /\ origin \in Seq([from : Nat, login : Nat])
    /\ \A n \in DOMAIN origin : origin[n].from \in 0..(n - 1) /\ origin[n].login \in 1..n
    /\ jar \in Cookies /\ removed \in BOOLEAN
    /\ revokedA \subseteq DOMAIN origin /\ revokedR \subseteq DOMAIN origin
    /\ raced \subseteq DOMAIN origin /\ ended \subseteq DOMAIN origin
    /\ tokenReq \in [Requests -> TokenRequest]

\* Past the guard, with a refresh token to spend.
Spends(r, t) ==
    /\ tokenReq[r].pc \in {"admitted", "found"}
    /\ tokenReq[r].cookies.refresh = t

\* The access token of pair n may still be shown to the gateway.
Presents(n) ==
    \/ jar.access = n
    \/ \E r \in Requests : tokenReq[r].pc = "sent" /\ tokenReq[r].cookies.access = n
    \/ \E r \in Requests : tokenReq[r].pc = "answered" /\ tokenReq[r].pair = n

\* Cookies hold one pair, whose access token may have aged, everywhere at once.
CookiesPaired(c) == c.access \in {0, c.refresh} /\ (c.access = 0 /\ c.refresh # 0 => ~Presents(c.refresh))

\* A pair on its way to the browser is nowhere else.
InTransit(r) ==
    LET n == tokenReq[r].pair IN
    (tokenReq[r].pc = "answered" /\ n # 0) =>
        /\ jar.refresh # n
        /\ \A o \in Requests : tokenReq[o].cookies.refresh # n
        /\ \A o \in Requests \ {r} : tokenReq[o].pc = "answered" => tokenReq[o].pair # n

\* What the guards have let through.
Guarded(r) ==
    tokenReq[r].pc \in {"admitted", "found"} =>
        /\ tokenReq[r].op \in {"refresh", "logout"} /\ tokenReq[r].cookies.refresh # 0
        /\ tokenReq[r].pc = "found" => tokenReq[r].op = "refresh"

\* A refresh past its guard spends a token that works and nobody else spends.
Sole(r) ==
    \A t \in DOMAIN origin \ raced :
        tokenReq[r].op = "refresh" /\ Spends(r, t) =>
            t \notin revokedR /\ \A o \in Requests \ {r} : ~Spends(o, t)

Newest(n) == \A m \in DOMAIN origin : origin[m].login = origin[n].login => m <= n

Chain(l) ==
    (\A t \in raced : origin[t].login # l) =>
        /\ \A n \in A!Live(l) : Newest(n)
        /\ (\E t \in ended : origin[t].login = l) => A!Live(l) = {}
        /\ \A n \in DOMAIN origin : origin[n].login = l /\ ~Newest(n) => n \in revokedA \/ ~Presents(n)
        /\ \A r \in Requests, t \in DOMAIN origin :
             tokenReq[r].op = "logout" /\ Spends(r, t) /\ origin[t].login = l => Newest(t)

TokensInv ==
    /\ TokensTyped
    /\ CookiesPaired(jar)
    /\ \A r \in Requests :
         CookiesPaired(tokenReq[r].cookies) /\ InTransit(r) /\ Guarded(r) /\ Sole(r)
    /\ \A l \in DOMAIN origin : Chain(l)

-----------------------------------------------------------------------------
(* The helpers of the handlers *)

\* What a step makes of one request, leaving the others alone.
Becomes(r, op, pc, cookies, pair) ==
    /\ \A o \in Requests \ {r} : tokenReq'[o] = tokenReq[o]
    /\ tokenReq'[r].op = op /\ tokenReq'[r].pc = pc
    /\ tokenReq'[r].cookies = cookies /\ tokenReq'[r].pair = pair

LEMMA PairsOfTokens ==
    ASSUME TokensTyped
    PROVE  /\ Len(origin) \in Nat /\ DOMAIN origin = 1..Len(origin) /\ DOMAIN origin = Pair \ {0}
           /\ 0 \in Pair /\ A!NoJar \in Cookies /\ A!Idle \in TokenRequest
<1>1. Len(origin) \in Nat /\ DOMAIN origin = 1..Len(origin)
  BY DEF TokensTyped
<1>2. 0 \in Pair /\ DOMAIN origin = Pair \ {0}
  BY <1>1 DEF Pair
<1>3. A!NoJar \in Cookies
  BY <1>2 DEF A!NoJar, Cookies
<1> QED
  BY <1>1, <1>2, <1>3 DEF A!Idle, TokenRequest

LEMMA GotoBecomes ==
    ASSUME TokensTyped, NEW r \in Requests, NEW pc \in {"admitted", "found"}, A!Goto(r, pc)
    PROVE  /\ Becomes(r, tokenReq[r].op, pc, tokenReq[r].cookies, tokenReq[r].pair)
           /\ tokenReq' \in [Requests -> TokenRequest]
<1> DEFINE q == [tokenReq[r] EXCEPT !.pc = pc]
<1>1. tokenReq' = [tokenReq EXCEPT ![r] = q] /\ tokenReq[r] \in TokenRequest
  BY DEF TokensTyped, A!Goto
<1>2. /\ q \in TokenRequest /\ q.op = tokenReq[r].op /\ q.pc = pc
      /\ q.cookies = tokenReq[r].cookies /\ q.pair = tokenReq[r].pair
  BY <1>1 DEF TokenRequest
<1> HIDE DEF q
<1> QED
  BY <1>1, <1>2 DEF TokensTyped, Becomes

LEMMA AnswerBecomes ==
    ASSUME TokensTyped, NEW r \in Requests, NEW n \in Nat, A!Answer(r, n)
    PROVE  /\ Becomes(r, tokenReq[r].op, "answered", A!NoJar, n)
           /\ n \in Pair => tokenReq' \in [Requests -> TokenRequest]
<1> DEFINE q == [op |-> tokenReq[r].op, pc |-> "answered", cookies |-> A!NoJar, pair |-> n]
<1>1. tokenReq' = [tokenReq EXCEPT ![r] = q] /\ tokenReq[r] \in TokenRequest
  BY DEF TokensTyped, A!Answer
<1>2. /\ n \in Pair => q \in TokenRequest
      /\ q.op = tokenReq[r].op /\ q.pc = "answered" /\ q.cookies = A!NoJar /\ q.pair = n
  BY <1>1, PairsOfTokens DEF TokenRequest
<1> HIDE DEF q
<1> QED
  BY <1>1, <1>2 DEF TokensTyped, Becomes

LEMMA DropBecomes ==
    ASSUME TokensTyped, NEW r \in Requests, A!Drop(r)
    PROVE  /\ Becomes(r, "none", "idle", A!NoJar, 0)
           /\ tokenReq' \in [Requests -> TokenRequest]
<1>1. tokenReq' = [tokenReq EXCEPT ![r] = A!Idle]
  BY DEF A!Drop
<1>2. A!Idle.op = "none" /\ A!Idle.pc = "idle" /\ A!Idle.cookies = A!NoJar /\ A!Idle.pair = 0
  BY DEF A!Idle
<1>3. A!Idle \in TokenRequest
  BY PairsOfTokens
<1> HIDE DEF A!Idle
<1> QED
  BY <1>1, <1>2, <1>3 DEF TokensTyped, Becomes

-----------------------------------------------------------------------------
(* What steps preserve *)

\* Without a new pair.
LEMMA ChainKept ==
    ASSUME TokensTyped, NEW l \in DOMAIN origin, Chain(l), UNCHANGED origin,
           raced \subseteq raced', revokedA \subseteq revokedA', revokedR \subseteq revokedR',
           \A n \in DOMAIN origin : Presents(n)' => Presents(n),
           (\A t \in raced' : origin[t].login # l) =>
               \A t \in ended' : origin[t].login = l => t \in ended \/ A!Live(l)' = {},
           \A r \in Requests, t \in DOMAIN origin :
               tokenReq'[r].op = "logout" /\ Spends(r, t)' /\ origin[t].login = l
                   /\ (\A m \in raced' : origin[m].login # l)
                   => Newest(t) \/ (tokenReq[r].op = "logout" /\ Spends(r, t))
    PROVE  Chain(l)'
<1>1. SUFFICES ASSUME \A t \in raced' : origin'[t].login # l
               PROVE  /\ \A n \in A!Live(l)' : Newest(n)'
                      /\ (\E t \in ended' : origin'[t].login = l) => A!Live(l)' = {}
                      /\ \A n \in DOMAIN origin' :
                           origin'[n].login = l /\ ~Newest(n)' => n \in revokedA' \/ ~Presents(n)'
                      /\ \A r \in Requests, t \in DOMAIN origin' :
                           tokenReq'[r].op = "logout" /\ Spends(r, t)' /\ origin'[t].login = l
                               => Newest(t)'
  BY DEF Chain
<1>2. \A t \in raced : origin[t].login # l
  BY <1>1
<1>3. A!Live(l)' \subseteq A!Live(l)
  BY DEF A!Live, A!Minted
<1>4. \A n \in DOMAIN origin : Newest(n)' <=> Newest(n)
  BY DEF Newest
<1>5. A!Live(l) \subseteq DOMAIN origin
  BY DEF A!Live, A!Minted
<1>6. \A n \in A!Live(l)' : Newest(n)'
  BY <1>2, <1>3, <1>4, <1>5 DEF Chain
<1>7. (\E t \in ended' : origin'[t].login = l) => A!Live(l)' = {}
  BY <1>1, <1>2, <1>3 DEF Chain
<1>8. ASSUME NEW n \in DOMAIN origin', origin'[n].login = l, ~Newest(n)'
      PROVE  n \in revokedA' \/ ~Presents(n)'
  BY <1>2, <1>4, <1>8 DEF Chain
<1>9. ASSUME NEW r \in Requests, NEW t \in DOMAIN origin', tokenReq'[r].op = "logout",
             Spends(r, t)', origin'[t].login = l
      PROVE  Newest(t)'
  BY <1>1, <1>2, <1>4, <1>9 DEF Chain
<1> QED
  BY <1>6, <1>7, <1>8, <1>9

\* A request moves; if it is answered with a pair, that pair is new.
LEMMA OneMoves ==
    ASSUME TokensInv, NEW r \in Requests, NEW op, NEW pc, NEW c, NEW n,
           Becomes(r, op, pc, c, n), jar' = jar,
           c \in {A!NoJar, IF pc = "sent" THEN jar ELSE tokenReq[r].cookies},
           pc = "answered" => n = 0 \/ n \notin Pair
    PROVE  /\ \A m \in DOMAIN origin : Presents(m)' => Presents(m)
           /\ CookiesPaired(jar)'
           /\ \A o \in Requests : CookiesPaired(tokenReq[o].cookies)' /\ InTransit(o)'
<1>1. /\ TokensTyped /\ DOMAIN origin = Pair \ {0} /\ 0 \in Pair
      /\ A!NoJar.access = 0 /\ A!NoJar.refresh = 0
  BY PairsOfTokens DEF TokensInv, A!NoJar
<1>2. /\ jar.access \in Pair /\ jar.refresh \in Pair
      /\ \A o \in Requests : tokenReq[o].cookies.access \in Pair
                            /\ tokenReq[o].cookies.refresh \in Pair
  BY <1>1 DEF TokensTyped, TokenRequest, Cookies
<1>3. /\ c.refresh \in {0, jar.refresh, tokenReq[r].cookies.refresh}
      /\ pc = "sent" => c.access \in {0, jar.access}
  BY <1>1
<1>4. ASSUME NEW m \in DOMAIN origin, Presents(m)' PROVE Presents(m)
  BY <1>1, <1>3, <1>4 DEF Becomes, Presents
<1>5. ASSUME NEW d, CookiesPaired(d), d.refresh \in Pair
      PROVE  /\ d.access \in {0, d.refresh}
             /\ d.access = 0 /\ d.refresh # 0 => ~Presents(d.refresh)'
  BY <1>1, <1>4, <1>5 DEF CookiesPaired
<1>6. CookiesPaired(jar)'
  BY <1>2, <1>5 DEF CookiesPaired, TokensInv
<1>7. ASSUME NEW o \in Requests PROVE CookiesPaired(tokenReq[o].cookies)'
  <2>1. CookiesPaired(A!NoJar)
    BY <1>1 DEF CookiesPaired
  <2>2. tokenReq'[o].cookies \in {A!NoJar, jar, tokenReq[o].cookies}
    BY DEF Becomes
  <2> QED
    BY <1>1, <1>2, <1>5, <2>1, <2>2 DEF CookiesPaired, TokensInv
<1>8. ASSUME NEW o \in Requests PROVE InTransit(o)'
  <2>1. SUFFICES ASSUME tokenReq'[o].pc = "answered", tokenReq'[o].pair # 0
                 PROVE  /\ jar.refresh # tokenReq'[o].pair
                        /\ \A q \in Requests : tokenReq'[q].cookies.refresh # tokenReq'[o].pair
                        /\ \A q \in Requests \ {o} :
                             tokenReq'[q].pc = "answered" => tokenReq'[q].pair # tokenReq'[o].pair
    BY DEF InTransit
  <2>2. CASE o = r
    <3>1. tokenReq'[o].pair \notin Pair
      BY <2>1, <2>2 DEF Becomes
    <3>2. \A q \in Requests : tokenReq[q].pair \in Pair
      BY <1>1 DEF TokensTyped, TokenRequest
    <3> QED
      BY <1>1, <1>2, <1>3, <2>2, <3>1, <3>2 DEF Becomes
  <2>3. CASE o # r
    <3>1. tokenReq'[o] = tokenReq[o] /\ tokenReq[o].pair \in Pair
      BY <1>1, <2>3 DEF Becomes, TokensTyped, TokenRequest
    <3>2. /\ jar.refresh # tokenReq[o].pair
          /\ \A q \in Requests : tokenReq[q].cookies.refresh # tokenReq[o].pair
          /\ \A q \in Requests \ {o} :
               tokenReq[q].pc = "answered" => tokenReq[q].pair # tokenReq[o].pair
      BY <2>1, <3>1 DEF InTransit, TokensInv
    <3> QED
      BY <1>1, <1>3, <2>1, <2>3, <3>1, <3>2 DEF Becomes
  <2> QED
    BY <2>2, <2>3
<1> QED
  BY <1>4, <1>6, <1>7, <1>8

\* A request that is not past its guard afterwards may have spent its token.
LEMMA SoleKept ==
    ASSUME TokensInv, NEW r \in Requests, NEW op, NEW pc, NEW c, NEW n,
           Becomes(r, op, pc, c, n), pc \notin {"admitted", "found"}, raced' = raced,
           DOMAIN origin \subseteq DOMAIN origin', 0 \notin DOMAIN origin',
           revokedR' = revokedR \/
               /\ tokenReq[r].pc \in {"admitted", "found"}
               /\ revokedR' \subseteq revokedR \union {tokenReq[r].cookies.refresh}
    PROVE  \A o \in Requests : Sole(o)'
<1> SUFFICES ASSUME NEW o \in Requests, NEW t \in DOMAIN origin' \ raced,
                    tokenReq'[o].op = "refresh", Spends(o, t)'
             PROVE  t \notin revokedR' /\ \A q \in Requests \ {o} : ~Spends(q, t)'
  BY DEF Sole
<1>1. o # r /\ tokenReq'[o] = tokenReq[o] /\ Spends(o, t)
  BY DEF Becomes, Spends
<1>2. t \in DOMAIN origin
  <2>1. tokenReq[o].cookies.refresh \in Pair
    BY DEF TokensInv, TokensTyped, TokenRequest, Cookies
  <2> QED
    BY <1>1, <2>1, PairsOfTokens DEF Spends, TokensInv
<1>3. t \notin revokedR /\ \A q \in Requests \ {o} : ~Spends(q, t)
  BY <1>1, <1>2 DEF Sole, TokensInv
<1>4. t \notin revokedR'
  BY <1>1, <1>3 DEF Spends
<1>5. ASSUME NEW q \in Requests \ {o} PROVE ~Spends(q, t)'
  <2>1. CASE q = r
    BY <2>1 DEF Spends, Becomes
  <2>2. CASE q # r
    BY <1>3, <2>2 DEF Spends, Becomes
  <2> QED
    BY <2>1, <2>2
<1> QED
  BY <1>4, <1>5

\* Nor does it have to be guarded.
LEMMA GuardedKept ==
    ASSUME TokensInv, NEW r \in Requests, NEW op, NEW pc, NEW c, NEW n,
           Becomes(r, op, pc, c, n),
           pc \in {"admitted", "found"} =>
               op \in {"refresh", "logout"} /\ c.refresh # 0 /\ (pc = "found" => op = "refresh")
    PROVE  \A o \in Requests : Guarded(o)'
BY DEF TokensInv, Guarded, Becomes

\* A request moves without spending and without a pair: it is sent, ends or
\* goes wrong, maybe after it blacklisted a token.
LEMMA PlainStep ==
    ASSUME TokensInv, NEW r \in Requests, NEW op, NEW pc, NEW c, NEW n,
           Becomes(r, op, pc, c, n), tokenReq' \in [Requests -> TokenRequest],
           UNCHANGED <<jar, origin, removed, raced>>,
           c \in {A!NoJar, IF pc = "sent" THEN jar ELSE tokenReq[r].cookies},
           pc \notin {"admitted", "found"}, pc = "answered" => n = 0,
           revokedA \subseteq revokedA', revokedA' \subseteq DOMAIN origin,
           revokedR \subseteq revokedR', revokedR' \subseteq DOMAIN origin,
           revokedR' = revokedR \/
               /\ tokenReq[r].pc \in {"admitted", "found"}
               /\ revokedR' \subseteq revokedR \union {tokenReq[r].cookies.refresh},
           ended' \subseteq DOMAIN origin,
           \A t \in ended' : (\A m \in raced : origin[m].login # origin[t].login)
                                 => t \in ended \/ A!Live(origin[t].login)' = {}
    PROVE  TokensInv'
<1>1. TokensTyped /\ 0 \notin DOMAIN origin
  BY PairsOfTokens DEF TokensInv
<1>2. TokensTyped'
  BY <1>1 DEF TokensTyped, TokenRequest, Cookies, Pair
<1>3. /\ \A m \in DOMAIN origin : Presents(m)' => Presents(m)
      /\ CookiesPaired(jar)'
      /\ \A o \in Requests : CookiesPaired(tokenReq[o].cookies)' /\ InTransit(o)'
  BY OneMoves
<1>4. \A o \in Requests : Guarded(o)'
  BY GuardedKept
<1>5. \A o \in Requests : Sole(o)'
  BY <1>1, SoleKept
<1>6. ASSUME NEW l \in DOMAIN origin PROVE Chain(l)'
  <2>1. Chain(l)
    BY DEF TokensInv
  <2>2. \A o \in Requests, t \in DOMAIN origin : Spends(o, t)' =>
            Spends(o, t) /\ tokenReq'[o] = tokenReq[o]
    BY DEF Becomes, Spends
  <2>3. (\A t \in raced' : origin[t].login # l) =>
            \A t \in ended' : origin[t].login = l => t \in ended \/ A!Live(l)' = {}
    OBVIOUS
  <2> QED
    BY <1>1, <1>3, <2>1, <2>2, <2>3, ChainKept
<1> QED
  BY <1>2, <1>3, <1>4, <1>5, <1>6 DEF TokensInv

-----------------------------------------------------------------------------
(* The steps *)

LEMMA SendStep ==
    ASSUME TokensInv, NEW r \in Requests, NEW op \in A!Ops, A!Send(r, op)
    PROVE  TokensInv'
<1> DEFINE c == IF op = "login" THEN A!NoJar ELSE jar
           q == [op |-> op, pc |-> "sent", pair |-> 0, cookies |-> c]
<1>1. TokensTyped /\ tokenReq' = [tokenReq EXCEPT ![r] = q]
  BY DEF A!Send, TokensInv
<1>2. q \in TokenRequest /\ q.op = op /\ q.pc = "sent" /\ q.pair = 0 /\ q.cookies = c
  BY <1>1, PairsOfTokens DEF TokensTyped, TokenRequest, A!Ops
<1> HIDE DEF q
<1>3. Becomes(r, op, "sent", c, 0) /\ tokenReq' \in [Requests -> TokenRequest]
  BY <1>1, <1>2 DEF TokensTyped, Becomes
<1>4. UNCHANGED <<jar, revokedA, revokedR, origin, removed, raced, ended>>
  BY DEF A!Send
<1>5. c \in {A!NoJar, IF "sent" = "sent" THEN jar ELSE tokenReq[r].cookies}
  OBVIOUS
<1> QED
  BY <1>1, <1>3, <1>4, <1>5, PlainStep DEF TokensTyped

LEMMA DropStep ==
    ASSUME TokensInv, NEW r \in Requests, A!Drop(r),
           UNCHANGED <<jar, revokedA, revokedR, origin, removed, raced, ended>>
    PROVE  TokensInv'
<1>1. TokensTyped
  BY DEF TokensInv
<1> QED
  BY <1>1, DropBecomes, PlainStep DEF TokensTyped

LEMMA UnauthorizedStep ==
    ASSUME TokensInv, NEW r \in Requests, A!Unauthorized(r),
           UNCHANGED <<jar, revokedA, revokedR, origin, removed, raced, ended>>
    PROVE  TokensInv'
<1>1. TokensTyped /\ 0 \in Pair
  BY PairsOfTokens DEF TokensInv
<1>2. CASE A!Answer(r, 0)
  <2>1. Becomes(r, tokenReq[r].op, "answered", A!NoJar, 0) /\ tokenReq' \in [Requests -> TokenRequest]
    BY <1>1, <1>2, AnswerBecomes
  <2> QED
    BY <1>1, <2>1, PlainStep DEF TokensTyped
<1> QED
  BY <1>2, DropStep DEF A!Unauthorized

LEMMA DeliverStep ==
    ASSUME TokensInv, NEW r \in Requests, A!Deliver(r)
    PROVE  TokensInv'
<1> DEFINE n == tokenReq[r].pair
<1>1. /\ TokensTyped /\ DOMAIN origin = Pair \ {0} /\ 0 \in Pair /\ n \in Pair
      /\ tokenReq[r].pc = "answered" /\ jar' = [access |-> n, refresh |-> n]
      /\ UNCHANGED <<revokedA, revokedR, origin, removed, raced, ended>>
      /\ A!NoJar.access = 0 /\ A!NoJar.refresh = 0
  BY PairsOfTokens DEF A!Deliver, TokensInv, TokensTyped, TokenRequest, A!NoJar
<1>2. /\ Becomes(r, "none", "idle", A!NoJar, 0)
      /\ tokenReq' \in [Requests -> TokenRequest]
  BY <1>1, DropBecomes DEF A!Deliver
<1>3. jar'.access = n /\ jar'.refresh = n /\ jar' \in Cookies
  BY <1>1 DEF Cookies
<1> HIDE DEF n
<1>4. TokensTyped'
  BY <1>1, <1>2, <1>3 DEF TokensTyped, TokenRequest, Cookies, Pair
<1>5. ASSUME NEW m \in DOMAIN origin, Presents(m)' PROVE Presents(m)
  BY <1>1, <1>2, <1>3, <1>5 DEF Becomes, Presents, n
<1>6. CookiesPaired(jar)'
  BY <1>3 DEF CookiesPaired
<1>7. ASSUME NEW o \in Requests PROVE CookiesPaired(tokenReq[o].cookies)'
  <2>1. CASE o = r
    BY <1>1, <1>2, <2>1 DEF CookiesPaired, Becomes
  <2>2. CASE o # r
    <3>1. tokenReq'[o].cookies = tokenReq[o].cookies /\ CookiesPaired(tokenReq[o].cookies)
          /\ tokenReq[o].cookies.refresh \in Pair
      BY <1>1, <1>2, <2>2 DEF Becomes, TokensInv, TokensTyped, TokenRequest, Cookies
    <3> QED
      BY <1>1, <1>5, <3>1 DEF CookiesPaired
  <2> QED
    BY <2>1, <2>2
<1>8. ASSUME NEW o \in Requests PROVE InTransit(o)'
  <2>1. CASE o = r
    BY <1>2, <2>1 DEF InTransit, Becomes
  <2>2. CASE o # r
    <3>1. tokenReq'[o] = tokenReq[o] /\ InTransit(o)
      BY <1>2, <2>2 DEF Becomes, TokensInv
    <3> QED
      BY <1>1, <1>2, <1>3, <2>2, <3>1 DEF InTransit, Becomes, n
  <2> QED
    BY <2>1, <2>2
<1>9. \A o \in Requests : Guarded(o)' /\ Sole(o)'
  <2>1. \A o \in Requests : Guarded(o)'
    BY <1>2, GuardedKept
  <2>2. \A o \in Requests : Sole(o)'
    BY <1>1, <1>2, SoleKept
  <2> QED
    BY <2>1, <2>2
<1>10. ASSUME NEW l \in DOMAIN origin PROVE Chain(l)'
  <2>1. \A o \in Requests, t \in DOMAIN origin : Spends(o, t)' =>
            Spends(o, t) /\ tokenReq'[o] = tokenReq[o]
    BY <1>2 DEF Becomes, Spends
  <2> QED
    BY <1>1, <1>5, <2>1, ChainKept DEF TokensInv
<1> QED
  BY <1>1, <1>4, <1>6, <1>7, <1>8, <1>9, <1>10 DEF TokensInv

LEMMA ExpireAccessStep ==
    ASSUME TokensInv, NEW n \in A!Pairs, A!ExpireAccess(n)
    PROVE  TokensInv'
<1> DEFINE Aged(c) == IF c.access = n THEN [c EXCEPT !.access = 0] ELSE c
<1>a. TokensTyped /\ DOMAIN origin = Pair \ {0} /\ 0 \in Pair
  BY PairsOfTokens DEF TokensInv
<1>b. n # 0
  BY DEF A!Pairs
<1>c. /\ n = jar.access \/
            \E r \in Requests : tokenReq[r].pc = "sent" /\ tokenReq[r].cookies.access = n
      /\ UNCHANGED <<revokedA, revokedR, origin, removed, raced, ended>>
      /\ jar' = Aged(jar)
  BY DEF A!ExpireAccess
<1>2. ASSUME NEW c \in Cookies
      PROVE  /\ Aged(c) \in Cookies /\ Aged(c).refresh = c.refresh
             /\ Aged(c).access = IF c.access = n THEN 0 ELSE c.access
  BY <1>a, <1>b, <1>c DEF Cookies
<1>3. ASSUME NEW o \in Requests
      PROVE  /\ tokenReq[o].cookies \in Cookies /\ tokenReq'[o] \in TokenRequest
             /\ tokenReq'[o].op = tokenReq[o].op /\ tokenReq'[o].pc = tokenReq[o].pc
             /\ tokenReq'[o].pair = tokenReq[o].pair
             /\ tokenReq'[o].cookies = IF tokenReq[o].pc = "sent" THEN Aged(tokenReq[o].cookies)
                                                                ELSE tokenReq[o].cookies
  <2> DEFINE a == Aged(tokenReq[o].cookies)
             q == [tokenReq[o] EXCEPT !.cookies = a]
  <2>1. /\ tokenReq[o] \in TokenRequest /\ tokenReq[o].cookies \in Cookies
        /\ tokenReq'[o] = IF tokenReq[o].pc = "sent" THEN q ELSE tokenReq[o]
    BY <1>a, <1>b, <1>c DEF A!ExpireAccess, TokensTyped, TokenRequest
  <2>2. a \in Cookies
    BY <1>2, <2>1
  <2> HIDE DEF a
  <2>3. /\ q \in TokenRequest /\ q.op = tokenReq[o].op /\ q.pc = tokenReq[o].pc
        /\ q.pair = tokenReq[o].pair /\ q.cookies = a
    BY <2>1, <2>2 DEF TokenRequest
  <2> HIDE DEF q
  <2> QED
    BY <2>1, <2>3 DEF a
<1>4. tokenReq' = [o \in Requests |-> tokenReq'[o]] /\ jar \in Cookies
  BY <1>a, <1>b, <1>c DEF A!ExpireAccess, TokensTyped
<1> HIDE DEF Aged
<1>5. tokenReq' \in [Requests -> TokenRequest] /\ jar' \in Cookies
  BY <1>a, <1>b, <1>c, <1>2, <1>3, <1>4
<1>6. TokensTyped'
  BY <1>a, <1>b, <1>c, <1>5 DEF TokensTyped, TokenRequest, Cookies, Pair
\* The pair whose access token aged is not on its way to the browser.
<1>7. ~Presents(n)'
  <2>1. jar.refresh = n \/ \E r \in Requests : tokenReq[r].cookies.refresh = n
    BY <1>a, <1>b, <1>c DEF TokensInv, CookiesPaired
  <2>2. \A r \in Requests : tokenReq[r].pc = "answered" => tokenReq[r].pair # n
    BY <1>a, <1>b, <1>c, <2>1 DEF TokensInv, InTransit
  <2> QED
    BY <1>a, <1>b, <1>c, <1>2, <1>3, <1>4, <2>2 DEF Presents
<1>8. ASSUME NEW m \in DOMAIN origin, Presents(m)' PROVE Presents(m)
  BY <1>a, <1>b, <1>c, <1>2, <1>3, <1>4, <1>8 DEF Presents
<1>9. ASSUME NEW c \in Cookies, CookiesPaired(c)
      PROVE  CookiesPaired(c)' /\ CookiesPaired(Aged(c))'
  <2>1. c.access \in {0, c.refresh} /\ c.refresh \in Pair
    BY <1>9 DEF CookiesPaired, Cookies
  <2>2. c.access = 0 /\ c.refresh # 0 => ~Presents(c.refresh)'
    BY <1>a, <1>b, <1>c, <1>8, <1>9, <2>1 DEF CookiesPaired
  <2>3. CookiesPaired(c)'
    BY <2>1, <2>2 DEF CookiesPaired
  <2>4. CASE c.access = n
    <3>1. Aged(c).access = 0 /\ Aged(c).refresh = n
      BY <1>a, <1>b, <1>c, <1>2, <2>1, <2>4
    <3>2. ~Presents(Aged(c).refresh)'
      BY <1>7, <3>1 DEF Presents
    <3> QED
      BY <2>3, <3>1, <3>2 DEF CookiesPaired
  <2>5. CASE c.access # n
    BY <2>3, <2>5 DEF Aged
  <2> QED
    BY <2>4, <2>5
<1>10. CookiesPaired(jar)' /\ \A o \in Requests : CookiesPaired(tokenReq[o].cookies)'
  BY <1>a, <1>b, <1>c, <1>3, <1>4, <1>9 DEF TokensInv
<1>11. ASSUME NEW o \in Requests PROVE InTransit(o)' /\ Guarded(o)' /\ Sole(o)'
  <2>1. jar'.refresh = jar.refresh /\ \A q \in Requests : tokenReq'[q].cookies.refresh = tokenReq[q].cookies.refresh
    BY <1>a, <1>b, <1>c, <1>2, <1>3, <1>4
  <2>2. InTransit(o) /\ Guarded(o) /\ Sole(o)
    BY DEF TokensInv
  <2>3. InTransit(o)'
    BY <1>3, <2>1, <2>2 DEF InTransit
  <2>4. Guarded(o)'
    BY <1>3, <2>1, <2>2 DEF Guarded
  <2>5. Sole(o)'
    BY <1>a, <1>b, <1>c, <1>3, <2>1, <2>2 DEF Sole, Spends
  <2> QED
    BY <2>3, <2>4, <2>5
<1>12. ASSUME NEW l \in DOMAIN origin PROVE Chain(l)'
  <2>1. \A o \in Requests, t \in DOMAIN origin :
            Spends(o, t)' => Spends(o, t) /\ tokenReq'[o].op = tokenReq[o].op
    BY <1>3 DEF Spends
  <2> QED
    BY <1>a, <1>b, <1>c, <1>8, <2>1, ChainKept DEF TokensInv
<1> QED
  BY <1>a, <1>b, <1>c, <1>6, <1>10, <1>11, <1>12 DEF TokensInv

\* The guard of a logout finds the newest pair of a login; the token of a
\* refresh is spent by no other request, or by two from now on.
LEMMA AdmittedStep ==
    ASSUME TokensInv, NEW r \in Requests, tokenReq[r].op \in A!Spenders, tokenReq[r].pc = "sent",
           A!Handle(r), A!Goto(r, "admitted"), raced' = raced \union A!Races(r),
           UNCHANGED <<jar, revokedA, revokedR, origin, removed, ended>>
    PROVE  TokensInv'
<1> DEFINE op == tokenReq[r].op
           c == tokenReq[r].cookies
           t0 == c.refresh
<1>1. /\ TokensTyped /\ DOMAIN origin = Pair \ {0} /\ 0 \in Pair /\ t0 \in Pair
      /\ CookiesPaired(c) /\ op \in {"refresh", "logout"}
  BY PairsOfTokens DEF TokensInv, TokensTyped, TokenRequest, Cookies, A!Spenders
<1>2. /\ Becomes(r, op, "admitted", c, tokenReq[r].pair)
      /\ tokenReq' \in [Requests -> TokenRequest]
  BY <1>1, GotoBecomes
<1>3. t0 \in DOMAIN origin /\ (op = "refresh" => t0 \notin revokedR)
      /\ (op = "logout" => c.access = t0 /\ t0 \notin revokedA)
  BY <1>1 DEF A!Handle, A!ValidateRefresh, A!VerifyAccessToken, CookiesPaired
<1>4. A!Races(r) \subseteq DOMAIN origin /\
      \A o \in Requests \ {r} : Spends(o, t0) => t0 \in A!Races(r)
  <2>1. ASSUME NEW o \in Requests \ {r}, Spends(o, t0)
        PROVE  t0 \in A!Races(r)
    <3>1. tokenReq[o].op \in A!Spenders
      BY <2>1 DEF TokensInv, Guarded, Spends, A!Spenders
    <3> QED
      BY <1>1, <1>3, <2>1, <3>1 DEF A!Races, Spends
  <2>2. A!Races(r) \subseteq {t0} \ {0}
    BY DEF A!Races
  <2> QED
    BY <1>1, <2>1, <2>2
<1>5. TokensTyped'
  BY <1>1, <1>2, <1>4 DEF TokensTyped, TokenRequest, Cookies, Pair
<1> HIDE DEF op, c
<1>6. /\ \A m \in DOMAIN origin : Presents(m)' => Presents(m)
      /\ CookiesPaired(jar)'
      /\ \A o \in Requests : CookiesPaired(tokenReq[o].cookies)' /\ InTransit(o)'
  <2>1. c \in {A!NoJar, IF "admitted" = "sent" THEN jar ELSE tokenReq[r].cookies}
    BY DEF c
  <2> QED
    BY <1>2, <2>1, OneMoves
<1>7. \A o \in Requests : Guarded(o)'
  BY <1>1, <1>2, <1>3, GuardedKept
<1>8. ASSUME NEW o \in Requests PROVE Sole(o)'
  <2> SUFFICES ASSUME NEW t \in DOMAIN origin \ raced', tokenReq'[o].op = "refresh", Spends(o, t)'
               PROVE  t \notin revokedR /\ \A q \in Requests \ {o} : ~Spends(q, t)'
    BY <1>1 DEF Sole
  <2>1. CASE o = r
    <3>1. t = t0 /\ op = "refresh"
      BY <1>2, <2>1 DEF Spends, Becomes
    <3>2. \A q \in Requests \ {r} : ~Spends(q, t)
      BY <1>4, <3>1
    <3> QED
      BY <1>2, <1>3, <2>1, <3>1, <3>2 DEF Becomes, Spends
  <2>2. CASE o # r
    <3>1. tokenReq'[o] = tokenReq[o] /\ Spends(o, t)
      BY <1>2, <2>2 DEF Becomes, Spends
    <3>2. t # t0
      BY <1>4, <2>2, <3>1
    <3>3. t \notin revokedR /\ \A q \in Requests \ {o} : ~Spends(q, t)
      BY <3>1 DEF TokensInv, Sole
    <3>4. ~Spends(r, t)'
      BY <1>2, <3>2 DEF Becomes, Spends
    <3> QED
      BY <1>2, <3>3, <3>4 DEF Becomes, Spends
  <2> QED
    BY <2>1, <2>2
<1>9. ASSUME NEW l \in DOMAIN origin PROVE Chain(l)'
  <2>1. ASSUME NEW o \in Requests, NEW t \in DOMAIN origin, tokenReq'[o].op = "logout",
               Spends(o, t)', origin[t].login = l, \A m \in raced' : origin[m].login # l
        PROVE  Newest(t) \/ (tokenReq[o].op = "logout" /\ Spends(o, t))
    <3>1. CASE o # r
      BY <1>2, <2>1, <3>1 DEF Becomes, Spends
    <3>2. CASE o = r
      <4>1. t = t0 /\ op = "logout"
        BY <1>2, <2>1, <3>2 DEF Becomes, Spends
      <4>2. t \notin revokedA /\ Presents(t)
        BY <1>3, <4>1 DEF Presents, c
      <4> QED
        BY <2>1, <4>2 DEF TokensInv, Chain
    <3> QED
      BY <3>1, <3>2
  <2> QED
    BY <1>1, <1>6, <2>1, ChainKept DEF TokensInv
<1> QED
  BY <1>1, <1>5, <1>6, <1>7, <1>8, <1>9 DEF TokensInv

LEMMA AdmitStep ==
    ASSUME TokensInv, NEW r \in Requests, A!Admit(r)
    PROVE  TokensInv'
BY AdmittedStep, UnauthorizedStep DEF A!Admit

LEMMA FindUserStep ==
    ASSUME TokensInv, NEW r \in Requests, A!FindUser(r)
    PROVE  TokensInv'
<1>1. CASE A!Unauthorized(r)
  BY <1>1, UnauthorizedStep DEF A!FindUser
<1>2. CASE A!Goto(r, "found")
  <2> DEFINE c == tokenReq[r].cookies
  <2>1. /\ TokensTyped /\ DOMAIN origin = Pair \ {0} /\ c.refresh # 0
        /\ tokenReq[r].op = "refresh" /\ tokenReq[r].pc = "admitted"
        /\ UNCHANGED <<jar, revokedA, revokedR, origin, removed, raced, ended>>
    BY PairsOfTokens DEF TokensInv, Guarded, A!FindUser
  <2>2. /\ Becomes(r, "refresh", "found", c, tokenReq[r].pair)
        /\ tokenReq' \in [Requests -> TokenRequest]
    BY <1>2, <2>1, GotoBecomes
  <2> HIDE DEF c
  <2>3. TokensTyped'
    BY <2>1, <2>2 DEF TokensTyped, TokenRequest, Cookies, Pair
  <2>4. /\ \A m \in DOMAIN origin : Presents(m)' => Presents(m)
        /\ CookiesPaired(jar)'
        /\ \A o \in Requests : CookiesPaired(tokenReq[o].cookies)' /\ InTransit(o)'
    <3>1. c \in {A!NoJar, IF "found" = "sent" THEN jar ELSE tokenReq[r].cookies}
      BY DEF c
    <3> QED
      BY <2>1, <2>2, <3>1, OneMoves
  <2>5. \A o \in Requests : Guarded(o)'
    BY <2>1, <2>2, GuardedKept
  <2>6. ASSUME NEW o \in Requests
        PROVE  /\ tokenReq'[o].op = tokenReq[o].op
               /\ \A t \in DOMAIN origin : Spends(o, t)' <=> Spends(o, t)
    BY <2>1, <2>2 DEF Becomes, Spends, c
  <2>7. \A o \in Requests : Sole(o)'
    BY <2>1, <2>6 DEF Sole, TokensInv
  <2>8. ASSUME NEW l \in DOMAIN origin PROVE Chain(l)'
    BY <2>1, <2>4, <2>6, ChainKept DEF TokensInv
  <2> QED
    BY <2>1, <2>3, <2>4, <2>5, <2>7, <2>8 DEF TokensInv
<1> QED
  BY <1>1, <1>2 DEF A!FindUser

-----------------------------------------------------------------------------
(* A new pair *)

LEMMA Appended ==
    ASSUME TokensTyped, NEW r \in Requests, NEW from \in Pair, A!GenerateTokens(r, from),
           NEW N, N = Len(origin) + 1
    PROVE  /\ origin' \in Seq([from : Nat, login : Nat]) /\ Len(origin') = N /\ N \notin Pair
           /\ DOMAIN origin' = DOMAIN origin \union {N} /\ Pair' = Pair \union {N}
           /\ \A n \in DOMAIN origin : origin'[n] = origin[n]
           /\ origin'[N].from = from /\ origin'[N].login \in 1..N
           /\ from = 0 => origin'[N].login = N
           /\ from \in DOMAIN origin => origin'[N].login \in {origin[from].login}
           /\ Becomes(r, tokenReq[r].op, "answered", A!NoJar, N)
           /\ tokenReq' \in [Requests -> TokenRequest']
<1> DEFINE L == IF from = 0 THEN N ELSE origin[from].login
           q == [from |-> from, login |-> L]
<1>1. /\ Len(origin) \in Nat /\ DOMAIN origin = 1..Len(origin) /\ DOMAIN origin = Pair \ {0}
      /\ 0 \in Pair
  BY PairsOfTokens
<1>2. L \in 1..N
  BY <1>1 DEF TokensTyped, Pair
<1>3. q \in [from : Nat, login : Nat] /\ q.from = from /\ q.login = L
  BY <1>1, <1>2 DEF Pair
<1>4. origin' = Append(origin, q) /\ A!Answer(r, Len(origin'))
  BY DEF A!GenerateTokens
<1> HIDE DEF q, L
<1>5. /\ origin' \in Seq([from : Nat, login : Nat]) /\ Len(origin') = N
      /\ \A n \in 1..Len(origin) : origin'[n] = origin[n]
      /\ origin'[N] = q
  BY <1>1, <1>3, <1>4 DEF TokensTyped
<1>6. DOMAIN origin' = 1..N /\ DOMAIN origin' = DOMAIN origin \union {N} /\ N \notin Pair
  BY <1>1, <1>5 DEF Pair
<1>7. Pair' = Pair \union {N}
  BY <1>1, <1>5 DEF Pair
<1>8. Becomes(r, tokenReq[r].op, "answered", A!NoJar, N)
  BY <1>1, <1>4, <1>5, AnswerBecomes
<1>9. tokenReq' \in [Requests -> TokenRequest']
  <2> DEFINE a == [op |-> tokenReq[r].op, pc |-> "answered", cookies |-> A!NoJar, pair |-> N]
  <2>1. tokenReq' = [tokenReq EXCEPT ![r] = a] /\ tokenReq[r] \in TokenRequest
    BY <1>4, <1>5 DEF TokensTyped, A!Answer
  <2>2. Cookies \subseteq Cookies'
    BY <1>7 DEF Cookies
  <2>3. TokenRequest \subseteq TokenRequest'
    BY <1>7, <2>2 DEF TokenRequest
  <2>4. a \in TokenRequest'
    BY <1>7, <2>1, <2>2, PairsOfTokens DEF TokenRequest
  <2> HIDE DEF a
  <2> QED
    BY <2>1, <2>3, <2>4 DEF TokensTyped
<1> QED
  BY <1>1, <1>2, <1>3, <1>5, <1>6, <1>7, <1>8, <1>9 DEF L

\* What a new pair leaves in order whichever login it belongs to.
LEMMA Mints ==
    ASSUME TokensInv, NEW r \in Requests, NEW from \in Pair, A!GenerateTokens(r, from),
           UNCHANGED <<jar, removed, raced, ended>>,
           revokedA \subseteq revokedA', revokedA' \subseteq DOMAIN origin,
           revokedR \subseteq revokedR', revokedR' \subseteq DOMAIN origin,
           revokedR' = revokedR \/
               /\ tokenReq[r].pc \in {"admitted", "found"}
               /\ revokedR' \subseteq revokedR \union {tokenReq[r].cookies.refresh},
           NEW N, N = Len(origin) + 1
    PROVE  /\ TokensTyped' /\ CookiesPaired(jar)'
           /\ \A o \in Requests :
                CookiesPaired(tokenReq[o].cookies)' /\ InTransit(o)' /\ Guarded(o)' /\ Sole(o)'
           /\ \A m \in DOMAIN origin : Presents(m)' => Presents(m)
           /\ \A l \in DOMAIN origin' : l # origin'[N].login => Chain(l)'
<1>1. /\ TokensTyped /\ DOMAIN origin = Pair \ {0} /\ 0 \in Pair /\ N \in Nat \ {0}
  BY PairsOfTokens DEF TokensInv
<1>2. /\ origin' \in Seq([from : Nat, login : Nat]) /\ Len(origin') = N /\ N \notin Pair
      /\ DOMAIN origin' = DOMAIN origin \union {N} /\ Pair' = Pair \union {N}
      /\ \A n \in DOMAIN origin : origin'[n] = origin[n]
      /\ origin'[N].from = from /\ origin'[N].login \in 1..N
      /\ Becomes(r, tokenReq[r].op, "answered", A!NoJar, N)
      /\ tokenReq' \in [Requests -> TokenRequest']
  BY <1>1, Appended
<1>3. TokensTyped'
  <2>1. jar \in Cookies'
    BY <1>1, <1>2 DEF TokensTyped, Cookies
  <2>2. \A n \in DOMAIN origin' : origin'[n].from \in 0..(n - 1) /\ origin'[n].login \in 1..n
    <3>1. from \in 0..(N - 1)
      BY <1>1 DEF Pair
    <3> QED
      BY <1>1, <1>2, <3>1 DEF TokensTyped
  <2> QED
    BY <1>1, <1>2, <2>1, <2>2 DEF TokensTyped
<1>4. /\ \A m \in DOMAIN origin : Presents(m)' => Presents(m)
      /\ CookiesPaired(jar)'
      /\ \A o \in Requests : CookiesPaired(tokenReq[o].cookies)' /\ InTransit(o)'
  BY <1>2, OneMoves
<1>5. \A o \in Requests : Guarded(o)'
  BY <1>2, GuardedKept
<1>6. \A o \in Requests : Sole(o)'
  BY <1>1, <1>2, SoleKept
<1>7. ASSUME NEW l \in DOMAIN origin, l # origin'[N].login PROVE Chain(l)'
  <2>1. \A t \in raced \union ended \union revokedR' \union revokedA' :
            t \in DOMAIN origin /\ origin'[t] = origin[t]
    BY <1>1, <1>2 DEF TokensTyped
  <2>2. SUFFICES ASSUME \A t \in raced : origin[t].login # l
                 PROVE  /\ \A n \in A!Live(l)' : Newest(n)'
                        /\ (\E t \in ended : origin[t].login = l) => A!Live(l)' = {}
                        /\ \A n \in DOMAIN origin' : origin'[n].login = l /\ ~Newest(n)' =>
                             n \in revokedA' \/ ~Presents(n)'
                        /\ \A o \in Requests, t \in DOMAIN origin' :
                             tokenReq'[o].op = "logout" /\ Spends(o, t)' /\ origin'[t].login = l
                                 => Newest(t)'
    BY <2>1 DEF Chain
  <2>3. A!Live(l)' \subseteq A!Live(l) /\ A!Live(l) \subseteq DOMAIN origin
    BY <1>2, <1>7 DEF A!Live, A!Minted
  <2>4. \A n \in DOMAIN origin : origin[n].login = l => (Newest(n)' <=> Newest(n))
    BY <1>2, <1>7 DEF Newest
  <2>5. \A n \in A!Live(l) : origin[n].login = l
    BY DEF A!Live
  <2>6. Chain(l)
    BY DEF TokensInv
  <2>7. \A n \in A!Live(l)' : Newest(n)'
    BY <2>2, <2>3, <2>4, <2>5, <2>6 DEF Chain
  <2>8. (\E t \in ended : origin[t].login = l) => A!Live(l)' = {}
    BY <2>2, <2>3, <2>6 DEF Chain
  <2>9. \A n \in DOMAIN origin' : origin'[n].login = l /\ ~Newest(n)' => n \in revokedA' \/ ~Presents(n)'
    BY <1>2, <1>4, <1>7, <2>2, <2>4, <2>6 DEF Chain
  <2>10. ASSUME NEW o \in Requests, NEW t \in DOMAIN origin', tokenReq'[o].op = "logout",
                Spends(o, t)', origin'[t].login = l
         PROVE  Newest(t)'
    <3>1. tokenReq[o].op = "logout" /\ Spends(o, t)
      BY <1>2, <2>10 DEF Becomes, Spends
    <3> QED
      BY <1>2, <1>7, <2>2, <2>4, <2>6, <2>10, <3>1 DEF Chain
  <2> QED
    BY <2>7, <2>8, <2>9, <2>10
<1>8. ASSUME N # origin'[N].login PROVE Chain(N)'
  <2>1. \A n \in DOMAIN origin' : origin'[n].login # N
    <3>1. \A n \in DOMAIN origin : origin[n].login \in 1..n /\ n \in 1..Len(origin)
      BY <1>1, PairsOfTokens DEF TokensTyped
    <3> QED
      BY <1>1, <1>2, <1>8, <3>1, PairsOfTokens
  <2>2. A!Live(N)' = {}
    BY <2>1 DEF A!Live, A!Minted
  <2>3. \A t \in ended' : origin'[t].login # N
    BY <1>3, <2>1 DEF TokensTyped
  <2> QED
    BY <2>1, <2>2, <2>3 DEF Chain
<1> QED
  BY <1>2, <1>3, <1>4, <1>5, <1>6, <1>7, <1>8

LEMMA LoginStep ==
    ASSUME TokensInv, NEW r \in Requests, A!Login(r)
    PROVE  TokensInv'
<1>1. CASE removed
  BY <1>1, DropStep DEF A!Login
<1>2. CASE ~removed
  <2>2. PICK N : N = Len(origin) + 1
    OBVIOUS
  <2>1. /\ TokensTyped /\ DOMAIN origin = Pair \ {0} /\ 0 \in Pair
        /\ A!GenerateTokens(r, 0) /\ UNCHANGED <<jar, revokedA, revokedR, removed, raced, ended>>
    BY <1>2, PairsOfTokens DEF TokensInv, A!Login
  <2>3. /\ DOMAIN origin' = DOMAIN origin \union {N} /\ N \notin Pair /\ origin'[N].login = N
        /\ \A n \in DOMAIN origin : origin'[n] = origin[n]
        /\ Becomes(r, tokenReq[r].op, "answered", A!NoJar, N)
    BY <2>1, <2>2, Appended
  <2>4. /\ TokensTyped' /\ CookiesPaired(jar)'
        /\ \A o \in Requests :
             CookiesPaired(tokenReq[o].cookies)' /\ InTransit(o)' /\ Guarded(o)' /\ Sole(o)'
        /\ \A m \in DOMAIN origin : Presents(m)' => Presents(m)
        /\ \A l \in DOMAIN origin' : l # origin'[N].login => Chain(l)'
    <3>1. revokedA \subseteq DOMAIN origin /\ revokedR \subseteq DOMAIN origin
      BY <2>1 DEF TokensTyped
    <3> QED
      BY <2>1, <2>2, <3>1, Mints
  <2>5. Chain(N)'
    <3>1. \A n \in DOMAIN origin : origin'[n].login # N
      <4>1. \A n \in DOMAIN origin : origin[n].login \in 1..n /\ n \in 1..Len(origin)
        BY <2>1, PairsOfTokens DEF TokensTyped
      <4> QED
        BY <2>1, <2>2, <2>3, <4>1, PairsOfTokens
    <3>2. \A n \in DOMAIN origin' : origin'[n].login = N => n = N
      BY <2>3, <3>1
    <3>3. Newest(N)'
      BY <2>2, <2>3, <3>2, PairsOfTokens, <2>1 DEF Newest
    <3>4. \A t \in ended' : origin'[t].login # N
      BY <2>1, <3>1 DEF TokensTyped
    <3>5. A!Live(N)' \subseteq {N}
      BY <3>2 DEF A!Live, A!Minted
    <3> QED
      BY <3>2, <3>3, <3>4, <3>5 DEF Chain
  <2> QED
    BY <2>3, <2>4, <2>5 DEF TokensInv
<1> QED
  BY <1>1, <1>2

\* The token that is spent is the newest of its login, if that was not raced,
\* and hands over to the pair it mints.
LEMMA RefreshStep ==
    ASSUME TokensInv, NEW r \in Requests, A!RefreshTokens(r)
    PROVE  TokensInv'
<1>3. PICK N : N = Len(origin) + 1
  OBVIOUS
<1>c. PICK c : c = tokenReq[r].cookies
  OBVIOUS
<1>t. PICK t : t = c.refresh
  OBVIOUS
<1>l. PICK l : l = origin[t].login
  OBVIOUS
<1>1. /\ TokensTyped /\ DOMAIN origin = Pair \ {0} /\ 0 \in Pair
      /\ c.access \in Pair /\ t \in Pair /\ CookiesPaired(c)
      /\ tokenReq[r].op = "refresh" /\ tokenReq[r].pc = "found"
      /\ A!GenerateTokens(r, t) /\ UNCHANGED <<jar, removed, raced, ended>>
      /\ revokedA' = revokedA \union ({c.access} \ {0}) /\ revokedR' = revokedR \union ({t} \ {0})
  BY <1>c, <1>t, PairsOfTokens DEF TokensInv, A!RefreshTokens, A!Revoke, TokensTyped, TokenRequest, Cookies
<1>2. t \in DOMAIN origin
  BY <1>1, <1>c, <1>t DEF TokensInv, Guarded
<1>4. /\ DOMAIN origin' = DOMAIN origin \union {N} /\ N \notin Pair
      /\ origin'[N].login = l /\ l \in DOMAIN origin
      /\ \A n \in DOMAIN origin : origin'[n] = origin[n]
      /\ Becomes(r, tokenReq[r].op, "answered", A!NoJar, N)
  <2>1. l \in DOMAIN origin
    <3>1. Len(origin) \in Nat /\ DOMAIN origin = 1..Len(origin) /\ l \in 1..t
      BY <1>1, <1>2, <1>l, PairsOfTokens DEF TokensTyped
    <3> QED
      BY <1>2, <3>1
  <2>2. /\ DOMAIN origin' = DOMAIN origin \union {N} /\ N \notin Pair
        /\ origin'[N].login \in {origin[t].login}
        /\ \A n \in DOMAIN origin : origin'[n] = origin[n]
        /\ Becomes(r, tokenReq[r].op, "answered", A!NoJar, N)
    BY <1>1, <1>2, <1>3, Appended
  <2> QED
    BY <1>l, <2>1, <2>2
<1>5. /\ TokensTyped' /\ CookiesPaired(jar)'
      /\ \A o \in Requests :
           CookiesPaired(tokenReq[o].cookies)' /\ InTransit(o)' /\ Guarded(o)' /\ Sole(o)'
      /\ \A m \in DOMAIN origin : Presents(m)' => Presents(m)
      /\ \A k \in DOMAIN origin' : k # origin'[N].login => Chain(k)'
  <2>1. /\ revokedA \subseteq revokedA' /\ revokedA' \subseteq DOMAIN origin
        /\ revokedR \subseteq revokedR' /\ revokedR' \subseteq DOMAIN origin
        /\ revokedR' \subseteq revokedR \union {tokenReq[r].cookies.refresh}
    BY <1>1, <1>c, <1>t DEF TokensTyped
  <2> QED
    BY <1>1, <1>3, <2>1, Mints
<1>6. Chain(l)'
  <2>1. \A m \in raced \union ended : m \in DOMAIN origin /\ origin'[m] = origin[m]
    BY <1>1, <1>4 DEF TokensTyped
  <2>2. SUFFICES ASSUME \A m \in raced : origin[m].login # l
                 PROVE  /\ \A n \in A!Live(l)' : Newest(n)'
                        /\ \A m \in ended : origin[m].login # l
                        /\ \A n \in DOMAIN origin' : origin'[n].login = l /\ ~Newest(n)' =>
                             n \in revokedA' \/ ~Presents(n)'
                        /\ \A o \in Requests, n \in DOMAIN origin' :
                             tokenReq'[o].op = "logout" /\ Spends(o, n)' /\ origin'[n].login = l
                                 => Newest(n)'
    <3>1. raced' = raced /\ ended' = ended /\ origin'[t] = origin[t]
      BY <1>1, <1>2, <1>4
    <3> QED
      BY <1>4, <2>1, <3>1 DEF Chain
  <2>3. /\ Spends(r, t) /\ t \notin raced
        /\ t \notin revokedR /\ \A o \in Requests \ {r} : ~Spends(o, t)
    BY <1>1, <1>2, <1>c, <1>t, <1>l, <2>2 DEF Spends, TokensInv, Sole
  <2>4. Chain(l)
    BY <1>4 DEF TokensInv
  <2>5. t \in A!Live(l) /\ A!Live(l) \subseteq DOMAIN origin
    BY <1>2, <1>l, <2>3 DEF A!Live, A!Minted
  <2>6. Newest(t) /\ \A m \in ended : origin[m].login # l
    BY <2>2, <2>4, <2>5 DEF Chain
  <2>7. \A n \in DOMAIN origin : origin[n].login = l /\ Newest(n) => n = t
    BY <1>1, <1>2, <1>l, <2>6, PairsOfTokens DEF Newest
  <2>8. Newest(N)'
    <3>1. \A n \in DOMAIN origin' : n <= N
      BY <1>1, <1>3, <1>4, PairsOfTokens
    <3> QED
      BY <3>1 DEF Newest
  <2>9. A!Live(l)' \subseteq {N}
    <3>1. ASSUME NEW n \in A!Live(l)', n # N PROVE FALSE
      <4>1. n \in DOMAIN origin /\ n \notin revokedR' /\ origin[n].login = l
        BY <1>4, <3>1 DEF A!Live, A!Minted
      <4>2. n \in A!Live(l)
        BY <1>1, <4>1 DEF A!Live, A!Minted
      <4>3. n = t
        BY <2>2, <2>4, <2>7, <4>1, <4>2 DEF Chain
      <4> QED
        BY <1>1, <1>2, <4>1, <4>3
    <3> QED
      BY <3>1
  <2>10. ASSUME NEW n \in DOMAIN origin', origin'[n].login = l, ~Newest(n)'
         PROVE  n \in revokedA' \/ ~Presents(n)'
    <3>1. n \in DOMAIN origin /\ origin[n].login = l
      BY <1>4, <2>8, <2>10
    <3>2. CASE n = t
      <4>1. c.access = t \/ ~Presents(t)
        BY <1>1, <1>2, <1>t DEF CookiesPaired
      <4> QED
        BY <1>1, <1>2, <1>5, <3>2, <4>1
    <3>3. CASE n # t
      BY <1>1, <1>5, <2>2, <2>4, <2>7, <3>1, <3>3 DEF Chain
    <3> QED
      BY <3>2, <3>3
  <2>11. ASSUME NEW o \in Requests, NEW n \in DOMAIN origin', tokenReq'[o].op = "logout",
                Spends(o, n)', origin'[n].login = l
         PROVE  FALSE
    <3>1. o # r /\ tokenReq[o].op = "logout" /\ Spends(o, n) /\ tokenReq[o] \in TokenRequest
      BY <1>1, <1>4, <2>11 DEF Becomes, Spends, TokensTyped
    <3>2. n \in DOMAIN origin /\ origin[n].login = l
      BY <1>4, <2>11, <3>1 DEF Spends, TokenRequest, Cookies
    <3>3. n = t
      BY <2>2, <2>4, <2>7, <3>1, <3>2 DEF Chain
    <3> QED
      BY <2>3, <3>1, <3>3
  <2> QED
    BY <2>6, <2>8, <2>9, <2>10, <2>11
<1> QED
  BY <1>4, <1>5, <1>6 DEF TokensInv

LEMMA LogoutStep ==
    ASSUME TokensInv, NEW r \in Requests, A!Logout(r)
    PROVE  TokensInv'
<1>c. PICK c : c = tokenReq[r].cookies
  OBVIOUS
<1>t. PICK t : t = c.refresh
  OBVIOUS
<1>1. /\ TokensTyped /\ DOMAIN origin = Pair \ {0} /\ 0 \in Pair
      /\ c.access \in Pair /\ t \in Pair
      /\ tokenReq[r].op = "logout" /\ tokenReq[r].pc = "admitted"
      /\ A!Answer(r, 0) /\ UNCHANGED <<jar, origin, removed, raced>>
      /\ revokedA' = revokedA \union ({c.access} \ {0}) /\ revokedR' = revokedR \union ({t} \ {0})
      /\ ended' = ended \union ({t} \ {0})
  BY <1>c, <1>t, PairsOfTokens DEF TokensInv, A!Logout, A!Revoke, TokensTyped, TokenRequest, Cookies
<1>2. t \in DOMAIN origin /\ Spends(r, t)
  BY <1>1, <1>c, <1>t DEF TokensInv, Guarded, Spends
<1>3. /\ Becomes(r, "logout", "answered", A!NoJar, 0)
      /\ tokenReq' \in [Requests -> TokenRequest]
  BY <1>1, AnswerBecomes
<1>4. ASSUME NEW m \in ended', \A k \in raced : origin[k].login # origin[m].login
      PROVE  m \in ended \/ A!Live(origin[m].login)' = {}
  <2>1. SUFFICES ASSUME m = t PROVE A!Live(origin[t].login)' = {}
    BY <1>1, <1>4
  <2>l. PICK l : l = origin[t].login
    OBVIOUS
  <2>2. Chain(l) /\ Newest(t)
    <3>1. l \in DOMAIN origin
      BY <1>1, <1>2, <2>l, PairsOfTokens DEF TokensTyped
    <3> QED
      BY <1>1, <1>2, <1>4, <2>1, <2>l, <3>1 DEF TokensInv, Chain
  <2>3. ASSUME NEW n \in A!Live(l)' PROVE FALSE
    <3>1. n \in DOMAIN origin /\ n \notin revokedR /\ n # t /\ origin[n].login = l
      BY <1>1, <1>2, <2>3 DEF A!Live, A!Minted
    <3>2. Newest(n)
      BY <1>4, <2>1, <2>l, <2>2, <3>1 DEF Chain, A!Live, A!Minted
    <3> QED
      BY <1>1, <1>2, <2>l, <2>2, <3>1, <3>2, PairsOfTokens DEF Newest
  <2>4. A!Live(l)' = {}
    BY <2>3
  <2>5. l = origin'[t].login
    BY <1>1, <2>l
  <2> QED
    BY <2>4, <2>5
<1>5. /\ revokedA \subseteq revokedA' /\ revokedA' \subseteq DOMAIN origin
      /\ revokedR \subseteq revokedR' /\ revokedR' \subseteq DOMAIN origin
      /\ revokedR' \subseteq revokedR \union {tokenReq[r].cookies.refresh}
      /\ ended' \subseteq DOMAIN origin
  BY <1>1, <1>c, <1>t DEF TokensTyped
<1> QED
  BY <1>1, <1>3, <1>4, <1>5, PlainStep

LEMMA RevokeFailsStep ==
    ASSUME TokensInv, NEW r \in Requests, A!RevokeFails(r)
    PROVE  TokensInv'
<1> DEFINE c == tokenReq[r].cookies
<1>1. /\ TokensTyped /\ DOMAIN origin = Pair \ {0} /\ c.access \in Pair /\ c.refresh \in Pair
      /\ tokenReq[r].pc \in {"admitted", "found"} /\ A!Drop(r)
      /\ UNCHANGED <<jar, origin, removed, raced, ended>>
      /\ revokedA' = revokedA \/ revokedA' = revokedA \union ({c.access} \ {0})
      /\ revokedR' = revokedR \/ revokedR' = revokedR \union ({c.refresh} \ {0})
  BY PairsOfTokens DEF TokensInv, A!RevokeFails, TokensTyped, TokenRequest, Cookies
<1>2. /\ Becomes(r, "none", "idle", A!NoJar, 0)
      /\ tokenReq' \in [Requests -> TokenRequest]
  BY <1>1, DropBecomes
<1>3. /\ revokedA \subseteq revokedA' /\ revokedA' \subseteq DOMAIN origin
      /\ revokedR \subseteq revokedR' /\ revokedR' \subseteq DOMAIN origin
      /\ revokedR' \subseteq revokedR \union {tokenReq[r].cookies.refresh}
      /\ ended' = ended /\ ended' \subseteq DOMAIN origin
  BY <1>1 DEF TokensTyped
<1> QED
  BY <1>1, <1>2, <1>3, PlainStep

LEMMA TokensUnmoved ==
    ASSUME TokensInv, removed' \in BOOLEAN,
           UNCHANGED <<jar, revokedA, revokedR, origin, tokenReq, raced, ended>>
    PROVE  TokensInv'
<1>1. TokensTyped'
  BY DEF TokensInv, TokensTyped, TokenRequest, Cookies, Pair
<1>2. \A n : Presents(n)' <=> Presents(n)
  BY DEF Presents
<1>3. CookiesPaired(jar)'
  BY <1>2 DEF TokensInv, CookiesPaired
<1>4. ASSUME NEW r \in Requests
      PROVE  CookiesPaired(tokenReq[r].cookies)' /\ InTransit(r)' /\ Guarded(r)' /\ Sole(r)'
  <2>1. CookiesPaired(tokenReq[r].cookies) /\ InTransit(r) /\ Guarded(r) /\ Sole(r)
    BY DEF TokensInv
  <2>2. CookiesPaired(tokenReq[r].cookies)'
    BY <1>2, <2>1 DEF CookiesPaired
  <2>3. InTransit(r)' /\ Guarded(r)'
    BY <2>1 DEF InTransit, Guarded
  <2>4. Sole(r)'
    BY <2>1 DEF Sole, Spends
  <2> QED
    BY <2>2, <2>3, <2>4
<1>5. ASSUME NEW l \in DOMAIN origin PROVE Chain(l)'
  BY <1>2, ChainKept DEF TokensInv, Spends
<1> QED
  BY <1>1, <1>3, <1>4, <1>5 DEF TokensInv

LEMMA TokensStep ==
    ASSUME TokensInv, [A!Next]_tokenState
    PROVE  TokensInv'
<1>1. CASE UNCHANGED tokenState
  BY <1>1, TokensUnmoved DEF tokenState, TokensInv, TokensTyped
<1>2. ASSUME NEW r \in Requests, A!Fail(r) PROVE TokensInv'
  BY <1>2, DropStep DEF A!Fail
<1>3. CASE A!Remove
  <2>1. /\ UNCHANGED <<jar, revokedA, revokedR, origin, tokenReq, raced, ended>>
        /\ removed' \in BOOLEAN
    BY <1>3 DEF A!Remove
  <2> QED
    BY <2>1, TokensUnmoved
<1> QED
  BY <1>1, <1>2, <1>3, SendStep, AdmitStep, FindUserStep, LoginStep, RefreshStep, LogoutStep,
     DeliverStep, RevokeFailsStep, ExpireAccessStep DEF A!Next, A!Step

-----------------------------------------------------------------------------
(***************************************************************************)
(* The profile.  Unless something is known to have gone wrong, whoever is   *)
(* about to write the cache or the row holds the version of the row, and a  *)
(* cached profile that differs is about to be replaced by that version.     *)
(***************************************************************************)

Writes(c) == profileReq[c].op = "google" /\ profileReq[c].pc \in {"linking", "found"}

\* What a Google login that nothing overlapped has found still holds.
LoginFits(c) ==
    profileReq[c].op = "google" /\ profileReq[c].alone =>
        /\ profileReq[c].pc \in {"unlinked", "absent", "linking"} => ~linked
        /\ profileReq[c].pc = "absent" => row = 0
        /\ profileReq[c].pc \in {"linking", "found"} => row # 0 /\ profileReq[c].value # 0

NoUser == row = 0 => ~linked

Fresh ==
    ~tainted =>
        /\ \A c \in Requests : P!Holding(c) => profileReq[c].value \in {0, row}
        /\ \/ profile \in {0, row}
           \/ \E c \in Requests :
                /\ profileReq[c].op \in {"update", "google"} /\ row # 0
                /\ profileReq[c].pc = "caching" /\ profileReq[c].value = row

Kept ==
    ~overtaken =>
        /\ row = edits
        /\ row # 0 => \A c \in Requests : Writes(c) => profileReq[c].value \in {0, row}

ProfileInv ==
    /\ P!TypeOK /\ NoUser /\ Fresh /\ Kept
    /\ ~googleRefused /\ \A c \in Requests : LoginFits(c)

ProfileRequest ==
    [op : {"register", "login", "google", "me", "update", "create", "none"},
     pc : {"idle", "sent", "absent", "unlinked", "linking", "found", "caching", "done"},
     value : 0..MaxVersion, alone : BOOLEAN]

\* What a step makes of one request; the others keep at least what they know.
Moves(c, op, pc, value) ==
    /\ profileReq' \in [Requests -> ProfileRequest]
    /\ profileReq'[c].op = op /\ profileReq'[c].pc = pc /\ profileReq'[c].value = value
    /\ \A o \in Requests \ {c} :
         /\ profileReq'[o].op = profileReq[o].op /\ profileReq'[o].pc = profileReq[o].pc
         /\ profileReq'[o].value = profileReq[o].value
         /\ profileReq'[o].alone => profileReq[o].alone

LEMMA ProfileTyped ==
    /\ MaxVersion \in Nat /\ {0, 1} \subseteq 0..MaxVersion
    /\ P!TypeOK <=>
         /\ row \in 0..MaxVersion /\ edits \in 0..MaxVersion /\ profile \in 0..MaxVersion
         /\ linked \in BOOLEAN /\ tainted \in BOOLEAN /\ overtaken \in BOOLEAN
         /\ googleRefused \in BOOLEAN /\ profileReq \in [Requests -> ProfileRequest]
BY EdgeAssumption DEF P!TypeOK, P!Ops, ProfileRequest

LEMMA GotoMoves ==
    ASSUME P!TypeOK, NEW c \in Requests, NEW value \in 0..MaxVersion,
           NEW pc \in {"absent", "unlinked", "linking", "found", "caching", "done"},
           P!Goto(c, pc, value)
    PROVE  Moves(c, profileReq[c].op, pc, value) /\ profileReq'[c].alone = profileReq[c].alone
<1> DEFINE q == [profileReq[c] EXCEPT !.pc = pc, !.value = value]
<1>1. profileReq[c] \in ProfileRequest /\ profileReq \in [Requests -> ProfileRequest]
  BY ProfileTyped
<1>2. /\ q \in ProfileRequest /\ q.op = profileReq[c].op /\ q.pc = pc /\ q.value = value
      /\ q.alone = profileReq[c].alone
  BY <1>1 DEF ProfileRequest
<1>3. profileReq' = [profileReq EXCEPT ![c] = q]
  BY <1>1 DEF P!Goto
<1> HIDE DEF q
<1> QED
  BY <1>1, <1>2, <1>3 DEF Moves

LEMMA DropMoves ==
    ASSUME P!TypeOK, NEW c \in Requests, P!Drop(c)
    PROVE  Moves(c, "none", "idle", 0)
<1>1. P!Idle \in ProfileRequest /\ P!Idle.op = "none" /\ P!Idle.pc = "idle" /\ P!Idle.value = 0
  BY ProfileTyped DEF P!Idle, ProfileRequest
<1>2. profileReq' = [profileReq EXCEPT ![c] = P!Idle] /\ profileReq \in [Requests -> ProfileRequest]
  BY ProfileTyped DEF P!Drop
<1> QED
  BY <1>1, <1>2 DEF Moves

LEMMA TouchMoves ==
    ASSUME P!TypeOK, NEW c \in Requests, NEW value \in 0..MaxVersion,
           NEW pc \in {"linking", "found", "caching", "done"}, P!Touch(c, pc, value)
    PROVE  /\ Moves(c, profileReq[c].op, pc, value) /\ profileReq'[c].alone = profileReq[c].alone
           /\ \A o \in Requests \ {c} : ~profileReq'[o].alone
<1>1. \A o \in Requests : profileReq[o] \in ProfileRequest
  BY ProfileTyped
<1> DEFINE q(o) == IF o = c THEN [profileReq[c] EXCEPT !.pc = pc, !.value = value]
                            ELSE [profileReq[o] EXCEPT !.alone = FALSE]
<1>2. ASSUME NEW o \in Requests
      PROVE  /\ q(o) \in ProfileRequest /\ q(o).op = profileReq[o].op
             /\ o = c => q(o).pc = pc /\ q(o).value = value /\ q(o).alone = profileReq[o].alone
             /\ o # c => /\ q(o).pc = profileReq[o].pc /\ q(o).value = profileReq[o].value
                         /\ q(o).alone = FALSE
  <2>1. CASE o = c
    BY <1>1, <2>1 DEF ProfileRequest
  <2>2. CASE o # c
    BY <1>1, <2>2 DEF ProfileRequest
  <2> QED
    BY <2>1, <2>2
<1>3. profileReq' = [o \in Requests |-> q(o)]
  BY DEF P!Touch
<1> HIDE DEF q
<1> QED
  BY <1>2, <1>3 DEF Moves

-----------------------------------------------------------------------------
\* A request moves on with the version of the row, or with none.
LEMMA SameRow ==
    ASSUME ProfileInv, NEW c \in Requests, NEW op, NEW pc, NEW value \in {0, row},
           Moves(c, op, pc, value), tainted' \in BOOLEAN,
           UNCHANGED <<row, edits, linked, profile, overtaken, googleRefused>>,
           ~tainted' => ~tainted /\ profileReq[c].pc # "caching",
           LoginFits(c)'
    PROVE  ProfileInv'
<1>1. P!TypeOK' /\ P!TypeOK
  BY ProfileTyped DEF ProfileInv, Moves, P!TypeOK, P!Ops, ProfileRequest
<1>2. NoUser'
  BY DEF ProfileInv, NoUser, Moves
<1>3. Kept'
  BY DEF ProfileInv, Kept, Moves, Writes
<1>4. ASSUME NEW o \in Requests PROVE LoginFits(o)'
  <2>1. CASE o = c
    BY <2>1
  <2>2. CASE o # c
    BY <2>2 DEF ProfileInv, LoginFits, Moves
  <2> QED
    BY <2>1, <2>2
<1>5. Fresh'
  <2> SUFFICES ASSUME ~tainted'
               PROVE  /\ \A o \in Requests : P!Holding(o)' => profileReq'[o].value \in {0, row}
                      /\ \/ profile \in {0, row}
                         \/ \E o \in Requests :
                              /\ profileReq'[o].op \in {"update", "google"} /\ row # 0
                              /\ profileReq'[o].pc = "caching" /\ profileReq'[o].value = row
    BY DEF Fresh
  <2>1. \A o \in Requests : P!Holding(o)' => profileReq'[o].value \in {0, row}
    BY DEF ProfileInv, Fresh, Moves, P!Holding
  <2>2. ASSUME NEW o \in Requests, profileReq[o].op \in {"update", "google"},
               profileReq[o].pc = "caching", profileReq[o].value = row
        PROVE  profile \in {0, row} \/ /\ profileReq'[o].op \in {"update", "google"}
                                       /\ profileReq'[o].pc = "caching" /\ profileReq'[o].value = row
    <3>1. CASE o # c
      BY <2>2, <3>1 DEF Moves
    <3>2. CASE o = c
      BY <2>2, <3>2 DEF Moves
    <3> QED
      BY <3>1, <3>2
  <2> QED
    BY <2>1, <2>2 DEF ProfileInv, Fresh
<1> QED
  BY <1>1, <1>2, <1>3, <1>4, <1>5 DEF ProfileInv

LEMMA ProfileSend ==
    ASSUME ProfileInv, NEW c \in Requests, NEW op \in P!Ops, P!Send(c, op)
    PROVE  ProfileInv'
<1> DEFINE q == [P!Idle EXCEPT !.op = op, !.pc = "sent"]
<1>1. /\ P!TypeOK /\ profileReq \in [Requests -> ProfileRequest] /\ profileReq[c] = P!Idle
      /\ P!Idle.pc = "idle" /\ tainted \in BOOLEAN
      /\ profileReq' = [profileReq EXCEPT ![c] = q]
      /\ UNCHANGED <<row, edits, linked, profile, tainted, overtaken, googleRefused>>
  BY ProfileTyped DEF P!Send, P!Idle, ProfileInv
<1>2. q \in ProfileRequest /\ q.op = op /\ q.pc = "sent" /\ q.value = 0
  BY ProfileTyped DEF ProfileRequest, P!Idle, P!Ops
<1> HIDE DEF q
<1>3. Moves(c, op, "sent", 0)
  BY <1>1, <1>2 DEF Moves
<1>4. LoginFits(c)'
  BY <1>3 DEF LoginFits, Moves
<1> QED
  BY <1>1, <1>3, <1>4, SameRow

\* A request ends without an effect; one that held a version taints.
LEMMA ProfileDrop ==
    ASSUME ProfileInv, NEW c \in Requests, P!Drop(c),
           UNCHANGED <<row, edits, linked, profile, overtaken, googleRefused>>,
           tainted' \in BOOLEAN, ~tainted' => ~tainted /\ profileReq[c].pc # "caching"
    PROVE  ProfileInv'
<1>1. Moves(c, "none", "idle", 0)
  BY DropMoves DEF ProfileInv
<1>2. LoginFits(c)'
  BY <1>1 DEF LoginFits, Moves
<1> QED
  BY <1>1, <1>2, SameRow

\* A version is read, or its absence noticed, and nothing else happens.
LEMMA ProfileGoto ==
    ASSUME ProfileInv, NEW c \in Requests, NEW value \in {0, row},
           NEW pc \in {"absent", "unlinked", "linking", "found", "caching", "done"},
           P!Goto(c, pc, value), profileReq[c].pc # "caching",
           UNCHANGED <<row, edits, linked, profile, tainted, overtaken, googleRefused>>,
           profileReq[c].op = "google" /\ profileReq[c].alone =>
               /\ pc \in {"unlinked", "absent", "linking"} => ~linked
               /\ pc = "absent" => row = 0
               /\ pc \in {"linking", "found"} => value # 0
    PROVE  ProfileInv'
<1>1. P!TypeOK /\ value \in 0..MaxVersion /\ tainted \in BOOLEAN
  BY ProfileTyped DEF ProfileInv
<1>2. Moves(c, profileReq[c].op, pc, value) /\ profileReq'[c].alone = profileReq[c].alone
  BY <1>1, GotoMoves
<1>3. LoginFits(c)'
  BY <1>2 DEF LoginFits, Moves
<1> QED
  BY <1>1, <1>2, <1>3, SameRow

LEMMA ProfileReads ==
    ASSUME ProfileInv, NEW c \in Requests,
           P!Done(c) \/ P!ReadRow(c) \/ P!FindAccount(c) \/ P!FindUser(c)
    PROVE  ProfileInv'
<1>1. tainted \in BOOLEAN /\ row \in 0..MaxVersion /\ NoUser /\ LoginFits(c)
  BY ProfileTyped DEF ProfileInv
<1>2. CASE P!Done(c)
  BY <1>1, <1>2, ProfileDrop DEF P!Done
<1>3. CASE P!ReadRow(c)
  <2>1. CASE row = 0
    BY <1>1, <1>3, <2>1, ProfileDrop DEF P!ReadRow
  <2>2. CASE row # 0
    BY <1>3, <2>2, ProfileGoto DEF P!ReadRow
  <2> QED
    BY <2>1, <2>2
<1>4. CASE P!FindAccount(c)
  <2>1. CASE linked
    BY <1>1, <1>4, <2>1, ProfileGoto DEF P!FindAccount, NoUser
  <2>2. CASE ~linked
    BY <1>4, <2>2, ProfileGoto DEF P!FindAccount
  <2> QED
    BY <2>1, <2>2
<1>5. CASE P!FindUser(c)
  <2>1. profileReq[c].op = "google" /\ profileReq[c].alone => ~linked
    BY <1>1, <1>5 DEF LoginFits, P!FindUser
  <2>2. CASE row # 0
    BY <1>5, <2>1, <2>2, ProfileGoto DEF P!FindUser, P!FindByEmail
  <2>3. CASE row = 0
    BY <1>5, <2>1, <2>3, ProfileGoto DEF P!FindUser, P!FindByEmail
  <2> QED
    BY <2>2, <2>3
<1> QED
  BY <1>2, <1>3, <1>4, <1>5

LEMMA ProfileFail ==
    ASSUME ProfileInv, NEW c \in Requests, P!Fail(c)
    PROVE  ProfileInv'
<1>1. tainted' \in BOOLEAN /\ (~tainted' => ~tainted /\ profileReq[c].pc # "caching")
  BY ProfileTyped DEF ProfileInv, P!Fail, P!Holding
<1> QED
  BY <1>1, ProfileDrop DEF P!Fail

\* Only a login that something overlapped is refused.
LEMMA ProfileRefuse ==
    ASSUME ProfileInv, NEW c \in Requests, P!Refuse(c), ~profileReq[c].alone,
           profileReq[c].pc # "caching",
           UNCHANGED <<row, edits, linked, profile, tainted, overtaken>>
    PROVE  ProfileInv'
<1>1. tainted \in BOOLEAN
  BY ProfileTyped DEF ProfileInv
<1>2. googleRefused' = googleRefused
  BY ProfileTyped DEF ProfileInv, P!Refuse
<1> QED
  BY <1>1, <1>2, ProfileDrop DEF P!Refuse

\* The row is created: whatever the others hold is about another user.
LEMMA ProfileCreated ==
    ASSUME ProfileInv, NEW c \in Requests, NEW pc \in {"linking", "caching", "done"},
           row = 0, P!Insert(c, pc), profileReq[c].op = "google" => pc = "linking",
           UNCHANGED <<linked, overtaken, googleRefused>>
    PROVE  ProfileInv'
<1>1. /\ P!TypeOK /\ 1 \in 0..MaxVersion /\ 0 \in 0..MaxVersion /\ ~linked
      /\ row' = 1 /\ edits' = 1 /\ profile' = 0 /\ tainted' = FALSE
  BY ProfileTyped DEF ProfileInv, NoUser, P!Insert
<1> DEFINE q(o) == IF o = c THEN [profileReq[c] EXCEPT !.pc = pc, !.value = 1]
                            ELSE [profileReq[o] EXCEPT !.alone = FALSE, !.value = 0]
<1>2. ASSUME NEW o \in Requests
      PROVE  /\ q(o) \in ProfileRequest
             /\ o = c => q(o).op = profileReq[c].op /\ q(o).pc = pc /\ q(o).value = 1
             /\ o # c => q(o).value = 0 /\ ~q(o).alone
  <2>1. profileReq[o] \in ProfileRequest /\ profileReq[c] \in ProfileRequest
    BY <1>1, ProfileTyped
  <2>2. CASE o = c
    BY <1>1, <2>1, <2>2 DEF ProfileRequest
  <2>3. CASE o # c
    BY <1>1, <2>1, <2>3 DEF ProfileRequest
  <2> QED
    BY <2>2, <2>3
<1>3. profileReq' = [o \in Requests |-> q(o)]
  BY DEF P!Insert
<1> HIDE DEF q
<1>4. /\ profileReq' \in [Requests -> ProfileRequest]
      /\ profileReq'[c].op = profileReq[c].op /\ profileReq'[c].pc = pc /\ profileReq'[c].value = 1
      /\ \A o \in Requests \ {c} : profileReq'[o].value = 0 /\ ~profileReq'[o].alone
  BY <1>2, <1>3
<1>5. P!TypeOK'
  BY <1>1, <1>4, ProfileTyped DEF ProfileInv, P!TypeOK, P!Ops, ProfileRequest
<1>6. NoUser' /\ Kept' /\ Fresh'
  BY <1>1, <1>4 DEF NoUser, Kept, Fresh
<1>7. ASSUME NEW o \in Requests PROVE LoginFits(o)'
  BY <1>1, <1>4 DEF LoginFits
<1> QED
  BY <1>1, <1>5, <1>6, <1>7 DEF ProfileInv

LEMMA ProfileCreate ==
    ASSUME ProfileInv, NEW c \in Requests, P!Create(c) \/ P!CreateUser(c)
    PROVE  ProfileInv'
<1>1. tainted \in BOOLEAN /\ LoginFits(c)
  BY ProfileTyped DEF ProfileInv
<1>2. CASE P!Create(c) /\ profileReq[c].pc = "sent"
  <2>1. CASE row = 0
    BY <1>2, <2>1, ProfileGoto DEF P!Create
  <2>2. CASE row # 0
    BY <1>1, <1>2, <2>2, ProfileDrop DEF P!Create
  <2> QED
    BY <2>1, <2>2
<1>3. CASE P!Create(c) /\ profileReq[c].pc = "absent"
  <2>1. CASE row = 0
    BY <1>3, <2>1, ProfileCreated DEF P!Create
  <2>2. CASE row # 0
    BY <1>1, <1>3, <2>2, ProfileDrop DEF P!Create
  <2> QED
    BY <2>1, <2>2
<1>4. CASE P!CreateUser(c)
  <2>1. CASE row = 0
    BY <1>4, <2>1, ProfileCreated DEF P!CreateUser
  <2>2. CASE row # 0
    <3>1. ~profileReq[c].alone
      BY <1>1, <1>4, <2>2 DEF LoginFits, P!CreateUser
    <3> QED
      BY <1>1, <1>4, <2>2, <3>1, ProfileRefuse DEF P!CreateUser
  <2> QED
    BY <2>1, <2>2
<1> QED
  BY <1>2, <1>3, <1>4 DEF P!Create

LEMMA ProfileLink ==
    ASSUME ProfileInv, NEW c \in Requests, P!LinkAccount(c)
    PROVE  ProfileInv'
<1> DEFINE v == profileReq[c].value
<1>1. /\ P!TypeOK /\ tainted \in BOOLEAN /\ LoginFits(c) /\ v \in 0..MaxVersion
      /\ profileReq[c].op = "google" /\ profileReq[c].pc = "linking"
      /\ UNCHANGED <<row, edits, profile, tainted, overtaken>>
  BY ProfileTyped DEF ProfileInv, P!LinkAccount, ProfileRequest
<1>2. CASE ~P!Exists(c) \/ linked
  <2>1. ~profileReq[c].alone
    BY <1>1, <1>2 DEF LoginFits, P!Exists
  <2> QED
    BY <1>1, <1>2, <2>1, ProfileRefuse DEF P!LinkAccount
<1>3. CASE row # 0 /\ v # 0 /\ ~linked
  <2>1. linked' = TRUE /\ P!Touch(c, "found", v) /\ googleRefused' = googleRefused
    BY <1>3 DEF P!LinkAccount, P!Exists
  <2>2. /\ Moves(c, "google", "found", v) /\ profileReq'[c].alone = profileReq[c].alone
        /\ \A o \in Requests \ {c} : ~profileReq'[o].alone
    BY <1>1, <2>1, TouchMoves
  <2> HIDE DEF v
  <2>3. P!TypeOK'
    BY <1>1, <2>1, <2>2, ProfileTyped DEF ProfileInv, Moves, P!TypeOK, P!Ops, ProfileRequest
  <2>4. NoUser'
    BY <1>1, <1>3 DEF ProfileInv, NoUser, v
  <2>5. Kept'
    BY <1>1, <2>2 DEF ProfileInv, Kept, Moves, Writes, v
  <2>6. Fresh'
    <3>1. \A o \in Requests : P!Holding(o)' =>
              P!Holding(o) /\ profileReq'[o].value = profileReq[o].value
      BY <1>1, <2>2 DEF Moves, P!Holding, v
    <3>2. ASSUME NEW o \in Requests, profileReq[o].pc = "caching"
          PROVE  /\ profileReq'[o].op = profileReq[o].op /\ profileReq'[o].pc = "caching"
                 /\ profileReq'[o].value = profileReq[o].value
      BY <1>1, <2>2, <3>2 DEF Moves
    <3> QED
      BY <1>1, <3>1, <3>2 DEF ProfileInv, Fresh
  <2>7. ASSUME NEW o \in Requests PROVE LoginFits(o)'
    BY <1>1, <1>3, <2>2 DEF LoginFits, Moves
  <2> QED
    BY <2>1, <2>3, <2>4, <2>5, <2>6, <2>7 DEF ProfileInv
<1> QED
  BY <1>2, <1>3 DEF P!Exists

\* The name goes back as it was read: only an edit in between makes it differ,
\* and then the login has overtaken set, or its request is not alone.
LEMMA ProfileRefreshed ==
    ASSUME ProfileInv, NEW c \in Requests, P!Refreshed(c)
    PROVE  ProfileInv'
<1> DEFINE v == profileReq[c].value
<1>1. /\ P!TypeOK /\ tainted \in BOOLEAN /\ LoginFits(c) /\ v \in 0..MaxVersion
      /\ profileReq[c].op = "google" /\ profileReq[c].pc = "found"
      /\ tainted' = (tainted \/ (row' # row /\ ~P!Alone(c)))
      /\ UNCHANGED <<edits, linked, profile, overtaken>>
  BY ProfileTyped DEF ProfileInv, P!Refreshed, ProfileRequest
<1>2. CASE ~P!Exists(c)
  <2>1. ~profileReq[c].alone
    BY <1>1, <1>2 DEF LoginFits, P!Exists
  <2>2. UNCHANGED <<row, edits, linked, profile, tainted, overtaken>>
    BY <1>1, <1>2 DEF P!Refreshed
  <2> QED
    BY <1>1, <1>2, <2>1, <2>2, ProfileRefuse DEF P!Refreshed
<1>3. CASE row # 0 /\ v # 0
  <2>1. row' = v /\ P!Goto(c, "caching", v) /\ googleRefused' = googleRefused
    BY <1>3 DEF P!Refreshed, P!Name, P!Exists
  <2>2. Moves(c, "google", "caching", v)
    BY <1>1, <2>1, GotoMoves
  <2>3. row # 0
    BY <1>3
  <2>4. ~tainted' => ~tainted /\ row' = row
    BY <1>1, <1>3, <2>1, <2>3 DEF ProfileInv, Fresh, P!Holding
  <2>5. ~overtaken => row' = row
    BY <1>1, <1>3, <2>1 DEF ProfileInv, Kept, Writes
  <2> HIDE DEF v
  <2>6. P!TypeOK'
    BY <1>1, <2>1, <2>2, ProfileTyped DEF ProfileInv, Moves, P!TypeOK, P!Ops, ProfileRequest
  <2>7. NoUser'
    BY <1>3, <2>1 DEF NoUser
  <2>8. Kept'
    BY <1>1, <2>2, <2>5 DEF ProfileInv, Kept, Moves, Writes
  <2>9. Fresh'
    <3> SUFFICES ASSUME ~tainted'
                 PROVE  /\ \A o \in Requests : P!Holding(o)' => profileReq'[o].value \in {0, row}
                        /\ profileReq'[c].op = "google" /\ profileReq'[c].pc = "caching"
                        /\ profileReq'[c].value = row
      BY <2>3, <2>4 DEF Fresh
    <3> QED
      BY <2>1, <2>2, <2>4 DEF ProfileInv, Fresh, Moves, P!Holding
  <2>10. ASSUME NEW o \in Requests PROVE LoginFits(o)'
    BY <1>1, <1>3, <2>1, <2>2 DEF ProfileInv, LoginFits, Moves, v
  <2> QED
    BY <2>1, <2>6, <2>7, <2>8, <2>9, <2>10 DEF ProfileInv
<1> QED
  BY <1>2, <1>3 DEF P!Exists

LEMMA ProfileEdit ==
    ASSUME ProfileInv, P!Edit, tainted' \in BOOLEAN, UNCHANGED <<linked, profile, googleRefused>>,
           NEW v, v = row',
           \/ profileReq' = profileReq /\ tainted' = TRUE
           \/ \E c \in Requests :
                /\ profileReq[c].op = "update" /\ P!Goto(c, "caching", v)
                /\ ~tainted' => P!Alone(c)
    PROVE  ProfileInv'
<1>1. /\ row # 0 /\ row' = edits + 1 /\ edits' = edits + 1
      /\ overtaken' = (overtaken \/ \E c \in Requests : Writes(c))
      /\ P!TypeOK /\ edits < MaxVersion
  BY DEF P!Edit, Writes, ProfileInv
<1>2. edits \in 0..MaxVersion /\ row' # 0 /\ row' = edits' /\ row' \in 0..MaxVersion
  BY <1>1, ProfileTyped
<1>3. overtaken' \in BOOLEAN /\ (~overtaken' => \A o \in Requests : ~Writes(o))
  BY <1>1, ProfileTyped
<1>4. NoUser'
  BY <1>2 DEF NoUser
<1>5. CASE profileReq' = profileReq /\ tainted' = TRUE
  <2>1. P!TypeOK'
    BY <1>1, <1>2, <1>3, <1>5, ProfileTyped DEF ProfileInv, P!TypeOK, P!Ops, ProfileRequest
  <2>2. Kept' /\ Fresh'
    BY <1>2, <1>3, <1>5 DEF Kept, Writes, Fresh
  <2>3. ASSUME NEW o \in Requests PROVE LoginFits(o)'
    BY <1>1, <1>2, <1>5 DEF ProfileInv, LoginFits
  <2> QED
    BY <1>4, <2>1, <2>2, <2>3 DEF ProfileInv
<1>6. ASSUME NEW c \in Requests, profileReq[c].op = "update", P!Goto(c, "caching", v),
             ~tainted' => P!Alone(c)
      PROVE  ProfileInv'
  <2>1. Moves(c, "update", "caching", v)
    <3>1. v \in 0..MaxVersion
      BY <1>2
    <3> QED
      BY <1>1, <1>6, <3>1, GotoMoves
  <2>2. P!TypeOK'
    BY <1>1, <1>2, <1>3, <2>1, ProfileTyped DEF ProfileInv, Moves, P!TypeOK, P!Ops, ProfileRequest
  <2>3. Kept'
    BY <1>2, <1>3, <2>1 DEF Kept, Moves, Writes
  <2>4. Fresh'
    BY <1>2, <1>6, <2>1 DEF Fresh, Moves, P!Holding, P!Alone
  <2>5. ASSUME NEW o \in Requests PROVE LoginFits(o)'
    BY <1>1, <1>2, <2>1 DEF ProfileInv, LoginFits, Moves
  <2> QED
    BY <1>1, <1>4, <2>2, <2>3, <2>4, <2>5 DEF ProfileInv
<1> QED
  BY <1>5, <1>6

LEMMA ProfileUpdate ==
    ASSUME ProfileInv, NEW c \in Requests, P!UpdateProfile(c)
    PROVE  ProfileInv'
<1>1. tainted \in BOOLEAN
  BY ProfileTyped DEF ProfileInv
<1>2. CASE row # 0
  <2>0. PICK v : v = row'
    OBVIOUS
  <2>1. /\ P!Edit /\ P!Goto(c, "caching", v) /\ profileReq[c].op = "update"
        /\ tainted' = (tainted \/ ~P!Alone(c)) /\ UNCHANGED <<linked, profile, googleRefused>>
    BY <1>2, <2>0 DEF P!UpdateProfile
  <2> QED
    BY <1>1, <2>0, <2>1, ProfileEdit
<1>3. CASE row = 0
  BY <1>1, <1>3, ProfileDrop DEF P!UpdateProfile, P!Edit
<1> QED
  BY <1>2, <1>3

LEMMA ProfileCache ==
    ASSUME ProfileInv, NEW c \in Requests, P!Cache(c)
    PROVE  ProfileInv'
<1> DEFINE v == profileReq[c].value
<1>1. /\ P!TypeOK /\ tainted \in BOOLEAN /\ v \in 0..MaxVersion /\ profileReq[c].pc = "caching"
      /\ profile' = IF v = 0 THEN profile ELSE v
      /\ tainted' = (tainted /\ ~(P!Alone(c) /\ row # 0 /\ v = row))
      /\ UNCHANGED <<row, edits, linked, overtaken, googleRefused>>
  BY ProfileTyped DEF ProfileInv, P!Cache, P!CacheUserProfile, ProfileRequest
<1>2. Moves(c, "none", "idle", 0)
  BY <1>1, DropMoves DEF P!Cache
<1> HIDE DEF v
<1>4. P!TypeOK'
  BY <1>1, <1>2, ProfileTyped DEF ProfileInv, Moves, P!TypeOK, P!Ops, ProfileRequest
<1>5. NoUser' /\ Kept'
  BY <1>1, <1>2 DEF ProfileInv, NoUser, Kept, Writes, Moves
<1>6. Fresh'
  <2>1. CASE tainted /\ ~tainted'
    <3>1. \A o \in Requests : ~P!Holding(o)'
      BY <1>1, <1>2, <2>1 DEF Moves, P!Holding, P!Alone
    <3> QED
      BY <1>1, <2>1, <3>1 DEF Fresh
  <2>2. CASE ~tainted
    <3>1. /\ v \in {0, row}
          /\ \A o \in Requests : P!Holding(o) => profileReq[o].value \in {0, row}
      BY <1>1, <2>2 DEF ProfileInv, Fresh, P!Holding, v
    <3>2. \A o \in Requests : P!Holding(o)' => profileReq'[o].value \in {0, row}
      BY <1>2, <3>1 DEF Moves, P!Holding
    <3>3. CASE v # 0
      BY <1>1, <3>1, <3>2, <3>3 DEF Fresh
    <3>4. CASE v = 0
      <4>1. profile' = profile
        BY <1>1, <3>4
      <4>2. ASSUME NEW o \in Requests, profileReq[o].op \in {"update", "google"},
                   profileReq[o].pc = "caching", profileReq[o].value = row, row # 0
            PROVE  /\ profileReq'[o].op \in {"update", "google"}
                   /\ profileReq'[o].pc = "caching" /\ profileReq'[o].value = row
        BY <1>2, <3>4, <4>2 DEF Moves, v
      <4> QED
        BY <1>1, <2>2, <3>2, <4>1, <4>2 DEF ProfileInv, Fresh
    <3> QED
      BY <3>3, <3>4
  <2> QED
    BY <1>1, <2>1, <2>2 DEF Fresh
<1>7. ASSUME NEW o \in Requests PROVE LoginFits(o)'
  BY <1>1, <1>2 DEF ProfileInv, LoginFits, Moves
<1> QED
  BY <1>1, <1>4, <1>5, <1>6, <1>7 DEF ProfileInv

LEMMA ProfileDelete ==
    ASSUME ProfileInv, P!DeleteUserProfile
    PROVE  ProfileInv'
<1>1. /\ tainted \in BOOLEAN /\ profile' = 0
      /\ tainted' = (tainted /\ \E c \in Requests : P!Holding(c))
      /\ UNCHANGED <<row, edits, linked, profileReq, overtaken, googleRefused>>
  BY ProfileTyped DEF ProfileInv, P!DeleteUserProfile
<1>2. P!TypeOK'
  BY <1>1, ProfileTyped DEF ProfileInv, P!TypeOK, P!Ops, ProfileRequest
<1>3. NoUser' /\ Kept' /\ Fresh'
  BY <1>1 DEF ProfileInv, NoUser, Kept, Writes, Fresh, P!Holding
<1>4. \A o \in Requests : LoginFits(o)'
  BY <1>1 DEF ProfileInv, LoginFits
<1> QED
  BY <1>1, <1>2, <1>3, <1>4 DEF ProfileInv

LEMMA ProfileRemove ==
    ASSUME ProfileInv, P!Remove
    PROVE  ProfileInv'
<1>1. /\ row' = 0 /\ edits' = 0 /\ linked' = FALSE
      /\ tainted' = (tainted \/ profile # 0 \/ \E c \in Requests : P!Holding(c))
      /\ UNCHANGED <<profile, overtaken, googleRefused>>
  BY DEF P!Remove
<1>2. /\ profileReq' \in [Requests -> ProfileRequest]
      /\ \A o \in Requests : /\ profileReq'[o].pc = profileReq[o].pc
                              /\ ~profileReq'[o].alone
  <2> DEFINE q(o) == [profileReq[o] EXCEPT !.alone = FALSE]
  <2>1. profileReq' = [o \in Requests |-> q(o)] /\ \A o \in Requests : profileReq[o] \in ProfileRequest
    BY ProfileTyped DEF ProfileInv, P!Remove
  <2>2. \A o \in Requests : q(o) \in ProfileRequest /\ q(o).pc = profileReq[o].pc /\ q(o).alone = FALSE
    BY <2>1, ProfileTyped DEF ProfileRequest
  <2> HIDE DEF q
  <2> QED
    BY <2>1, <2>2
<1>3. P!TypeOK'
  BY <1>1, <1>2, ProfileTyped DEF ProfileInv, P!TypeOK, P!Ops, ProfileRequest
<1>4. NoUser' /\ Kept' /\ Fresh'
  BY <1>1, <1>2 DEF NoUser, Kept, Fresh, P!Holding
<1>5. \A o \in Requests : LoginFits(o)'
  BY <1>2 DEF LoginFits
<1> QED
  BY <1>1, <1>3, <1>4, <1>5 DEF ProfileInv

LEMMA ProfileUnmoved ==
    ASSUME ProfileInv, UNCHANGED profileState
    PROVE  ProfileInv'
<1>1. UNCHANGED <<row, edits, linked, profile, profileReq, tainted, overtaken, googleRefused>>
  BY DEF profileState
<1>2. P!TypeOK'
  BY <1>1 DEF ProfileInv, P!TypeOK
<1>3. NoUser' /\ Kept' /\ Fresh'
  BY <1>1 DEF ProfileInv, NoUser, Kept, Writes, Fresh, P!Holding
<1>4. \A o \in Requests : LoginFits(o)'
  BY <1>1 DEF ProfileInv, LoginFits
<1> QED
  BY <1>1, <1>2, <1>3, <1>4 DEF ProfileInv

LEMMA ProfileStep ==
    ASSUME ProfileInv, P!Next \/ UNCHANGED profileState
    PROVE  ProfileInv'
<1>1. CASE P!AdminEdit
  BY <1>1, ProfileEdit DEF P!AdminEdit
<1> QED
  BY <1>1, ProfileUnmoved, ProfileSend, ProfileReads, ProfileFail, ProfileCreate, ProfileLink,
     ProfileRefreshed, ProfileUpdate, ProfileCache, ProfileDelete, ProfileRemove DEF P!Next, P!Step

LEMMA ProfileInit ==
    ASSUME P!Init
    PROVE  ProfileInv
<1>1. /\ row = 0 /\ edits = 0 /\ linked = FALSE /\ profile = 0 /\ tainted = FALSE
      /\ overtaken = FALSE /\ googleRefused = FALSE /\ profileReq = [c \in Requests |-> P!Idle]
      /\ P!Idle.op = "none" /\ P!Idle.pc = "idle" /\ P!Idle.value = 0 /\ P!Idle \in ProfileRequest
  BY ProfileTyped DEF P!Init, P!Idle, ProfileRequest
<1>2. P!TypeOK
  BY <1>1, ProfileTyped
<1>3. NoUser /\ Kept /\ Fresh /\ \A o \in Requests : LoginFits(o)
  BY <1>1 DEF NoUser, Kept, Writes, Fresh, P!Holding, LoginFits
<1> QED
  BY <1>1, <1>2, <1>3 DEF ProfileInv

-----------------------------------------------------------------------------
(***************************************************************************)
(* The bounds of the model: those who may still count, or mint a pair, fit  *)
(* into what is left below the bound.                                       *)
(***************************************************************************)

Counting(w) == {c \in Clients : req[c].window = w /\ req[c].pc = "counting"}

Counts ==
    /\ \A w \in Windows : count[w] + Cardinality(Counting(w)) <= Bound
    /\ \A c \in Clients : req[c].value <= Bound
    /\ \A w \in Windows : forwarded[w] <= RateLimitMax + 1 /\ refused[w] <= RateLimitMax + 1

LEMMA CountingFinite ==
    ASSUME NEW w
    PROVE  IsFiniteSet(Counting(w)) /\ Cardinality(Counting(w)) \in Nat /\ Bound \in Nat
<1>1. IsFiniteSet(Counting(w))
  BY FS_Subset, LimiterAssumption DEF Counting
<1> QED
  BY <1>1, FS_CardinalityType, LimiterAssumption DEF Bound

\* A step of one request that starts no count.
LEMMA CountsKept ==
    ASSUME Typed, Counts, NEW c \in Clients, \A o \in Clients \ {c} : req'[o] = req[o],
           req'[c].pc # "counting", req'[c].value <= Bound, UNCHANGED count,
           \A w \in Windows : forwarded'[w] <= RateLimitMax + 1 /\ refused'[w] <= RateLimitMax + 1
    PROVE  Counts'
<1>1. ASSUME NEW w \in Windows PROVE count'[w] + Cardinality(Counting(w)') <= Bound
  <2>1. Counting(w)' \subseteq Counting(w)
    BY DEF Counting
  <2>2. Cardinality(Counting(w)') \in Nat /\ Cardinality(Counting(w)') <= Cardinality(Counting(w))
    BY <2>1, CountingFinite, FS_Subset, FS_CardinalityType
  <2> QED
    BY <2>2, CountingFinite DEF Typed, Counts
<1>2. \A o \in Clients : req'[o].value <= Bound
  BY DEF Counts
<1>3. Bound' = Bound
  BY DEF Bound
<1> QED
  BY <1>1, <1>2, <1>3 DEF Counts

LEMMA CountsStep ==
    ASSUME Typed, Counts, [Next]_vars
    PROVE  Counts'
<1>0. /\ Bound' = Bound /\ Bound \in Nat /\ RateLimitMax \in Nat /\ 0 <= Bound
      /\ \A c \in Clients : Cardinality(Counting(c)) \in Nat
      /\ \A w \in Windows : forwarded[w] \in Nat /\ refused[w] \in Nat /\ count[w] \in Nat
      /\ \A w \in Windows : forwarded[w] <= RateLimitMax + 1 /\ refused[w] <= RateLimitMax + 1
  BY CountingFinite, LimiterAssumption DEF Bound, Counts, Typed
<1>1. CASE UNCHANGED vars \/ Tick
  BY <1>0, <1>1 DEF vars, Tick, Counts, Counting
<1>2. ASSUME NEW c \in Clients, Arrive(c) PROVE Counts'
  <2> DEFINE q == [Idle EXCEPT !.pc = "counting", !.window = now]
  <2>1. /\ req' = [req EXCEPT ![c] = q] /\ count[now] <= RateLimitMax + 1 /\ now \in Windows
        /\ UNCHANGED <<count, forwarded, refused>>
    BY <1>2 DEF Arrive, Typed
  <2>2. q.pc = "counting" /\ q.window = now /\ q.value = 0
    BY DEF Idle
  <2> HIDE DEF q
  <2>3. req'[c] = q /\ \A o \in Clients \ {c} : req'[o] = req[o]
    BY <2>1 DEF Typed
  <2>4. ASSUME NEW w \in Windows PROVE count[w] + Cardinality(Counting(w)') <= Bound
    <3>1. CASE w = now
      <4>1. Counting(w)' \subseteq Clients
        BY DEF Counting
      <4>2. /\ Cardinality(Counting(w)') \in Nat /\ Cardinality(Clients) \in Nat
            /\ Cardinality(Counting(w)') <= Cardinality(Clients)
        BY <4>1, LimiterAssumption, FS_Subset, FS_CardinalityType
      <4> QED
        BY <1>0, <2>1, <3>1, <4>2 DEF Bound
    <3>2. CASE w # now
      <4>1. Counting(w)' \subseteq Counting(w)
        BY <2>2, <2>3, <3>2 DEF Counting
      <4>2. Cardinality(Counting(w)') \in Nat /\ Cardinality(Counting(w)') <= Cardinality(Counting(w))
        BY <4>1, CountingFinite, FS_Subset, FS_CardinalityType
      <4> QED
        BY <1>0, <4>2, CountingFinite DEF Counts
    <3> QED
      BY <3>1, <3>2
  <2> QED
    BY <1>0, <2>1, <2>2, <2>3, <2>4 DEF Counts
<1>3. ASSUME NEW c \in Clients, Increment(c) PROVE Counts'
  <2>v. PICK v : v = req[c].window
    OBVIOUS
  <2>n. PICK n : n = count[v] + 1
    OBVIOUS
  <2> DEFINE q == [req[c] EXCEPT !.value = n, !.pc = IF n = 1 THEN "expiring" ELSE "counted"]
  <2>1. /\ v \in Windows /\ req[c].pc = "counting" /\ count' = [count EXCEPT ![v] = n]
        /\ req' = [req EXCEPT ![c] = q] /\ UNCHANGED <<forwarded, refused>> /\ n \in Nat
    BY <1>3, <2>v, <2>n DEF Increment, Typed
  <2>2. q.window = v /\ q.value = n /\ q.pc # "counting"
    BY <2>1, <2>v DEF Typed
  <2> HIDE DEF q
  <2>3. req'[c] = q /\ \A o \in Clients \ {c} : req'[o] = req[o]
    BY <2>1 DEF Typed
  <2>4. c \in Counting(v) /\ Counting(v)' = Counting(v) \ {c}
    BY <2>1, <2>2, <2>3, <2>v DEF Counting
  <2>5. /\ Cardinality(Counting(v)) \in Nat /\ Cardinality(Counting(v)) # 0
        /\ Cardinality(Counting(v)') = Cardinality(Counting(v)) - 1
    BY <2>4, CountingFinite, FS_RemoveElement, FS_EmptySet
  <2>6. n <= Bound /\ n + Cardinality(Counting(v)') <= Bound
    BY <1>0, <2>1, <2>n, <2>5 DEF Counts
  <2>7. ASSUME NEW w \in Windows PROVE count'[w] + Cardinality(Counting(w)') <= Bound
    <3>1. CASE w = v
      <4>1. count'[w] = n
        BY <2>1, <3>1 DEF Typed
      <4> QED
        BY <2>6, <3>1, <4>1
    <3>2. CASE w # v
      <4>1. Counting(w)' = Counting(w) /\ count'[w] = count[w]
        BY <2>1, <2>2, <2>3, <2>v, <3>2 DEF Counting, Typed
      <4> QED
        BY <4>1 DEF Counts
    <3> QED
      BY <3>1, <3>2
  <2>8. \A o \in Clients : req'[o].value <= Bound
    BY <2>2, <2>3, <2>6 DEF Counts
  <2> QED
    BY <1>0, <2>1, <2>7, <2>8 DEF Counts
<1>4. ASSUME NEW c \in Clients, Expire(c) \/ RedisError(c) PROVE Counts'
  <2>1. /\ req'[c].pc = "counted" /\ req'[c].value \in {0, req[c].value}
        /\ \A o \in Clients \ {c} : req'[o] = req[o]
        /\ UNCHANGED <<count, forwarded, refused>>
    BY <1>4 DEF Typed, Expire, RedisError
  <2>2. req'[c].value <= Bound
    BY <1>0, <2>1 DEF Counts
  <2> QED
    BY <1>0, <2>1, <2>2, CountsKept
<1>5. ASSUME NEW c \in Clients, Handle(c) \/ Crash(c) PROVE Counts'
  <2>1. /\ req' = [req EXCEPT ![c] = Idle] /\ UNCHANGED count
        /\ Idle.pc = "idle" /\ Idle.value = 0
    BY <1>5 DEF Handle, Crash, Leave, Idle
  <2>2. req'[c] = Idle /\ \A o \in Clients \ {c} : req'[o] = req[o]
    BY <2>1 DEF Typed
  <2>3. \A w \in Windows : forwarded'[w] <= RateLimitMax + 1 /\ refused'[w] <= RateLimitMax + 1
    BY <1>0, <1>5 DEF Handle, Crash, Counted, Typed
  <2> QED
    BY <1>0, <2>1, <2>2, <2>3, CountsKept
<1>6. ASSUME NEW v \in Windows, KeyExpires(v) PROVE Counts'
  <2>1. ASSUME NEW w \in Windows PROVE count'[w] + Cardinality(Counting(w)') <= Bound
    <3>1. Counting(w)' = Counting(w) /\ count'[w] \in Nat /\ count'[w] <= count[w]
      BY <1>0, <1>6 DEF KeyExpires, Counting, Typed
    <3> QED
      BY <1>0, <3>1, CountingFinite DEF Counts
  <2> QED
    BY <1>0, <1>6, <2>1 DEF KeyExpires, Counts
<1> QED
  BY <1>1, <1>2, <1>3, <1>4, <1>5, <1>6 DEF Next

LEMMA CountsInit ==
    ASSUME Init
    PROVE  Counts
<1>1. ASSUME NEW w \in Windows PROVE Counting(w) = {}
  BY DEF Init, Counting, Idle
<1> QED
  BY <1>1, FS_EmptySet, CountingFinite, LimiterAssumption DEF Init, Counts, Idle

LEMMA LimiterTyped ==
    ASSUME LimiterInv, Counts
    PROVE  TypeOK
<1>1. ASSUME NEW w \in Windows
      PROVE  /\ count[w] \in 0..Bound /\ forwarded[w] \in 0..(RateLimitMax + 1)
             /\ refused[w] \in 0..(RateLimitMax + 1)
  BY CountingFinite, LimiterAssumption DEF Counts, LimiterInv, Typed
<1>2. \A c \in Clients : req[c].value \in 0..Bound
  BY CountingFinite DEF Counts, LimiterInv, Typed
<1> QED
  BY <1>1, <1>2 DEF LimiterInv, Typed, TypeOK

-----------------------------------------------------------------------------
\* The requests that may still mint a pair.
MayStillMint(r) ==
    /\ tokenReq[r].op \in {"login", "refresh"}
    /\ tokenReq[r].pc \in {"sent", "admitted", "found"}
    /\ ~(tokenReq[r].op = "refresh" /\ tokenReq[r].pc = "sent" /\ tokenReq[r].cookies.refresh \in revokedR)

Able == {r \in Requests : MayStillMint(r)}
Bounded == Len(origin) + Cardinality(Able) <= MaxPairs

LEMMA AbleFinite ==
    /\ IsFiniteSet(Able) /\ Cardinality(Able) \in Nat
    /\ \A S \in SUBSET Able : Cardinality(S) \in Nat /\ Cardinality(S) <= Cardinality(Able)
<1>1. IsFiniteSet(Able)
  BY FS_Subset, EdgeAssumption DEF Able
<1> QED
  BY <1>1, FS_Subset, FS_CardinalityType

\* A step that lets nobody mint who could not before.
LEMMA BoundedKept ==
    ASSUME TokensInv, Bounded, UNCHANGED origin, Able' \subseteq Able
    PROVE  Bounded'
<1>1. Cardinality(Able') \in Nat /\ Cardinality(Able') <= Cardinality(Able) /\ Cardinality(Able) \in Nat
  BY AbleFinite
<1>2. Len(origin') = Len(origin) /\ Len(origin) \in Nat
  BY PairsOfTokens DEF TokensInv
<1> QED
  BY <1>1, <1>2, EdgeAssumption DEF Bounded

LEMMA AbleShrinks ==
    ASSUME TokensInv, NEW r \in Requests, NEW op, NEW pc, NEW c, NEW n, Becomes(r, op, pc, c, n),
           revokedR \subseteq revokedR',
           \/ pc \notin {"sent", "admitted", "found"} \/ op \notin {"login", "refresh"}
           \/ pc = "sent" /\ op = "refresh" /\ c.refresh \in revokedR'
           \/ MayStillMint(r)
    PROVE  /\ Able' \subseteq Able
           /\ pc \notin {"sent", "admitted", "found"} => r \notin Able'
<1>1. ASSUME NEW o \in Requests, MayStillMint(o)' PROVE MayStillMint(o)
  <2>1. CASE o = r
    BY <1>1, <2>1 DEF Becomes, MayStillMint
  <2>2. CASE o # r
    BY <1>1, <2>2 DEF Becomes, MayStillMint
  <2> QED
    BY <2>1, <2>2
<1>2. pc \notin {"sent", "admitted", "found"} => ~MayStillMint(r)'
  BY DEF Becomes, MayStillMint
<1> QED
  BY <1>1, <1>2 DEF Able

\* Whoever mints a pair was counted as able to.
LEMMA BoundedMints ==
    ASSUME TokensInv, Bounded, NEW r \in Requests, MayStillMint(r), NEW from \in Pair,
           A!GenerateTokens(r, from), revokedR \subseteq revokedR'
    PROVE  Bounded'
<1>1. PICK N : N = Len(origin) + 1
  OBVIOUS
<1>2. Len(origin') = N /\ Becomes(r, tokenReq[r].op, "answered", A!NoJar, N) /\ Len(origin) \in Nat
  BY <1>1, Appended, PairsOfTokens DEF TokensInv
<1>3. Able' \subseteq Able \ {r} /\ r \in Able
  BY <1>2, AbleShrinks DEF Able
<1>4. /\ IsFiniteSet(Able) /\ Cardinality(Able) \in Nat
      /\ Cardinality(Able \ {r}) = Cardinality(Able) - 1
  BY <1>3, AbleFinite, FS_RemoveElement
<1>5. Cardinality(Able') \in Nat /\ Cardinality(Able') <= Cardinality(Able \ {r})
  BY <1>3, <1>4, FS_Subset, FS_CardinalityType
<1> QED
  BY <1>1, <1>2, <1>4, <1>5, EdgeAssumption DEF Bounded

LEMMA BoundedSend ==
    ASSUME TokensInv, Bounded, NEW r \in Requests, NEW op \in A!Ops, A!Send(r, op)
    PROVE  Bounded'
<1> DEFINE c == IF op = "login" THEN A!NoJar ELSE jar
           q == [op |-> op, pc |-> "sent", pair |-> 0, cookies |-> c]
<1>1. /\ TokensTyped /\ tokenReq' = [tokenReq EXCEPT ![r] = q] /\ tokenReq[r] = A!Idle
      /\ UNCHANGED <<jar, revokedR, origin>> /\ A!MayMint(op)
  BY DEF A!Send, TokensInv
<1>2. q.op = op /\ q.pc = "sent" /\ q.pair = 0 /\ q.cookies = c
  OBVIOUS
<1> HIDE DEF q
<1>3. Becomes(r, op, "sent", c, 0)
  BY <1>1, <1>2 DEF TokensTyped, Becomes
<1>4. CASE op \notin {"login", "refresh"} \/ (op = "refresh" /\ jar.refresh \in revokedR)
  <2>1. \/ op \notin {"login", "refresh"}
        \/ op = "refresh" /\ c.refresh \in revokedR'
    BY <1>1, <1>4
  <2>2. Able' \subseteq Able
    BY <1>1, <1>3, <2>1, AbleShrinks
  <2> QED
    BY <1>1, <2>2, BoundedKept
<1>5. CASE op \in {"login", "refresh"} /\ (op = "refresh" => jar.refresh \notin revokedR)
  <2> DEFINE S == {o \in Requests : tokenReq[o].op \in A!Minters /\ tokenReq[o].pc # "answered"}
  <2>1. Len(origin) + Cardinality(S) < MaxPairs
    <3>1. A!Cardinality(S) = Cardinality(S)
      BY DEF A!Cardinality, Cardinality
    <3> QED
      BY <1>1, <1>5, <3>1 DEF A!MayMint, A!Minters
  <2>2. Able' \subseteq S \union {r} /\ r \notin S
    BY <1>1, <1>3 DEF Able, MayStillMint, Becomes, A!Minters, A!Idle
  <2>3. IsFiniteSet(S)
    BY FS_Subset, EdgeAssumption
  <2>4. /\ IsFiniteSet(S \union {r}) /\ Cardinality(S) \in Nat
        /\ Cardinality(S \union {r}) = Cardinality(S) + 1
    BY <2>2, <2>3, FS_AddElement, FS_CardinalityType
  <2>5. Cardinality(Able') \in Nat /\ Cardinality(Able') <= Cardinality(S) + 1
    BY <2>2, <2>4, FS_Subset, FS_CardinalityType
  <2>6. Len(origin') = Len(origin) /\ Len(origin) \in Nat
    BY <1>1, PairsOfTokens
  <2> HIDE DEF S
  <2> QED
    BY <2>1, <2>4, <2>5, <2>6, EdgeAssumption DEF Bounded
<1> QED
  BY <1>4, <1>5

LEMMA BoundedStep ==
    ASSUME TokensInv, Bounded, [A!Next]_tokenState
    PROVE  Bounded'
<1>0. TokensTyped /\ 0 \in Pair
  BY PairsOfTokens DEF TokensInv
<1>1. CASE UNCHANGED tokenState \/ A!Remove
  <2>1. UNCHANGED <<origin, tokenReq, revokedR>>
    BY <1>1 DEF tokenState, A!Remove
  <2> QED
    BY <2>1, BoundedKept DEF Able, MayStillMint
<1>2. ASSUME NEW r \in Requests, A!Drop(r), UNCHANGED origin, revokedR \subseteq revokedR'
      PROVE  Bounded'
  <2>1. Becomes(r, "none", "idle", A!NoJar, 0)
    BY <1>0, <1>2, DropBecomes
  <2> QED
    BY <1>2, <2>1, AbleShrinks, BoundedKept
<1>3. ASSUME NEW r \in Requests, A!Answer(r, 0), UNCHANGED origin, revokedR \subseteq revokedR'
      PROVE  Bounded'
  <2>1. Becomes(r, tokenReq[r].op, "answered", A!NoJar, 0)
    BY <1>0, <1>3, AnswerBecomes
  <2> QED
    BY <1>3, <2>1, AbleShrinks, BoundedKept
<1>4. ASSUME NEW r \in Requests, NEW pc \in {"admitted", "found"}, A!Goto(r, pc),
             MayStillMint(r) \/ tokenReq[r].op \notin {"login", "refresh"}, UNCHANGED <<origin, revokedR>>
      PROVE  Bounded'
  <2>1. Becomes(r, tokenReq[r].op, pc, tokenReq[r].cookies, tokenReq[r].pair)
    BY <1>0, <1>4, GotoBecomes
  <2> QED
    BY <1>4, <2>1, AbleShrinks, BoundedKept
<1>5. ASSUME NEW r \in Requests, A!Admit(r) PROVE Bounded'
  <2>1. CASE A!Handle(r)
    <3>1. /\ A!Goto(r, "admitted") /\ UNCHANGED <<origin, revokedR>>
          /\ tokenReq[r].op \in {"refresh", "logout"} /\ tokenReq[r].pc = "sent"
      BY <1>5, <2>1 DEF A!Admit, A!Spenders
    <3>2. MayStillMint(r) \/ tokenReq[r].op \notin {"login", "refresh"}
      BY <2>1, <3>1 DEF A!Handle, A!ValidateRefresh, MayStillMint
    <3> QED
      BY <1>4, <3>1, <3>2
  <2>2. CASE ~A!Handle(r)
    BY <1>2, <1>3, <1>5, <2>2 DEF A!Admit, A!Unauthorized
  <2> QED
    BY <2>1, <2>2
<1>6. ASSUME NEW r \in Requests, A!FindUser(r) PROVE Bounded'
  <2>1. MayStillMint(r)
    BY <1>6 DEF A!FindUser, MayStillMint
  <2> QED
    BY <1>2, <1>3, <1>4, <1>6, <2>1 DEF A!FindUser, A!Unauthorized
<1>7. ASSUME NEW r \in Requests, A!Login(r) PROVE Bounded'
  <2>1. MayStillMint(r)
    BY <1>7 DEF A!Login, MayStillMint
  <2> QED
    BY <1>0, <1>2, <1>7, <2>1, BoundedMints DEF A!Login
<1>8. ASSUME NEW r \in Requests, A!RefreshTokens(r) PROVE Bounded'
  <2>1. PICK t \in Pair : t = tokenReq[r].cookies.refresh
    BY <1>0 DEF TokensTyped, TokenRequest, Cookies
  <2>2. MayStillMint(r) /\ A!GenerateTokens(r, t) /\ revokedR \subseteq revokedR'
    BY <1>8, <2>1 DEF A!RefreshTokens, A!Revoke, MayStillMint
  <2> QED
    BY <2>2, BoundedMints
<1>9. ASSUME NEW r \in Requests, A!Logout(r) PROVE Bounded'
  BY <1>3, <1>9 DEF A!Logout, A!Revoke
<1>10. ASSUME NEW r \in Requests, A!Deliver(r) \/ A!RevokeFails(r) \/ A!Fail(r) PROVE Bounded'
  <2>1. A!Drop(r) /\ UNCHANGED origin /\ revokedR \subseteq revokedR'
    BY <1>10 DEF A!Deliver, A!RevokeFails, A!Fail
  <2> QED
    BY <1>2, <2>1
<1>11. ASSUME NEW n \in A!Pairs, A!ExpireAccess(n) PROVE Bounded'
  <2>1. UNCHANGED <<origin, revokedR>>
    BY <1>11 DEF A!ExpireAccess
  <2>2. ASSUME NEW o \in Requests
        PROVE  /\ tokenReq'[o].op = tokenReq[o].op /\ tokenReq'[o].pc = tokenReq[o].pc
               /\ tokenReq'[o].cookies.refresh = tokenReq[o].cookies.refresh
    BY <1>0, <1>11 DEF A!ExpireAccess, TokensTyped, TokenRequest, Cookies
  <2>3. Able' = Able
    BY <2>1, <2>2 DEF Able, MayStillMint
  <2> QED
    BY <2>1, <2>3, BoundedKept
<1> QED
  BY <1>1, <1>5, <1>6, <1>7, <1>8, <1>9, <1>10, <1>11, BoundedSend DEF A!Next, A!Step

LEMMA TokensInit ==
    ASSUME A!Init
    PROVE  TokensInv /\ Bounded
<1>1. /\ origin = <<>> /\ Len(origin) = 0 /\ DOMAIN origin = {} /\ jar = A!NoJar /\ removed = FALSE
      /\ revokedA = {} /\ revokedR = {} /\ raced = {} /\ ended = {}
      /\ tokenReq = [r \in Requests |-> A!Idle]
      /\ A!Idle.op = "none" /\ A!Idle.pc = "idle" /\ A!Idle.cookies = A!NoJar
      /\ A!NoJar.access = 0 /\ A!NoJar.refresh = 0
  BY DEF A!Init, A!Idle, A!NoJar
<1>2. Pair = {0} /\ A!NoJar \in Cookies /\ A!Idle \in TokenRequest
  BY <1>1 DEF Pair, Cookies, TokenRequest, A!NoJar, A!Idle
<1>3. TokensTyped
  <2>1. origin \in Seq([from : Nat, login : Nat])
    BY <1>1
  <2>2. tokenReq \in [Requests -> TokenRequest] /\ jar \in Cookies
    BY <1>1, <1>2
  <2>3. /\ \A n \in DOMAIN origin : origin[n].from \in 0..(n - 1) /\ origin[n].login \in 1..n
        /\ removed \in BOOLEAN
        /\ revokedA \subseteq DOMAIN origin /\ revokedR \subseteq DOMAIN origin
        /\ raced \subseteq DOMAIN origin /\ ended \subseteq DOMAIN origin
    BY <1>1
  <2> QED
    BY <2>1, <2>2, <2>3 DEF TokensTyped
<1>4. /\ CookiesPaired(jar)
      /\ \A r \in Requests :
           CookiesPaired(tokenReq[r].cookies) /\ InTransit(r) /\ Guarded(r) /\ Sole(r)
  BY <1>1 DEF CookiesPaired, InTransit, Guarded, Sole
<1>5. Able = {} /\ Cardinality(Able) = 0
  BY <1>1, FS_EmptySet DEF Able, MayStillMint
<1> QED
  BY <1>1, <1>3, <1>4, <1>5, EdgeAssumption DEF TokensInv, Bounded

LEMMA TokensAreTyped ==
    ASSUME TokensInv, Bounded
    PROVE  A!TypeOK
<1>1. /\ TokensTyped /\ Len(origin) \in Nat /\ DOMAIN origin = 1..Len(origin)
      /\ Len(origin) <= MaxPairs /\ MaxPairs \in Nat
  BY PairsOfTokens, AbleFinite, EdgeAssumption DEF TokensInv, Bounded
<1>2. Pair \subseteq 0..MaxPairs /\ DOMAIN origin \subseteq 1..MaxPairs
  BY <1>1 DEF Pair
<1>3. Cookies \subseteq [access : 0..MaxPairs, refresh : 0..MaxPairs]
  BY <1>2 DEF Cookies
<1>4. tokenReq \in [Requests -> [op : A!Ops \union {"none"},
          pc : {"idle", "sent", "admitted", "found", "answered"},
          cookies : [access : 0..MaxPairs, refresh : 0..MaxPairs], pair : 0..MaxPairs]]
  <2>1. TokenRequest \subseteq [op : A!Ops \union {"none"},
            pc : {"idle", "sent", "admitted", "found", "answered"},
            cookies : [access : 0..MaxPairs, refresh : 0..MaxPairs], pair : 0..MaxPairs]
    BY <1>2, <1>3 DEF TokenRequest, A!Ops
  <2> QED
    BY <1>1, <2>1 DEF TokensTyped
<1>5. /\ jar \in [access : 0..MaxPairs, refresh : 0..MaxPairs]
      /\ revokedA \subseteq 1..MaxPairs /\ revokedR \subseteq 1..MaxPairs
      /\ raced \subseteq 1..MaxPairs /\ ended \subseteq 1..MaxPairs
  BY <1>1, <1>2, <1>3 DEF TokensTyped
<1> QED
  BY <1>1, <1>4, <1>5 DEF A!TypeOK, TokensTyped, A!Pairs, A!Minted

-----------------------------------------------------------------------------
(* The claims *)

LEMMA OneTokenIsClaimed ==
    ASSUME TokensInv
    PROVE  A!OneTokenPerLogin
<1> SUFFICES ASSUME NEW l \in DOMAIN origin, \A t \in raced : origin[t].login # l
             PROVE  /\ \A m, n \in A!Live(l) : m = n
                    /\ (\E t \in ended : origin[t].login = l) => A!Live(l) = {}
  BY DEF A!OneTokenPerLogin, A!Minted
<1>1. /\ \A n \in A!Live(l) : Newest(n)
      /\ (\E t \in ended : origin[t].login = l) => A!Live(l) = {}
  BY DEF TokensInv, Chain
<1>2. \A n \in A!Live(l) : n \in DOMAIN origin /\ origin[n].login = l /\ n \in Nat
  BY PairsOfTokens DEF TokensInv, A!Live, A!Minted
<1>3. ASSUME NEW m \in A!Live(l), NEW n \in A!Live(l) PROVE m = n
  <2>1. m <= n /\ n <= m
    BY <1>1, <1>2 DEF Newest
  <2> QED
    BY <1>2, <2>1
<1> QED
  BY <1>1, <1>3

\* A step that mints a pair from a blacklisted token spends one that is raced.
LEMMA NeverReusedStep ==
    ASSUME TokensInv, [A!Next]_tokenState
    PROVE  Len(origin') > Len(origin) /\ origin'[Len(origin')].from \in revokedR
               => origin'[Len(origin')].from \in raced
<1> SUFFICES ASSUME Len(origin') > Len(origin), origin'[Len(origin')].from \in revokedR,
                    origin'[Len(origin')].from \notin raced
             PROVE  FALSE
  OBVIOUS
<1>1. TokensTyped /\ DOMAIN origin = Pair \ {0} /\ 0 \in Pair /\ Len(origin) \in Nat
  BY PairsOfTokens DEF TokensInv
<1>2. PICK N : N = Len(origin) + 1
  OBVIOUS
<1>3. origin' # origin
  BY <1>1
<1>4. ASSUME NEW r \in Requests, A!Login(r) PROVE FALSE
  <2>1. A!GenerateTokens(r, 0)
    BY <1>3, <1>4 DEF A!Login
  <2>2. Len(origin') = N /\ origin'[N].from = 0
    BY <1>1, <1>2, <2>1, Appended
  <2> QED
    BY <1>1, <2>2 DEF TokensTyped
<1>5. ASSUME NEW r \in Requests, A!RefreshTokens(r) PROVE FALSE
  <2>1. PICK t \in Pair : t = tokenReq[r].cookies.refresh
    BY <1>1 DEF TokensTyped, TokenRequest, Cookies
  <2>2. A!GenerateTokens(r, t) /\ tokenReq[r].op = "refresh" /\ Spends(r, t)
    BY <1>5, <2>1 DEF A!RefreshTokens, Spends
  <2>3. Len(origin') = N /\ origin'[N].from = t
    BY <1>1, <1>2, <2>2, Appended
  <2>4. t \in revokedR /\ t \notin raced /\ t \in DOMAIN origin
    BY <1>1, <2>3 DEF TokensTyped
  <2> QED
    BY <2>2, <2>4 DEF TokensInv, Sole
<1>6. \/ \E r \in Requests : A!Login(r) \/ A!RefreshTokens(r)
      \/ origin' = origin
  BY DEF A!Next, A!Step, tokenState, A!Send, A!Admit, A!FindUser, A!Logout, A!Deliver,
     A!RevokeFails, A!Fail, A!ExpireAccess, A!Remove
<1> QED
  BY <1>3, <1>4, <1>5, <1>6

EdgeInv == TokensInv /\ Bounded /\ ProfileInv /\ LimiterInv /\ Counts

\* What one part does leaves the invariants of the others alone.
LEMMA EdgeStep ==
    ASSUME EdgeInv, [EdgeNext]_<<part, tokenState, profileState, vars>>
    PROVE  EdgeInv' /\ [A!Next]_tokenState
<1>1. [A!Next]_tokenState /\ (P!Next \/ UNCHANGED profileState) /\ [Next]_vars
  BY DEF EdgeNext
<1> QED
  BY <1>1, TokensStep, BoundedStep, ProfileStep, LimiterStep, CountsStep DEF EdgeInv, LimiterInv

LEMMA EdgeInvariant == EdgeSpec => []EdgeInv
<1>1. EdgeInit => EdgeInv
  BY TokensInit, ProfileInit, LimiterInit, CountsInit DEF EdgeInit, EdgeInv
<1>2. EdgeInv /\ [EdgeNext]_<<part, tokenState, profileState, vars>> => EdgeInv'
  BY EdgeStep
<1> QED
  BY <1>1, <1>2, PTL DEF EdgeSpec

\* Every part keeps its types, within the bounds that the model names.
THEOREM EdgeTyped == EdgeSpec => []EdgeTypeOK
<1>1. EdgeInv => EdgeTypeOK
  BY TokensAreTyped, LimiterTyped DEF EdgeInv, EdgeTypeOK, ProfileInv
<1> QED
  BY <1>1, EdgeInvariant, PTL

\* However requests are lost, repeated, reordered or crash, a login has at most
\* one refresh token that works, and none after its logout, unless two requests
\* were spending one of its tokens at the same time.
THEOREM OneToken == EdgeSpec => []OneTokenPerLogin
<1>1. EdgeInv => OneTokenPerLogin
  BY OneTokenIsClaimed DEF EdgeInv, OneTokenPerLogin
<1> QED
  BY <1>1, EdgeInvariant, PTL

\* No step mints a pair from a blacklisted refresh token outside of that race.
THEOREM NoReuse == EdgeSpec => NeverReused
<1>1. EdgeInv /\ [EdgeNext]_<<part, tokenState, profileState, vars>> =>
        [Len(origin') > Len(origin) /\ origin'[Len(origin')].from \in revokedR
           => origin'[Len(origin')].from \in raced]_A!vars
  BY EdgeStep, NeverReusedStep DEF EdgeInv
<1> QED
  BY <1>1, EdgeInvariant, PTL DEF EdgeSpec, NeverReused, A!NeverReused

\* The profile that the gateway forwards is the stored one, or something that
\* can make it differ is named in the state.
THEOREM ProfileIsFresh == EdgeSpec => []ProfileFresh
<1>1. EdgeInv => ProfileFresh
  BY DEF EdgeInv, ProfileInv, Fresh, ProfileFresh, P!ProfileFresh
<1> QED
  BY <1>1, EdgeInvariant, PTL

\* Only a Google login that an edit fell into undoes it, and one that nothing
\* overlapped is never refused, whatever earlier requests left behind.
THEOREM AccountKept == EdgeSpec => []AccountIsKept
<1>1. EdgeInv => AccountIsKept
  BY DEF EdgeInv, ProfileInv, Kept, AccountIsKept, P!NoLostEdit, P!GoogleLoginWorks
<1> QED
  BY <1>1, EdgeInvariant, PTL

\* The limit of the gateway holds beside the other parts as well.
THEOREM EdgeLimit == EdgeSpec => []LimitIsExact
<1>1. EdgeInv => LimitIsExact
  BY ExactIsClaimed DEF EdgeInv
<1> QED
  BY <1>1, EdgeInvariant, PTL

=============================================================================
