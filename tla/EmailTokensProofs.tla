------------------------- MODULE EmailTokensProofs -------------------------
(* Mailed tokens are used once, for any number of requests at a time.      *)
EXTENDS EmailTokens, TLAPS

(***************************************************************************)
(* The inductive invariant.  While nothing has overlapped, one request at  *)
(* most has found the row by a token of kind k; it holds the current one,  *)
(* which nobody has used and which is still in the row.  A used token is   *)
(* gone from the row, and one that was issued and not used is there.       *)
(***************************************************************************)

Found(c, k) == req[c].op = k /\ req[c].pc = "found"
Mailing(c, k) == req[c].pc = "mailing" /\ req[c].current /\ KindOf(req[c].op) = k

Once(k) ==
    /\ \A c, d \in Clients : Found(c, k) /\ Found(d, k) => c = d
    /\ \A c \in Clients : Found(c, k) => req[c].current /\ uses[k] = 0 /\ stored[k] # "none"
    /\ uses[k] <= 1 /\ (uses[k] > 0 => stored[k] = "none")
    /\ \A c \in Clients : Mailing(c, k) /\ uses[k] = 0 => stored[k] # "none"
    /\ inbox[k] /\ uses[k] = 0 => stored[k] # "none"

TokenInv == TypeOK /\ \A k \in Kinds : overlaps[k] \/ Once(k)

LEMMA OpsTyped == /\ Kinds \subseteq Ops /\ Issuers \subseteq Ops
                  /\ \A op \in Ops : KindOf(op) \in Kinds /\ op # "none"
BY DEF Kinds, Issuers, Ops, KindOf

\* A request that moves on, or ends, is the only one whose record changes.
LEMMA GotoChanges ==
    ASSUME TypeOK, NEW c \in Clients, NEW pc, Goto(c, pc)
    PROVE  /\ req'[c].op = req[c].op /\ req'[c].current = req[c].current /\ req'[c].pc = pc
           /\ \A d \in Clients \ {c} : req'[d] = req[d]
BY DEF TypeOK, Goto

LEMMA DropChanges ==
    ASSUME TypeOK, NEW c \in Clients, Drop(c)
    PROVE  /\ req'[c] = Idle
           /\ \A d \in Clients \ {c} : req'[d] = req[d]
BY DEF TypeOK, Drop

-----------------------------------------------------------------------------
LEMMA IssueTyped ==
    ASSUME TypeOK, NEW c \in Clients, NEW k \in Kinds, Issue(c, k)
    PROVE  /\ stored' \in [Kinds -> {"none", "fresh", "aged"}]
           /\ inbox' \in [Kinds -> BOOLEAN] /\ overlaps' \in [Kinds -> BOOLEAN]
           /\ uses' \in [Kinds -> 0..2]
           /\ req' \in [Clients -> [op : Ops \union {"none"},
                  pc : {"idle", "sent", "found", "mailing"}, current : BOOLEAN]]
<1>1. stored' \in [Kinds -> {"none", "fresh", "aged"}] /\ uses' \in [Kinds -> 0..2]
  BY DEF TypeOK, Issue
<1>2. inbox' \in [Kinds -> BOOLEAN] /\ overlaps' \in [Kinds -> BOOLEAN]
  BY DEF TypeOK, Issue
<1>3. req' \in [Clients -> [op : Ops \union {"none"},
                  pc : {"idle", "sent", "found", "mailing"}, current : BOOLEAN]]
  BY DEF TypeOK, Issue
<1> QED
  BY <1>1, <1>2, <1>3

\* Moving on and ending keep the type of the requests.
LEMMA MoveTyped ==
    ASSUME TypeOK, NEW c \in Clients, Goto(c, "found") \/ Drop(c)
    PROVE  req' \in [Clients -> [op : Ops \union {"none"},
                  pc : {"idle", "sent", "found", "mailing"}, current : BOOLEAN]]
<1>1. CASE Goto(c, "found")
  BY <1>1 DEF TypeOK, Goto
<1>2. CASE Drop(c)
  BY <1>2 DEF TypeOK, Drop, Idle
<1> QED
  BY <1>1, <1>2

LEMMA StepTyped ==
    ASSUME TypeOK, [Next]_vars
    PROVE  TypeOK'
<1> USE OpsTyped
<1>1. CASE UNCHANGED vars
  BY <1>1 DEF TypeOK, vars
<1>2. ASSUME NEW c \in Clients, NEW op \in Ops, Send(c, op) PROVE TypeOK'
  BY <1>2 DEF TypeOK, Send
<1>3. ASSUME NEW c \in Clients, Register(c) PROVE TypeOK'
  <2>1. CASE user' = "unverified" /\ Issue(c, "verify")
    <3>1. "verify" \in Kinds
      BY DEF Kinds
    <3> QED
      BY <2>1, <3>1, IssueTyped DEF TypeOK
  <2>2. CASE (Goto(c, "found") \/ Drop(c)) /\ UNCHANGED <<user, stored, inbox, uses, overlaps>>
    BY <2>2, MoveTyped DEF TypeOK
  <2> QED
    BY <1>3, <2>1, <2>2 DEF Register
<1>4. ASSUME NEW c \in Clients, Reissue(c) PROVE TypeOK'
  <2>1. CASE UNCHANGED user /\ Issue(c, KindOf(req[c].op))
    <3>1. KindOf(req[c].op) \in Kinds
      BY DEF Kinds, KindOf
    <3> QED
      BY <2>1, <3>1, IssueTyped DEF TypeOK
  <2>2. CASE (Goto(c, "found") \/ Drop(c)) /\ UNCHANGED <<user, stored, inbox, uses, overlaps>>
    BY <2>2, MoveTyped DEF TypeOK
  <2> QED
    BY <1>4, <2>1, <2>2 DEF Reissue
<1>5. ASSUME NEW c \in Clients, Mail(c) PROVE TypeOK'
  BY <1>5 DEF TypeOK, Mail, Drop, Idle
<1>6. ASSUME NEW c \in Clients, FindByHash(c) PROVE TypeOK'
  <2>1. Goto(c, "found") \/ Drop(c)
    BY <1>6 DEF FindByHash
  <2>2. overlaps' \in [Kinds -> BOOLEAN] /\ UNCHANGED <<user, stored, inbox, uses>>
    BY <1>6 DEF FindByHash, TypeOK
  <2> QED
    BY <2>1, <2>2, MoveTyped DEF TypeOK
<1>7. ASSUME NEW c \in Clients, Use(c) PROVE TypeOK'
  BY <1>7 DEF TypeOK, Use, Drop, Idle, Consumed
<1>8. ASSUME NEW c \in Clients, Fail(c) PROVE TypeOK'
  BY <1>8 DEF TypeOK, Fail, Drop, Idle
<1>9. ASSUME NEW k \in Kinds, Age(k) PROVE TypeOK'
  BY <1>9 DEF TypeOK, Age
<1>10. CASE OtherWriter
  BY <1>10 DEF TypeOK, OtherWriter
<1> QED
  BY <1>1, <1>2, <1>3, <1>4, <1>5, <1>6, <1>7, <1>8, <1>9, <1>10 DEF Next, Step

-----------------------------------------------------------------------------
\* A step after which every request that has found the row, or is about to
\* mail its token, is one of before, and that leaves the row's token alone.
Fewer(k) ==
    /\ \A c \in Clients : Found(c, k)' => Found(c, k) /\ req'[c].current = req[c].current
    /\ \A c \in Clients : Mailing(c, k)' => Mailing(c, k)
    /\ uses'[k] = uses[k]
    /\ stored'[k] = "none" <=> stored[k] = "none"
    /\ inbox'[k] => inbox[k] \/ \E c \in Clients : Mailing(c, k)

LEMMA FewerOnce ==
    ASSUME NEW k \in Kinds, Once(k), Fewer(k)
    PROVE  Once(k)'
<1>1. \A c, d \in Clients : Found(c, k)' /\ Found(d, k)' => c = d
  BY DEF Once, Fewer
<1>2. \A c \in Clients : Found(c, k)' => req'[c].current /\ uses'[k] = 0 /\ stored'[k] # "none"
  BY DEF Once, Fewer
<1>3. uses'[k] <= 1 /\ (uses'[k] > 0 => stored'[k] = "none")
  BY DEF Once, Fewer
<1>4. /\ \A c \in Clients : Mailing(c, k)' /\ uses'[k] = 0 => stored'[k] # "none"
      /\ inbox'[k] /\ uses'[k] = 0 => stored'[k] # "none"
  BY DEF Once, Fewer
<1> QED
  BY <1>1, <1>2, <1>3, <1>4 DEF Once

LEMMA IssueOnce ==
    ASSUME TypeOK, NEW c \in Clients, NEW i \in Kinds, Issue(c, i), KindOf(req[c].op) = i,
           req[c].op \notin Kinds, NEW k \in Kinds, ~overlaps'[k], overlaps[k] \/ Once(k)
    PROVE  Once(k)'
<1>1. CASE k = i
  <2>1. stored'[k] = "fresh" /\ ~inbox'[k] /\ uses'[k] = 0 /\ Others(c, k, "found") = {}
    BY <1>1 DEF Issue, TypeOK
  <2>2. \A d \in Clients : ~Found(d, k)'
    BY <1>1, <2>1 DEF Issue, Found, Others
  <2> QED
    BY <2>1, <2>2 DEF Once
<1>2. CASE k # i
  <2>1. /\ Once(k) /\ stored'[k] = stored[k] /\ inbox'[k] = inbox[k] /\ uses'[k] = uses[k]
    BY <1>2 DEF Issue, TypeOK
  <2>2. \A d \in Clients : Found(d, k)' => Found(d, k) /\ req'[d] = req[d]
    BY <1>2 DEF Issue, Found, KindOf, Kinds
  <2>3. \A d \in Clients : Mailing(d, k)' => Mailing(d, k)
    BY <1>2 DEF Issue, Mailing, TypeOK
  <2> QED
    BY <2>1, <2>2, <2>3, FewerOnce DEF Fewer
<1> QED
  BY <1>1, <1>2

\* The step of an issuing request that only moves on.
LEMMA MoveOnce ==
    ASSUME TypeOK, NEW c \in Clients, Goto(c, "found"), req[c].op \notin Kinds,
           UNCHANGED <<stored, inbox, uses, overlaps>>, NEW k \in Kinds, Once(k)
    PROVE  Once(k)'
<1>1. /\ req'[c].op = req[c].op /\ req'[c].pc = "found"
      /\ \A d \in Clients \ {c} : req'[d] = req[d]
  BY GotoChanges
<1>2. \A d \in Clients : /\ Found(d, k)' => Found(d, k) /\ req'[d] = req[d]
                         /\ Mailing(d, k)' => Mailing(d, k)
  BY <1>1 DEF Found, Mailing
<1> QED
  BY <1>2, FewerOnce DEF Fewer

LEMMA DropOnce ==
    ASSUME TypeOK, NEW c \in Clients, Drop(c), UNCHANGED <<stored, inbox, uses, overlaps>>,
           NEW k \in Kinds, Once(k)
    PROVE  Once(k)'
<1>1. \A d \in Clients : /\ Found(d, k)' => Found(d, k) /\ req'[d] = req[d]
                         /\ Mailing(d, k)' => Mailing(d, k)
  BY DropChanges DEF Found, Mailing, Idle
<1> QED
  BY <1>1, FewerOnce DEF Fewer

LEMMA FindOnce ==
    ASSUME TokenInv, NEW c \in Clients, FindByHash(c), NEW k \in Kinds, ~overlaps'[k]
    PROVE  Once(k)'
<1>0. TypeOK /\ UNCHANGED <<stored, inbox, uses>>
  BY DEF TokenInv, FindByHash
<1>1. CASE Drop(c) /\ UNCHANGED overlaps
  <2>1. Once(k)
    BY <1>1 DEF TokenInv
  <2> QED
    BY <1>0, <1>1, <2>1, DropOnce
<1>2. CASE /\ Goto(c, "found") /\ req[c].current /\ stored[req[c].op] = "fresh"
           /\ overlaps' = [overlaps EXCEPT ![req[c].op] =
                              @ \/ Others(c, req[c].op, "found") # {}]
  <2>1. /\ req'[c].op = req[c].op /\ req'[c].current = req[c].current /\ req'[c].pc = "found"
        /\ \A d \in Clients \ {c} : req'[d] = req[d]
    BY <1>0, <1>2, GotoChanges
  <2>2. ~overlaps[k] /\ (k = req[c].op => Others(c, k, "found") = {})
    BY <1>0, <1>2 DEF TypeOK
  <2>3. Once(k)
    BY <2>2 DEF TokenInv
  <2>4. \A d \in Clients : Mailing(d, k)' => Mailing(d, k)
    BY <2>1 DEF Mailing
  <2>5. CASE k = req[c].op
    <3>1. \A d \in Clients : Found(d, k)' => d = c
      BY <2>1, <2>2, <2>5 DEF Found, Others
    <3>2. req'[c].current /\ stored[k] # "none" /\ uses[k] = 0
      BY <1>0, <1>2, <2>1, <2>3, <2>5 DEF Once, TypeOK
    <3> QED
      BY <1>0, <2>3, <2>4, <3>1, <3>2 DEF Once
  <2>6. CASE k # req[c].op
    <3>1. \A d \in Clients : Found(d, k)' => Found(d, k) /\ req'[d] = req[d]
      BY <2>1, <2>6 DEF Found
    <3> QED
      BY <1>0, <2>3, <2>4, <3>1, FewerOnce DEF Fewer
  <2> QED
    BY <2>5, <2>6
<1> QED
  BY <1>1, <1>2 DEF FindByHash

LEMMA UseOnce ==
    ASSUME TokenInv, NEW c \in Clients, Use(c), NEW k \in Kinds, ~overlaps'[k]
    PROVE  Once(k)'
<1>1. /\ TypeOK /\ Once(k) /\ Drop(c) /\ req[c].op \in Kinds /\ req[c].pc = "found"
      /\ UNCHANGED <<inbox, overlaps>>
      /\ stored' = [stored EXCEPT ![req[c].op] = "none"]
      /\ uses' = IF req[c].current
                 THEN [uses EXCEPT ![req[c].op] = IF @ < 2 THEN @ + 1 ELSE @] ELSE uses
  BY DEF TokenInv, Use, Consumed
<1>2. req'[c] = Idle /\ \A d \in Clients \ {c} : req'[d] = req[d]
  BY <1>1, DropChanges
<1>3. CASE k = req[c].op
  <2>1. Found(c, k) /\ req[c].current /\ uses[k] = 0
    BY <1>1, <1>3 DEF Found, Once
  <2>2. uses'[k] = 1 /\ stored'[k] = "none"
    BY <1>1, <1>3, <2>1 DEF TypeOK
  <2>3. \A d \in Clients : ~Found(d, k)'
    BY <1>1, <1>2, <2>1 DEF Found, Once, Idle
  <2> QED
    BY <2>2, <2>3 DEF Once
<1>4. CASE k # req[c].op
  <2>1. uses'[k] = uses[k] /\ stored'[k] = stored[k]
    BY <1>1, <1>4 DEF TypeOK
  <2>2. \A d \in Clients : /\ Found(d, k)' => Found(d, k) /\ req'[d] = req[d]
                           /\ Mailing(d, k)' => Mailing(d, k)
    BY <1>2 DEF Found, Mailing, Idle
  <2> QED
    BY <1>1, <2>1, <2>2, FewerOnce DEF Fewer
<1> QED
  BY <1>3, <1>4

LEMMA StepOnce ==
    ASSUME TokenInv, [Next]_vars, NEW k \in Kinds, ~overlaps'[k]
    PROVE  Once(k)'
<1> USE DEF TokenInv
<1>1. CASE UNCHANGED vars
  BY <1>1, FewerOnce DEF vars, Fewer, Found, Mailing
<1>2. ASSUME NEW c \in Clients, NEW op \in Ops, Send(c, op) PROVE Once(k)'
  <2>1. /\ req'[c].pc = "sent" /\ \A d \in Clients \ {c} : req'[d] = req[d]
    BY <1>2 DEF Send, TypeOK
  <2>2. Once(k) /\ UNCHANGED <<stored, inbox, uses>>
    BY <1>2 DEF Send
  <2>3. \A d \in Clients : /\ Found(d, k)' => Found(d, k) /\ req'[d] = req[d]
                           /\ Mailing(d, k)' => Mailing(d, k)
    BY <2>1 DEF Found, Mailing
  <2> QED
    BY <2>2, <2>3, FewerOnce DEF Fewer
<1>3. ASSUME NEW c \in Clients, Register(c) PROVE Once(k)'
  <2>1. req[c].op \notin Kinds /\ KindOf(req[c].op) = "verify" /\ "verify" \in Kinds
    BY <1>3 DEF Register, Kinds, KindOf
  <2>2. CASE Issue(c, "verify")
    BY <2>1, <2>2, IssueOnce
  <2>3. CASE (Goto(c, "found") \/ Drop(c)) /\ UNCHANGED <<stored, inbox, uses, overlaps>>
    <3>1. Once(k)
      BY <2>3
    <3> QED
      BY <2>1, <2>3, <3>1, MoveOnce, DropOnce
  <2> QED
    BY <1>3, <2>2, <2>3 DEF Register
<1>4. ASSUME NEW c \in Clients, Reissue(c) PROVE Once(k)'
  <2>1. req[c].op \notin Kinds /\ KindOf(req[c].op) \in Kinds
    BY <1>4 DEF Reissue, Kinds, KindOf
  <2>2. CASE Issue(c, KindOf(req[c].op))
    BY <2>1, <2>2, IssueOnce
  <2>3. CASE (Goto(c, "found") \/ Drop(c)) /\ UNCHANGED <<stored, inbox, uses, overlaps>>
    <3>1. Once(k)
      BY <2>3
    <3> QED
      BY <2>1, <2>3, <3>1, MoveOnce, DropOnce
  <2> QED
    BY <1>4, <2>2, <2>3 DEF Reissue
<1>5. ASSUME NEW c \in Clients, Mail(c) PROVE Once(k)'
  <2>1. /\ Once(k) /\ Drop(c) /\ req[c].pc = "mailing" /\ UNCHANGED <<stored, uses, overlaps>>
        /\ inbox' = [inbox EXCEPT ![KindOf(req[c].op)] = @ \/ req[c].current]
    BY <1>5 DEF Mail
  <2>2. \A d \in Clients : /\ Found(d, k)' => Found(d, k) /\ req'[d] = req[d]
                           /\ Mailing(d, k)' => Mailing(d, k)
    BY <2>1, DropChanges DEF Found, Mailing, Idle
  <2>3. inbox'[k] => inbox[k] \/ Mailing(c, k)
    BY <2>1 DEF TypeOK, Mailing
  <2> QED
    BY <2>1, <2>2, <2>3, FewerOnce DEF Fewer
<1>6. ASSUME NEW c \in Clients, FindByHash(c) PROVE Once(k)'
  BY <1>6, FindOnce
<1>7. ASSUME NEW c \in Clients, Use(c) PROVE Once(k)'
  BY <1>7, UseOnce
<1>8. ASSUME NEW c \in Clients, Fail(c) PROVE Once(k)'
  BY <1>8, DropOnce DEF Fail
<1>9. ASSUME NEW i \in Kinds, Age(i) PROVE Once(k)'
  <2>1. /\ Once(k) /\ UNCHANGED <<inbox, req, uses>>
        /\ stored'[k] = "none" <=> stored[k] = "none"
    BY <1>9 DEF Age, TypeOK
  <2> QED
    BY <2>1, FewerOnce DEF Fewer, Found, Mailing
<1>10. CASE OtherWriter
  BY <1>10, FewerOnce DEF OtherWriter, Fewer, Found, Mailing
<1> QED
  BY <1>1, <1>2, <1>3, <1>4, <1>5, <1>6, <1>7, <1>8, <1>9, <1>10 DEF Next, Step

-----------------------------------------------------------------------------
LEMMA TokenInit == Init => TokenInv
<1> SUFFICES ASSUME Init PROVE TokenInv
  OBVIOUS
<1>1. TypeOK
  BY DEF Init, TypeOK, Idle
<1>2. \A k \in Kinds : Once(k)
  BY DEF Init, Once, Found, Mailing, Idle
<1> QED
  BY <1>1, <1>2 DEF TokenInv

LEMMA TokenStep == TokenInv /\ [Next]_vars => TokenInv'
BY StepTyped, StepOnce DEF TokenInv

\* Requests, rows and mails keep their types.
THEOREM TokensTyped == Spec => []TypeOK
<1>1. TokenInv => TypeOK
  BY DEF TokenInv
<1> QED
  BY <1>1, TokenInit, TokenStep, PTL DEF Spec

\* However many requests issue and use tokens at a time, a token opens one
\* verification or one reset, unless one of them overtook another.
THEOREM UsedOnce == Spec => []TokenUsedOnce
<1>1. TokenInv => TokenUsedOnce
  BY DEF TokenInv, TokenUsedOnce, Once
<1> QED
  BY <1>1, TokenInit, TokenStep, PTL DEF Spec
=============================================================================
