---------------------------- MODULE EmailTokens ----------------------------
(***************************************************************************)
(* The mailed tokens of one e-mail address: registration, verification and *)
(* password reset in src/auth/src/modules/auth/auth.service.ts.  The row   *)
(* keeps the hash of one token per kind.  Issuing writes the row and then  *)
(* sends the mail, which may fail; using finds the row by the hash, checks *)
(* its age and then writes.  A token is "current" while its hash is the    *)
(* last one issued of its kind; all that is kept of older ones is whether  *)
(* a request still holds one.                                              *)
(***************************************************************************)
EXTENDS Naturals, FiniteSets

CONSTANTS
    Clients, \* request slots
    Owner    \* the slot of the owner of the address, see Fairness

VARIABLES
    user,     \* "none", "unverified" or "verified"
    stored,   \* per kind: "none", "fresh" or "aged", the token kept in the row
    inbox,    \* per kind: the mail with the current token arrived
    req,      \* the requests in flight
    uses,     \* history, per kind: requests the current token let through
    overlaps  \* history, per kind: a use overlapped another use or an issue

vars == <<user, stored, inbox, req, uses, overlaps>>

Kinds == {"verify", "reset"}
Issuers == {"register", "resend", "forgot"}
KindOf(op) == IF op \in {"forgot", "reset"} THEN "reset" ELSE "verify"
Idle == [op |-> "none", pc |-> "idle", current |-> FALSE]

Init ==
    /\ user = "none"
    /\ stored = [k \in Kinds |-> "none"]
    /\ inbox = [k \in Kinds |-> FALSE]
    /\ req = [c \in Clients |-> Idle]
    /\ uses = [k \in Kinds |-> 0]
    /\ overlaps = [k \in Kinds |-> FALSE]

Goto(c, pc) == req' = [req EXCEPT ![c].pc = pc]
Drop(c) == req' = [req EXCEPT ![c] = Idle]
Others(c, op, pc) == {o \in Clients \ {c} : req[o].op = op /\ req[o].pc = pc}

\* verify-email and reset-password carry the token of a mail that arrived.
Send(c, op) ==
    /\ req[c] = Idle
    /\ op \in Kinds => inbox[op]
    /\ req' = [req EXCEPT ![c] = [op |-> op, pc |-> "sent", current |-> TRUE]]
    /\ UNCHANGED <<user, stored, inbox, uses, overlaps>>

-----------------------------------------------------------------------------
(* Issuing *)

\* A new hash replaces the one in the row: what others hold is an older token.
Issue(c, k) ==
    /\ stored' = [stored EXCEPT ![k] = "fresh"]
    /\ inbox' = [inbox EXCEPT ![k] = FALSE]
    /\ uses' = [uses EXCEPT ![k] = 0]
    /\ overlaps' = [overlaps EXCEPT ![k] = Others(c, k, "found") # {}]
    /\ req' = [o \in Clients |->
                 CASE o = c -> [req[c] EXCEPT !.pc = "mailing", !.current = TRUE]
                   [] o # c /\ req[o].op # "none" /\ KindOf(req[o].op) = k ->
                        [req[o] EXCEPT !.current = FALSE]
                   [] OTHER -> req[o]]

\* The address must be free when register looks and when it inserts.
Register(c) ==
    /\ req[c].op = "register"
    /\ \/ /\ req[c].pc = "sent"
          /\ IF user = "none" THEN Goto(c, "found") ELSE Drop(c)
          /\ UNCHANGED <<user, stored, inbox, uses, overlaps>>
       \/ /\ req[c].pc = "found"
          /\ IF user = "none"
             THEN user' = "unverified" /\ Issue(c, "verify")
             ELSE Drop(c) /\ UNCHANGED <<user, stored, inbox, uses, overlaps>>

\* Variant: a verification mail is only sent while no token is stored.
ResendFinds_OnlyOnce == user = "unverified" /\ stored["verify"] = "none"

\* resendVerification goes on for an unverified user only.
ResendFinds == user = "unverified"

\* resendVerification and forgotPassword: read the user, write a new hash.
Reissue(c) ==
    /\ req[c].op \in {"resend", "forgot"}
    /\ UNCHANGED user
    /\ \/ /\ req[c].pc = "sent"
          /\ IF (IF req[c].op = "resend" THEN ResendFinds ELSE user # "none")
             THEN Goto(c, "found") ELSE Drop(c)
          /\ UNCHANGED <<stored, inbox, uses, overlaps>>
       \/ req[c].pc = "found" /\ Issue(c, KindOf(req[c].op))

\* sendEmail: accepted by the mail provider, or the request fails though the
\* row keeps the hash.
Mail(c) ==
    /\ req[c].pc = "mailing"
    /\ inbox' = [inbox EXCEPT ![KindOf(req[c].op)] = @ \/ req[c].current]
    /\ Drop(c)
    /\ UNCHANGED <<user, stored, uses, overlaps>>

-----------------------------------------------------------------------------
(* Using *)

\* findFirst by the hash, then the age check.
FindByHash(c) ==
    /\ req[c].op \in Kinds /\ req[c].pc = "sent"
    /\ IF req[c].current /\ stored[req[c].op] = "fresh"
       THEN /\ Goto(c, "found")
            /\ overlaps' = [overlaps EXCEPT ![req[c].op] =
                              @ \/ Others(c, req[c].op, "found") # {}]
       ELSE Drop(c) /\ UNCHANGED overlaps
    /\ UNCHANGED <<user, stored, inbox, uses>>

\* Variant: the hash is emptied and not set to null.
Consumed_Empty(k) == ""

\* Variant: the hash stays in the row after it was used.
Consumed_Kept(k) == stored[k]

\* The update sets the hash and its date to null.
Consumed(k) == "none"

\* verifyEmail and resetPassword write by the user's id: whatever hash the row
\* holds by now is removed.
Use(c) ==
    /\ req[c].op \in Kinds /\ req[c].pc = "found"
    /\ user' = IF req[c].op = "verify" THEN "verified" ELSE user
    /\ stored' = [stored EXCEPT ![req[c].op] = Consumed(req[c].op)]
    /\ uses' = IF req[c].current
               THEN [uses EXCEPT ![req[c].op] = IF @ < 2 THEN @ + 1 ELSE @] ELSE uses
    /\ Drop(c)
    /\ UNCHANGED <<inbox, overlaps>>

-----------------------------------------------------------------------------
\* The configured number of minutes passes.
Age(k) ==
    /\ stored[k] = "fresh"
    /\ stored' = [stored EXCEPT ![k] = "aged"]
    /\ UNCHANGED <<user, inbox, req, uses, overlaps>>

\* A first Google login creates the user, or verifies the one it finds;
\* POST /users creates one nobody mailed.
OtherWriter ==
    /\ \/ user' = "verified"
       \/ user = "none" /\ user' = "unverified"
    /\ UNCHANGED <<stored, inbox, req, uses, overlaps>>

Fail(c) ==
    /\ req[c] # Idle
    /\ Drop(c)
    /\ UNCHANGED <<user, stored, inbox, uses, overlaps>>

Ops == Issuers \union Kinds
Step(c) == Register(c) \/ Reissue(c) \/ Mail(c) \/ FindByHash(c) \/ Use(c)

Next ==
    \/ \E c \in Clients : (\E op \in Ops : Send(c, op)) \/ Step(c) \/ Fail(c)
    \/ \E k \in Kinds : Age(k)
    \/ OtherWriter

\* The user asks for another mail and opens the one that came: of one client
\* not every request fails and not every token comes too late.
Fairness ==
    LET InTime == stored["verify"] = "fresh" IN
    /\ WF_vars(Step(Owner))
    /\ \A op \in {"resend", "verify"} : SF_vars(Send(Owner, op) /\ (op = "verify" => InTime))
    /\ \A pc \in {"sent", "found"} :
         SF_vars(Reissue(Owner) /\ req[Owner].op = "resend" /\ req[Owner].pc = pc)
    /\ SF_vars(Mail(Owner) /\ req[Owner].op = "resend" /\ req[Owner].current /\ InTime)
    /\ SF_vars(FindByHash(Owner) /\ req[Owner].op = "verify" /\ req[Owner].current /\ InTime)
    /\ SF_vars(Use(Owner) /\ req[Owner].op = "verify")

Spec == Init /\ [][Next]_vars
FairSpec == Spec /\ Fairness

-----------------------------------------------------------------------------
(* Properties *)

TypeOK ==
    /\ user \in {"none", "unverified", "verified"}
    /\ stored \in [Kinds -> {"none", "fresh", "aged"}]
    /\ inbox \in [Kinds -> BOOLEAN] /\ overlaps \in [Kinds -> BOOLEAN]
    /\ req \in [Clients -> [op : Ops \union {"none"},
                  pc : {"idle", "sent", "found", "mailing"}, current : BOOLEAN]]
    /\ uses \in [Kinds -> 0..2]

\* A mailed token opens one verification or one password reset, and the token
\* issued last stays usable until it is used - unless a request that had found
\* the row wrote it after another use or another issue.
TokenUsedOnce ==
    \A k \in Kinds : ~overlaps[k] =>
        /\ uses[k] <= 1
        /\ inbox[k] /\ uses[k] = 0 => stored[k] # "none"

\* A registration whose mail was lost is no dead end, though the address is
\* taken by then: the user gets a working token by asking for another mail.
LostMailRecovers == user = "unverified" ~> user = "verified"

=============================================================================
