---------------------------- MODULE UserProfile ----------------------------
(***************************************************************************)
(* The row of one user, the Google account linked to it and the copy of    *)
(* the profile that Redis keeps for an hour and the gateway turns into     *)
(* headers: auth.service.ts, users.service.ts and the Redis services.      *)
(* Each handler reads or writes the row and the cache in steps of its own. *)
(* The name stands for what a profile says; its versions are numbered.     *)
(***************************************************************************)
EXTENDS Naturals, FiniteSets

CONSTANTS
    Clients,   \* request slots
    MaxVersion \* bound: versions of the profile

VARIABLES
    row,       \* version of the name in the user's row, 0 without a row
    edits,     \* the version written last on purpose: by a creation or an edit
    linked,    \* a Google AuthAccount refers to the row
    profile,   \* version in the cache, 0 without an entry
    req,       \* the requests in flight: value is the version they read or wrote
    tainted,   \* history: the cached profile may be old, see CacheUserProfile
    overtaken, \* history: an edit fell between a Google login's two statements
    refused    \* history: a Google login failed though nothing overlapped it

vars == <<row, edits, linked, profile, req, tainted, overtaken, refused>>

Ops == {"register", "login", "google", "me", "update", "create"}
Idle == [op |-> "none", pc |-> "idle", value |-> 0, alone |-> TRUE]

Init ==
    /\ row = 0 /\ edits = 0 /\ linked = FALSE /\ profile = 0
    /\ req = [c \in Clients |-> Idle]
    /\ tainted = FALSE /\ overtaken = FALSE /\ refused = FALSE

Goto(c, pc, value) == req' = [req EXCEPT ![c].pc = pc, ![c].value = value]
Drop(c) == req' = [req EXCEPT ![c] = Idle]

\* The statement that creates the account: the others overlapped it.
Touch(c, pc, value) ==
    req' = [o \in Clients |-> IF o = c THEN [req[c] EXCEPT !.pc = pc, !.value = value]
                                       ELSE [req[o] EXCEPT !.alone = FALSE]]

\* The user is inserted: an id nobody has seen.  The cache has no entry for it,
\* and the user a request in flight has found is another one.
Insert(c, pc) ==
    /\ row' = 1 /\ edits' = 1 /\ profile' = 0 /\ tainted' = FALSE
    /\ req' = [o \in Clients |->
                 IF o = c THEN [req[c] EXCEPT !.pc = pc, !.value = 1]
                          ELSE [req[o] EXCEPT !.alone = FALSE, !.value = 0]]

\* Between reading or writing the row and writing the cache.
Holding(c) == req[c].pc \in {"linking", "found", "caching"}
Alone(c) == \A o \in Clients \ {c} : ~Holding(o)

\* /auth/me needs a valid access token, so the user existed once; the admin
\* creates users with POST /users.
Send(c, op) ==
    /\ req[c] = Idle
    /\ req' = [req EXCEPT ![c] = [Idle EXCEPT !.op = op, !.pc = "sent"]]
    /\ UNCHANGED <<row, edits, linked, profile, tainted, overtaken, refused>>

-----------------------------------------------------------------------------
(* Cache *)

\* Variant: the updated profile is not cached.
CacheUserProfile_OnReadOnly(c) ==
    IF req[c].op = "update" THEN UNCHANGED <<profile, tainted>>
    ELSE profile' = req[c].value /\ UNCHANGED tainted

\* The entry is trusted again once a request wrote it that no write of the row
\* overtook and that no other request may still overwrite.  Value 0 is another
\* user's profile, under another key.
CacheUserProfile(c) ==
    /\ profile' = IF req[c].value = 0 THEN profile ELSE req[c].value
    /\ tainted' = (tainted /\ ~(Alone(c) /\ row # 0 /\ req[c].value = row))

\* The last step of register, login, a Google login, GET and PATCH /auth/me.
Cache(c) ==
    /\ req[c].pc = "caching"
    /\ CacheUserProfile(c)
    /\ Drop(c)
    /\ UNCHANGED <<row, edits, linked, overtaken, refused>>

\* logout deletes the entry, and it expires after an hour.
DeleteUserProfile ==
    /\ profile # 0 /\ profile' = 0
    /\ tainted' = (tainted /\ \E c \in Clients : Holding(c))
    /\ UNCHANGED <<row, edits, linked, req, overtaken, refused>>

-----------------------------------------------------------------------------
(* Creation: the e-mail address is unique *)

\* register and UsersService.create: find by address, then insert.  Only
\* register goes on to the cache.
Create(c) ==
    /\ req[c].op \in {"register", "create"}
    /\ \/ /\ req[c].pc = "sent"
          /\ IF row = 0 THEN Goto(c, "absent", 0) ELSE Drop(c)
          /\ UNCHANGED <<row, edits, profile, tainted>>
       \/ /\ req[c].pc = "absent"
          /\ IF row = 0
             THEN Insert(c, IF req[c].op = "register" THEN "caching" ELSE "done")
             ELSE Drop(c) /\ UNCHANGED <<row, edits, profile, tainted>>
    /\ UNCHANGED <<linked, overtaken, refused>>

Done(c) ==
    /\ req[c].pc = "done"
    /\ Drop(c)
    /\ UNCHANGED <<row, edits, linked, profile, tainted, overtaken, refused>>

-----------------------------------------------------------------------------
(* Google login *)

\* The account by its provider id, with its user.
FindAccount(c) ==
    /\ req[c].op = "google" /\ req[c].pc = "sent"
    /\ IF linked THEN Goto(c, "found", row) ELSE Goto(c, "unlinked", 0)
    /\ UNCHANGED <<row, edits, linked, profile, tainted, overtaken, refused>>

\* Then the user by the e-mail address.
FindByEmail(c) == IF row # 0 THEN Goto(c, "linking", row) ELSE Goto(c, "absent", 0)

FindUser(c) ==
    /\ req[c].op = "google" /\ req[c].pc = "unlinked"
    /\ FindByEmail(c)
    /\ UNCHANGED <<row, edits, linked, profile, tainted, overtaken, refused>>

\* A unique constraint, or a row that is gone, fails the login.
Refuse(c) == Drop(c) /\ refused' = (refused \/ req[c].alone)

CreateUser(c) ==
    /\ req[c].op = "google" /\ req[c].pc = "absent"
    /\ IF row = 0
       THEN Insert(c, "linking") /\ UNCHANGED refused
       ELSE Refuse(c) /\ UNCHANGED <<row, edits, profile, tainted>>
    /\ UNCHANGED <<linked, overtaken>>

\* The user the login has found is still there.
Exists(c) == row # 0 /\ req[c].value # 0

LinkAccount(c) ==
    /\ req[c].op = "google" /\ req[c].pc = "linking"
    /\ IF Exists(c) /\ ~linked
       THEN linked' = TRUE /\ Touch(c, "found", req[c].value) /\ UNCHANGED refused
       ELSE Refuse(c) /\ UNCHANGED linked
    /\ UNCHANGED <<row, edits, profile, tainted, overtaken>>

\* Variant: the name Google sends takes precedence.
Name_FromGoogle(c) == 1

\* user.name ?? profile.name
Name(c) == req[c].value

\* user.update writes back the name that was read.
Refreshed(c) ==
    /\ req[c].op = "google" /\ req[c].pc = "found"
    /\ IF Exists(c)
       THEN row' = Name(c) /\ Goto(c, "caching", row') /\ UNCHANGED refused
       ELSE Refuse(c) /\ UNCHANGED row
    /\ tainted' = (tainted \/ (row' # row /\ ~Alone(c)))
    /\ UNCHANGED <<edits, linked, profile, overtaken>>

-----------------------------------------------------------------------------
(* Login and edits *)

\* login (which then compares the password) and getMe cache what they read.
ReadRow(c) ==
    /\ req[c].op \in {"login", "me"} /\ req[c].pc = "sent"
    /\ IF row = 0 THEN Drop(c) ELSE Goto(c, "caching", row)
    /\ UNCHANGED <<row, edits, linked, profile, tainted, overtaken, refused>>

Edit ==
    /\ row # 0 /\ edits < MaxVersion
    /\ row' = edits + 1 /\ edits' = edits + 1
    /\ overtaken' = (overtaken \/ \E c \in Clients :
                       req[c].op = "google" /\ req[c].pc \in {"linking", "found"})

UpdateProfile(c) ==
    /\ req[c].op = "update" /\ req[c].pc = "sent"
    /\ \/ /\ Edit
          /\ Goto(c, "caching", row')
          /\ tainted' = (tainted \/ ~Alone(c))
       \/ row = 0 /\ Drop(c) /\ UNCHANGED <<row, edits, tainted, overtaken>>
    /\ UNCHANGED <<linked, profile, refused>>

\* PATCH /users/:id leaves the cache alone.
AdminEdit ==
    /\ Edit
    /\ tainted' = TRUE
    /\ UNCHANGED <<linked, profile, req, refused>>

\* DELETE /users/:id: the accounts go with the row (ON DELETE CASCADE), Redis is
\* not told: an entry, or one a request is about to write, outlives the user.
Remove ==
    /\ row # 0
    /\ row' = 0 /\ edits' = 0 /\ linked' = FALSE
    /\ req' = [c \in Clients |-> [req[c] EXCEPT !.alone = FALSE]]
    /\ tainted' = (tainted \/ profile # 0 \/ \E c \in Clients : Holding(c))
    /\ UNCHANGED <<profile, overtaken, refused>>

\* An exception, a Redis error, a mail that could not be sent, or a restart.
Fail(c) ==
    /\ req[c] # Idle
    /\ Drop(c)
    /\ tainted' = (tainted \/ Holding(c))
    /\ UNCHANGED <<row, edits, linked, profile, overtaken, refused>>

-----------------------------------------------------------------------------
Step(c) ==
    \/ Create(c) \/ Done(c) \/ ReadRow(c) \/ UpdateProfile(c) \/ Cache(c) \/ Fail(c)
    \/ FindAccount(c) \/ FindUser(c) \/ CreateUser(c) \/ LinkAccount(c) \/ Refreshed(c)

Next ==
    \/ \E c \in Clients : (\E op \in Ops : Send(c, op)) \/ Step(c)
    \/ DeleteUserProfile \/ AdminEdit \/ Remove

Spec == Init /\ [][Next]_vars

-----------------------------------------------------------------------------
(* Properties *)

TypeOK ==
    /\ row \in 0..MaxVersion /\ edits \in 0..MaxVersion /\ profile \in 0..MaxVersion
    /\ linked \in BOOLEAN
    /\ req \in [Clients -> [op : Ops \union {"none"},
                  pc : {"idle", "sent", "absent", "unlinked", "linking", "found",
                        "caching", "done"},
                  value : 0..MaxVersion, alone : BOOLEAN]]
    /\ tainted \in BOOLEAN /\ overtaken \in BOOLEAN /\ refused \in BOOLEAN

\* The profile the gateway forwards is the stored one, except while a request
\* is between its write of the row and its write of the cache, and after a
\* write that bypassed the cache (an administrator's edit, the removal of the
\* user), failed half way or was overlapped: the next request that runs alone
\* puts it right, the profile of a removed user only its expiry or a logout.
ProfileFresh ==
    profile \in {0, row} \/ tainted
        \/ \E c \in Clients : req[c].op \in {"update", "google"} /\ req[c].pc = "caching"

\* An edit of the profile is undone only by a Google login it fell into: that
\* login reads the name, links an account and then writes the name back.
NoLostEdit == row = edits \/ overtaken

\* Whatever is left of earlier attempts (a row without account after a crash,
\* an e-mail registration), a Google login that nothing overlaps goes through.
GoogleLoginWorks == ~refused

=============================================================================
