---------------------------- MODULE TutorSession ----------------------------
(* One tutor session (generative service, TutorSessionsService).           *)
(*                                                                         *)
(* The session is a JSON value in Redis.  Every request reads the whole of *)
(* it and writes the whole of it back; interact waits for the language     *)
(* model and the voice in between.  A client turn id makes a turn          *)
(* idempotent through a second key, looked up before and stored after the  *)
(* turn.  Redis errors are swallowed: a failed read finds nothing, a       *)
(* failed write is not noticed.                                            *)
EXTENDS Naturals, Sequences, SequencesExt

CONSTANTS
    Requests,    \* requests in progress at a time
    Turns,       \* client turn ids
    TurnsLimit,  \* TUTOR_TURNS_LIMIT: turns a session keeps
    MaxTurns     \* bound: turns made

VARIABLES
    session,     \* the session in Redis
    keys,        \* the client turns whose answer is stored in Redis
    req,         \* req[r]: where a request is, its turn and the session it read
    made,        \* history: the turns written to the session, in order
    ended,       \* history: the session has been ended
    overlapped,  \* history: a write replaced a session that had changed since it was read
    excused      \* history: the client turns whose key was missed, lost or not yet stored

vars == <<session, keys, req, made, ended, overlapped, excused>>

States == {"ACTIVE", "LISTENING", "COMPLETED"}

Session == [exists : BOOLEAN, state : States, turns : Seq(Turns)]

NoSession == [exists |-> FALSE, state |-> "ACTIVE", turns |-> <<>>]

Kinds == {"interact", "voice", "interrupt", "end"}

\* Only a turn carries an id.
TurnsOf(kind) == IF kind \in {"interact", "voice"} THEN Turns ELSE {"none"}

Idle == [pc |-> "idle"]

Init ==
    /\ session = NoSession
    /\ keys = {}
    /\ req = [r \in Requests |-> Idle]
    /\ made = <<>>
    /\ ended = FALSE
    /\ overlapped = FALSE
    /\ excused = {}

Goto(r, pc) == req' = [req EXCEPT ![r].pc = pc]

Respond(r) == req' = [req EXCEPT ![r] = Idle]

InFlight(r) == req[r].pc # "idle"

\* The id of the session is new; its owner is answered even if Redis failed.
CreateSession ==
    /\ session = NoSession
    /\ ~\E r \in Requests : InFlight(r)
    /\ made = <<>> /\ ~ended
    /\ session' = [NoSession EXCEPT !.exists = TRUE]
    /\ UNCHANGED <<keys, req, made, ended, overlapped, excused>>

Begin(r) ==
    /\ ~InFlight(r)
    /\ \E kind \in Kinds : \E t \in TurnsOf(kind) :
         req' = [req EXCEPT ![r] =
           [pc |-> IF kind = "voice" THEN "transcript" ELSE "session",
            kind |-> kind, turn |-> t, read |-> NoSession]]
    /\ UNCHANGED <<session, keys, made, ended, overlapped, excused>>

\* The transcript comes from the cache or from the speech provider, or the
\* request fails; with it a voice turn is an ordinary turn.
GetOrCreateTranscript(r) ==
    /\ req[r].pc = "transcript"
    /\ \/ Respond(r)
       \/ req' = [req EXCEPT ![r].pc = "session", ![r].kind = "interact"]
    /\ UNCHANGED <<session, keys, made, ended, overlapped, excused>>

\* Variant: a completed session takes interactions and interrupts.
Closed_Never(kind) == FALSE

\* 409 for all but a second end of the session.
Closed(kind) == session.state = "COMPLETED" /\ kind # "end"

\* 404 when the session is not there, has expired or Redis does not answer.
RequireSession(r) ==
    /\ req[r].pc = "session"
    /\ \/ Respond(r)
       \/ /\ session.exists
          /\ IF Closed(req[r].kind)
             THEN Respond(r)
             ELSE req' = [req EXCEPT
                    ![r].pc   = IF req[r].kind = "interact" THEN "key" ELSE "write",
                    ![r].read = session]
    /\ UNCHANGED <<session, keys, made, ended, overlapped, excused>>

SameTurnInFlight(r) ==
    \E q \in Requests \ {r} :
        InFlight(q) /\ req[q].turn = req[r].turn /\ req[q].kind \in {"interact", "voice"}

\* A stored answer is given again; Redis may fail to find it.
LookUpKey(r) ==
    /\ req[r].pc = "key"
    /\ \/ /\ req[r].turn \in keys
          /\ Respond(r)
          /\ UNCHANGED excused
       \/ /\ Goto(r, "model")
          /\ excused' = IF req[r].turn \in keys \/ SameTurnInFlight(r)
                        THEN excused \cup {req[r].turn} ELSE excused
    /\ UNCHANGED <<session, keys, made, ended, overlapped>>

\* The language model, then the voice: the failure of either ends the
\* request and stores nothing.
BuildTutorResponse(r) ==
    /\ req[r].pc = "model"
    /\ Respond(r) \/ Goto(r, "write")
    /\ UNCHANGED <<session, keys, made, ended, overlapped, excused>>

\* Variant: all turns are kept.
LastTurns_All(turns) == turns

LastTurns(turns) ==
    IF Len(turns) > TurnsLimit
    THEN SubSeq(turns, Len(turns) - TurnsLimit + 1, Len(turns))
    ELSE turns

\* What a request makes of the session it has read.
Changed(r) ==
    CASE req[r].kind = "interact" ->
           [req[r].read EXCEPT !.state = "ACTIVE", !.turns = LastTurns(Append(@, req[r].turn))]
      [] req[r].kind = "interrupt" -> [req[r].read EXCEPT !.state = "LISTENING"]
      [] req[r].kind = "end" -> [req[r].read EXCEPT !.state = "COMPLETED"]

\* Redis has taken the session, or has failed unnoticed.
WriteSession(r) ==
    /\ req[r].pc = "write"
    /\ IF req[r].kind = "interact" THEN Goto(r, "store") ELSE Respond(r)
    /\ \/ UNCHANGED <<session, made, ended, overlapped>>
       \/ /\ Len(made) < MaxTurns
          /\ session' = Changed(r)
          /\ made' = IF req[r].kind = "interact" THEN Append(made, req[r].turn) ELSE made
          /\ ended' = (ended \/ req[r].kind = "end")
          /\ overlapped' = (overlapped \/ session # req[r].read)
    /\ UNCHANGED <<keys, excused>>

KeysWith(t) == keys \cup {t}

StoreKey(r) ==
    /\ req[r].pc = "store"
    /\ \/ keys' = KeysWith(req[r].turn) /\ UNCHANGED excused
       \/ excused' = excused \cup {req[r].turn} /\ UNCHANGED keys
    /\ Respond(r)
    /\ UNCHANGED <<session, made, ended, overlapped>>

\* The service restarts in the middle of a request.
Crash(r) ==
    /\ InFlight(r)
    /\ Respond(r)
    /\ excused' = IF req[r].pc = "store" THEN excused \cup {req[r].turn} ELSE excused
    /\ UNCHANGED <<session, keys, made, ended, overlapped>>

\* Ten minutes after the turn.
ExpireKey(t) ==
    /\ t \in keys
    /\ keys' = keys \ {t}
    /\ excused' = excused \cup {t}
    /\ UNCHANGED <<session, req, made, ended, overlapped>>

\* A day after the last write; a request under way writes it back.
ExpireSession ==
    /\ session.exists
    /\ session' = NoSession
    /\ UNCHANGED <<keys, req, made, ended, overlapped, excused>>

Next ==
    \/ CreateSession
    \/ ExpireSession
    \/ \E t \in Turns : ExpireKey(t)
    \/ \E r \in Requests :
         \/ Begin(r) \/ GetOrCreateTranscript(r) \/ RequireSession(r) \/ LookUpKey(r)
         \/ BuildTutorResponse(r) \/ WriteSession(r) \/ StoreKey(r) \/ Crash(r)

Spec == Init /\ [][Next]_vars

-----------------------------------------------------------------------------
(* Properties.                                                             *)

\* The variables keep their types.
TypeOK ==
    /\ session \in [exists : BOOLEAN, state : States, turns : BoundedSeq(Turns, TurnsLimit)]
    /\ keys \subseteq Turns
    /\ \A r \in Requests :
         req[r] # Idle =>
           /\ req[r].pc \in {"transcript", "session", "key", "model", "write", "store"}
           /\ req[r].kind \in Kinds
           /\ req[r].turn \in TurnsOf(req[r].kind)
    /\ made \in BoundedSeq(Turns, MaxTurns)
    /\ ended \in BOOLEAN
    /\ overlapped \in BOOLEAN
    /\ excused \subseteq Turns

\* A session that was ended is never alive again.
EndedStaysEnded == (ended /\ session.exists) => session.state = "COMPLETED"

\* The session holds the last turns that were made, in their order.
LastTurnsKept == session.exists => session.turns = LastTurns(made)

\* What requests did to the session is only ever lost to a request that had
\* read it before and wrote it back later.
KeptUnlessOverlapped == ~overlapped => EndedStaysEnded /\ LastTurnsKept

Occurrences(t) == {i \in DOMAIN made : made[i] = t}

\* A client turn id sent again makes no second turn, unless the first answer
\* was still under way, its key was lost or ten minutes had passed.
RetryMakesNoTurn ==
    \A t \in Turns \ excused : \A i, j \in Occurrences(t) : i = j

\* Turns are kept and made once, apart from overlaps and lost keys.
TurnsAreKept == KeptUnlessOverlapped /\ RetryMakesNoTurn
=============================================================================
