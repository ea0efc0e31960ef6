--------------------------- MODULE ProviderCalls ----------------------------
(* The providers behind one spoken turn (generative service): speech to    *)
(* text, the language model and text to speech, with their retries.        *)
(*                                                                         *)
(* SttService asks once.  OllamaService and TtsService ask up to three     *)
(* times, but not again after an error that will not go away.  A tutor     *)
(* turn needs all three; a role play answers without a voice, which the    *)
(* client may decline (skipTts), and takes any text the model returns.     *)
EXTENDS Naturals

CONSTANT Callers    \* turns in progress at a time

VARIABLES
    hasKey,    \* ELEVENLABS_API_KEY is configured
    turn       \* turn[c]: kind, place, attempts and last outcome per provider

vars == <<hasKey, turn>>

Providers == {"stt", "llm", "tts"}

Retries == 3

\* Errors of the model by classifyOllamaError, and of the voice by status; an
\* answer of the voice that breaks off is not asked for again either.
Permanent == {"auth", "noModel", "refused"}

Temporary == {"connection", "limited", "timeout", "other"}

Outcomes == {"ok", "notJson", "none"} \cup Permanent \cup Temporary

NoTurn == [pc |-> "idle", kind |-> "tutor", skip |-> FALSE, result |-> "none",
           attempts |-> [p \in Providers |-> 0], last |-> [p \in Providers |-> "none"]]

Init ==
    /\ hasKey \in BOOLEAN
    /\ turn = [c \in Callers |-> NoTurn]

Begin(c) ==
    /\ turn[c].pc = "idle"
    /\ \E kind \in {"tutor", "roleplay"}, skip \in BOOLEAN, first \in {"stt", "llm"} :
         /\ skip => kind = "roleplay"
         /\ turn' = [turn EXCEPT ![c] =
                       [NoTurn EXCEPT !.kind = kind, !.skip = skip, !.pc = first]]
    /\ UNCHANGED hasKey

Ended(t, result) == [t EXCEPT !.pc = "ended", !.result = result]

Attempted(t, p, outcome) ==
    [t EXCEPT !.attempts[p] = @ + 1, !.last[p] = outcome]

\* No key, audio that cannot be fetched, an error or an empty transcript.
Transcribe(c) ==
    /\ turn[c].pc = "stt"
    /\ IF ~hasKey
       THEN turn' = [turn EXCEPT ![c] = Ended(@, "failed")]
       ELSE \E outcome \in {"ok"} \cup Temporary :
              turn' = [turn EXCEPT ![c] =
                IF outcome = "ok" THEN [Attempted(@, "stt", outcome) EXCEPT !.pc = "llm"]
                ELSE Ended(Attempted(@, "stt", outcome), "failed")]
    /\ UNCHANGED hasKey

\* Variant: the kind of the error is not looked at.
Again_Always(t, p, outcome) == outcome # "ok" /\ t.attempts[p] + 1 < Retries

\* After a pause that doubles each time.
Again(t, p, outcome) == outcome \in Temporary /\ t.attempts[p] + 1 < Retries

\* A tutor turn needs the model's JSON, a role play takes any text.
Usable(kind, outcome) ==
    outcome = "ok" \/ (outcome = "notJson" /\ kind = "roleplay")

\* chat and generate: the answer itself is looked at once the loop is over.
AskModel(c) ==
    /\ turn[c].pc = "llm"
    /\ \E outcome \in {"ok", "notJson", "auth", "noModel"} \cup Temporary :
         LET t == turn[c]
             next == Attempted(t, "llm", outcome) IN
         turn' = [turn EXCEPT ![c] =
           CASE Usable(t.kind, outcome) -> [next EXCEPT !.pc = "tts"]
             [] ~Usable(t.kind, outcome) /\ Again(t, "llm", outcome) -> next
             [] OTHER -> Ended(next, "failed")]
    /\ UNCHANGED hasKey

\* A failed voice fails the tutor's turn; a role play only logs it.
WithoutVoice(kind) == IF kind = "tutor" THEN "failed" ELSE "silent"

\* No voice is asked for.
Voiceless(t) == t.skip \/ ~hasKey

Synthesize(c) ==
    /\ turn[c].pc = "tts"
    /\ IF Voiceless(turn[c])
       THEN turn' = [turn EXCEPT ![c] = Ended(@, "silent")]
       ELSE \E outcome \in {"ok", "refused", "connection", "limited"} :
              LET t == turn[c]
                  next == Attempted(t, "tts", outcome) IN
              turn' = [turn EXCEPT ![c] =
                CASE outcome = "ok" -> Ended(next, "spoken")
                  [] outcome # "ok" /\ Again(t, "tts", outcome) -> next
                  [] OTHER -> Ended(next, WithoutVoice(t.kind))]
    /\ UNCHANGED hasKey

\* The user goes on to the next turn.
Close(c) ==
    /\ turn[c].pc = "ended"
    /\ turn' = [turn EXCEPT ![c] = NoTurn]
    /\ UNCHANGED hasKey

Next ==
    \E c \in Callers :
        Begin(c) \/ Transcribe(c) \/ AskModel(c) \/ Synthesize(c) \/ Close(c)

Spec == Init /\ [][Next]_vars

-----------------------------------------------------------------------------
(* Properties.                                                             *)

\* The variables keep their types.
TypeOK ==
    /\ hasKey \in BOOLEAN
    /\ turn \in [Callers ->
         [pc : {"idle", "ended"} \cup Providers, kind : {"tutor", "roleplay"},
          skip : BOOLEAN, result : {"none", "failed", "silent", "spoken"},
          attempts : [Providers -> 0..Retries], last : [Providers -> Outcomes]]]

\* What a turn needs: the transcript, if it began with a recording, a usable
\* answer, and for the tutor the voice, if there is a key for one.
Served(t) ==
    /\ t.last["stt"] \in {"ok", "none"}
    /\ Usable(t.kind, t.last["llm"])
    /\ t.kind = "tutor" => ~hasKey \/ t.last["tts"] = "ok"

\* A provider is paid at most three times a turn, never again after an error
\* that stays, never for a turn an earlier provider has failed and never for a
\* voice the client declined.  A turn fails exactly if something it needs did,
\* and is silent only without a key, declined or after a role play's voice
\* failed.
TurnsAreJustified ==
    \A c \in Callers : LET t == turn[c] IN
        /\ t.attempts["tts"] > 0 => ~t.skip /\ Usable(t.kind, t.last["llm"])
        /\ t.attempts["llm"] > 0 => t.last["stt"] \in {"ok", "none"}
        /\ \A p \in Providers :
             t.last[p] \in Permanent => t.pc = "ended" /\ t.result \in {"failed", "silent"}
        /\ t.pc = "ended" => (t.result = "failed" <=> ~Served(t))
        /\ t.result = "spoken" => t.last["tts"] = "ok"
        /\ t.result = "silent" =>
             \/ ~hasKey \/ t.skip
             \/ t.kind = "roleplay" /\ t.last["tts"] \notin {"ok", "none"}
=============================================================================
