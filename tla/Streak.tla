------------------------------- MODULE Streak -------------------------------
(* The activity streak of one user (learn service, recordActivity).        *)
(*                                                                         *)
(* Completing a lesson, submitting a practice and saving a word each call  *)
(* recordActivity: one SELECT of the user_streak row, then one INSERT or   *)
(* UPDATE with values computed from it.  "Today" is taken before the       *)
(* SELECT, so a call may write after midnight what it computed before.     *)
EXTENDS Naturals, FiniteSets, FiniteSetsExt

CONSTANTS
    Calls,     \* calls of recordActivity in progress at a time
    MaxDay     \* bound: days that pass

ASSUME StreakAssumption == MaxDay \in Nat

VARIABLES
    streak,    \* the user_streak row
    day,       \* today
    call,      \* call[c]: where a call is, the day it took and the row it read
    recorded,  \* history: the days some call has recorded
    raced      \* history: a row was written that had changed since it was read,
               \* or by a call that had begun before the row's last day

vars == <<streak, day, call, recorded, raced>>

Streak == [exists : BOOLEAN, current : Nat, longest : Nat, last : Nat]

NoStreak == [exists |-> FALSE, current |-> 0, longest |-> 0, last |-> 0]

Call == [pc : {"idle", "reading", "create", "update"}, today : Nat, read : Streak]

Idle == [pc |-> "idle", today |-> 0, read |-> NoStreak]

Init ==
    /\ streak = NoStreak
    /\ day = 1
    /\ call = [c \in Calls |-> Idle]
    /\ recorded = {}
    /\ raced = FALSE

\* Variant: a streak that is a day old does not count as today's.
AlreadyRecorded_Never(row, today) == FALSE

AlreadyRecorded(row, today) == row.last = today

\* The call takes the time, then awaits the SELECT.
Enter(c) ==
    /\ call[c].pc = "idle"
    /\ call' = [call EXCEPT ![c] = [Idle EXCEPT !.pc = "reading", !.today = day]]
    /\ UNCHANGED <<streak, day, recorded, raced>>

Read(c) ==
    /\ call[c].pc = "reading"
    /\ call' = [call EXCEPT ![c] =
                  IF streak.exists /\ AlreadyRecorded(streak, call[c].today)
                  THEN Idle
                  ELSE [@ EXCEPT !.pc   = IF streak.exists THEN "update" ELSE "create",
                                 !.read = streak]]
    /\ UNCHANGED <<streak, day, recorded, raced>>

\* The first activity ever.  The user is the primary key: a second INSERT
\* fails, and the callers only log the failure.
Create(c) ==
    /\ call[c].pc = "create"
    /\ call' = [call EXCEPT ![c] = Idle]
    /\ IF streak.exists
       THEN UNCHANGED <<streak, recorded>>
       ELSE /\ streak' = [exists |-> TRUE, current |-> 1, longest |-> 1,
                          last |-> call[c].today]
            /\ recorded' = recorded \cup {call[c].today}
    /\ UNCHANGED <<day, raced>>

\* Variant: any earlier activity continues the streak.
NewStreak_NoGap(row, today) == row.current + 1

\* Yesterday's streak goes on, an older one starts again.
NewStreak(row, today) ==
    IF row.last + 1 = today THEN row.current + 1 ELSE 1

\* Variant: the day of the activity is not stored as a number.
Advanced_NoDay(row, today) ==
    [exists |-> TRUE, current |-> NewStreak(row, today), longest |-> row.longest]

Advanced(row, today) ==
    [exists  |-> TRUE,
     current |-> NewStreak(row, today),
     longest |-> Max({row.longest, NewStreak(row, today)}),
     last    |-> today]

Update(c) ==
    /\ call[c].pc = "update"
    /\ streak' = Advanced(call[c].read, call[c].today)
    /\ recorded' = recorded \cup {call[c].today}
    /\ raced' = (raced \/ streak # call[c].read \/ streak.last > call[c].today)
    /\ call' = [call EXCEPT ![c] = Idle]
    /\ UNCHANGED day

\* The statement fails or the service restarts; the callers go on without it.
Lose(c) ==
    /\ call[c].pc # "idle"
    /\ call' = [call EXCEPT ![c] = Idle]
    /\ UNCHANGED <<streak, day, recorded, raced>>

Midnight ==
    /\ day < MaxDay
    /\ day' = day + 1
    /\ UNCHANGED <<streak, call, recorded, raced>>

Next ==
    \/ Midnight
    \/ \E c \in Calls :
         Enter(c) \/ Read(c) \/ Create(c) \/ Update(c) \/ Lose(c)

Spec == Init /\ [][Next]_vars

-----------------------------------------------------------------------------
(* Properties.                                                             *)

TypeOK ==
    /\ streak \in Streak
    /\ day \in Nat
    /\ call \in [Calls -> Call]
    /\ recorded \subseteq Nat
    /\ raced \in BOOLEAN

\* The number of consecutive days of S that end with day d.
Run(S, d) == Max({n \in 0..d : ((d - n) + 1)..d \subseteq S})

\* A streak is never longer than the consecutive days really recorded, nor
\* than the longest streak, even when calls that overlap midnight overwrite
\* each other.
NeverTooLong ==
    /\ streak.current <= Run(recorded, streak.last)
    /\ streak.current <= streak.longest

\* Without such an overwrite it is exactly that long, and the longest streak
\* is the longest run there has been up to now.
ExactUnlessRaced ==
    (streak.exists /\ ~raced) =>
        /\ streak.current = Run(recorded, streak.last)
        /\ streak.longest = Max({Run(recorded, d) : d \in recorded})
=============================================================================
