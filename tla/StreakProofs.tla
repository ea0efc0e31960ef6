---------------------------- MODULE StreakProofs ----------------------------
(* The length of a streak, for any number of overlapping calls and days.   *)
EXTENDS Streak, Integers, FiniteSetTheorems, WellFoundedInduction, TLAPS

(***************************************************************************)
(* A finite set of numbers has a maximum: of the intervals from a member   *)
(* up to the bound, the smallest one begins with it.                       *)
(***************************************************************************)

LEMMA MaxOfBounded ==
    ASSUME NEW d \in Nat, NEW X, X \subseteq 0..d, X # {}
    PROVE  Max(X) \in X /\ \A y \in X : y <= Max(X)
<1> DEFINE T == {x..d : x \in X}
           R == StrictSubsetOrdering(0..d)
<1>1. IsWellFoundedOn(R, SUBSET (0..d))
  <2>1. IsFiniteSet(0..d)
    BY FS_Interval
  <2> QED
    BY <2>1, FS_FiniteSubsetsOfFinite, FS_StrictSubsetOrderingWellFounded
<1>2. T \subseteq SUBSET (0..d) /\ T # {}
  <2>1. \A x \in X : x..d \in SUBSET (0..d)
    OBVIOUS
  <2>2. PICK x \in X : TRUE
    OBVIOUS
  <2>3. x..d \in T
    OBVIOUS
  <2> QED
    BY <2>1, <2>3
<1>3. PICK I \in T : \A J \in T : ~(<<J, I>> \in R)
  <2> HIDE DEF T, R
  <2> QED
    BY <1>1, <1>2, WFMin
<1>4. PICK x \in X : I = x..d
  OBVIOUS
<1>5. ASSUME NEW y \in X, y > x PROVE FALSE
  <2>1. (y..d) \subseteq (x..d) /\ (y..d) # (x..d)
    BY <1>5
  <2>2. <<y..d, I>> \in R
    BY <1>2, <1>4, <2>1 DEF StrictSubsetOrdering
  <2> QED
    BY <1>3, <2>2
<1>6. \A y \in X : x >= y
  BY <1>5
<1> QED
  BY <1>6 DEF Max

LEMMA MaxOfTwo ==
    ASSUME NEW m \in Nat, NEW n \in Nat
    PROVE  Max({m, n}) = IF m >= n THEN m ELSE n
<1> DEFINE x == IF m >= n THEN m ELSE n
<1>1. x \in {m, n} /\ \A y \in {m, n} : x >= y
  OBVIOUS
<1>2. \A z \in {m, n} : (\A y \in {m, n} : z >= y) => z = x
  OBVIOUS
<1> QED
  BY <1>1, <1>2 DEF Max

\* A run that ends with day d is at least as long as any of its ends.
LEMMA RunCovers ==
    ASSUME NEW S, NEW d \in Nat, NEW n \in 0..d, ((d - n) + 1)..d \subseteq S
    PROVE  n <= Run(S, d)
<1> DEFINE X == {m \in 0..d : ((d - m) + 1)..d \subseteq S}
<1>1. n \in X /\ X \subseteq 0..d
  OBVIOUS
<1> HIDE DEF X
<1>2. n <= Max(X)
  BY <1>1, MaxOfBounded
<1> QED
  BY <1>2 DEF Run, X

-----------------------------------------------------------------------------
(***************************************************************************)
(* The inductive invariant.  Every row that is stored, or was read by a    *)
(* call, counts recorded days that end with its last one: recorded days    *)
(* are never taken back, so a row read long ago still does.                *)
(***************************************************************************)

Covered(row) ==
    /\ row.current <= row.last /\ row.current <= row.longest
    /\ ((row.last - row.current) + 1)..row.last \subseteq recorded

StreakInv ==
    /\ TypeOK /\ day >= 1
    /\ Covered(streak)
    /\ \A c \in Calls : Covered(call[c].read) /\ (call[c].pc # "idle" => call[c].today >= 1)

LEMMA NoStreakCovered == NoStreak \in Streak /\ Covered(NoStreak)
<1>1. 1..0 = {}
  OBVIOUS
<1> QED
  BY <1>1 DEF NoStreak, Streak, Covered

LEMMA IdleTyped == Idle \in Call /\ Covered(Idle.read) /\ Idle.pc = "idle"
BY NoStreakCovered DEF Idle, Call

LEMMA StillCovered ==
    ASSUME NEW row, Covered(row), recorded \subseteq recorded'
    PROVE  Covered(row)'
BY DEF Covered

LEMMA StreakInit == Init => StreakInv
<1> SUFFICES ASSUME Init PROVE StreakInv
  OBVIOUS
<1>1. TypeOK /\ day >= 1
  <2>1. streak \in Streak
    BY NoStreakCovered DEF Init
  <2>2. call \in [Calls -> Call]
    BY IdleTyped DEF Init
  <2>3. day \in Nat /\ day >= 1 /\ recorded \subseteq Nat
    BY DEF Init
  <2>4. raced \in BOOLEAN
    BY DEF Init
  <2> QED
    BY <2>1, <2>2, <2>3, <2>4 DEF TypeOK
<1>2. Covered(streak)
  BY NoStreakCovered DEF Init
<1>3. ASSUME NEW c \in Calls
      PROVE  Covered(call[c].read) /\ (call[c].pc # "idle" => call[c].today >= 1)
  <2>1. call[c] = Idle
    BY DEF Init
  <2>2. Covered(call[c].read)
    BY <2>1, IdleTyped
  <2> QED
    BY <2>1, <2>2, IdleTyped
<1> QED
  BY <1>1, <1>2, <1>3 DEF StreakInv

\* The step of one call: what it leaves in its record and in the row.
LEMMA CallStep ==
    ASSUME StreakInv, NEW c \in Calls, NEW s \in Call, call' = [call EXCEPT ![c] = s],
           day' = day, streak' \in Streak, raced' \in BOOLEAN,
           recorded' \subseteq Nat, recorded \subseteq recorded',
           Covered(s.read), s.pc # "idle" => s.today >= 1, Covered(streak)'
    PROVE  StreakInv'
<1>1. call \in [Calls -> Call] /\ day \in Nat /\ day >= 1
  BY DEF StreakInv, TypeOK
<1>2. TypeOK'
  BY <1>1 DEF TypeOK
<1>3. ASSUME NEW q \in Calls
      PROVE  Covered(call[q].read)' /\ (call'[q].pc # "idle" => call'[q].today >= 1)
  <2>1. call'[q] = IF q = c THEN s ELSE call[q]
    BY <1>1
  <2>2. Covered(call[q].read) /\ (call[q].pc # "idle" => call[q].today >= 1)
    BY DEF StreakInv
  <2>3. Covered(call'[q].read)
    BY <2>1, <2>2
  <2>4. Covered(call[q].read)'
    BY <2>3 DEF Covered
  <2> QED
    BY <2>1, <2>2, <2>4
<1> QED
  BY <1>1, <1>2, <1>3 DEF StreakInv

LEMMA EnterStep ==
    ASSUME StreakInv, NEW c \in Calls, Enter(c)
    PROVE  StreakInv'
<1> DEFINE s == [Idle EXCEPT !.pc = "reading", !.today = day]
<1>1. /\ TypeOK /\ day >= 1 /\ Covered(streak)
      /\ call' = [call EXCEPT ![c] = s] /\ UNCHANGED <<streak, day, recorded, raced>>
  BY DEF StreakInv, Enter
<1>2. s \in Call /\ s.read = NoStreak /\ s.today = day
  BY <1>1, NoStreakCovered DEF TypeOK, Idle, Call
<1>3. Covered(streak)'
  BY <1>1 DEF Covered
<1> HIDE DEF s
<1> QED
  BY <1>1, <1>2, <1>3, NoStreakCovered, CallStep DEF TypeOK

LEMMA ReadStep ==
    ASSUME StreakInv, NEW c \in Calls, Read(c)
    PROVE  StreakInv'
<1>1. /\ TypeOK /\ Covered(streak) /\ call[c] \in Call /\ call[c].today >= 1
      /\ UNCHANGED <<streak, day, recorded, raced>>
  BY DEF StreakInv, Read, TypeOK
<1>2. PICK s \in Call : /\ call' = [call EXCEPT ![c] = s]
                        /\ \/ s = Idle
                           \/ s.read = streak /\ s.today = call[c].today
  <2> DEFINE u == [call[c] EXCEPT !.pc = IF streak.exists THEN "update" ELSE "create",
                                  !.read = streak]
  <2>1. u \in Call /\ u.read = streak /\ u.today = call[c].today
    BY <1>1 DEF TypeOK, Call
  <2>2. call' = [call EXCEPT ![c] = u] \/ call' = [call EXCEPT ![c] = Idle]
    BY DEF Read
  <2>3. Idle \in Call
    BY IdleTyped
  <2> HIDE DEF u
  <2>4. CASE call' = [call EXCEPT ![c] = u]
    BY <2>1, <2>4
  <2>5. CASE call' = [call EXCEPT ![c] = Idle]
    BY <2>3, <2>5
  <2> QED
    BY <2>2, <2>4, <2>5
<1>3. Covered(streak)' /\ Covered(s.read) /\ (s.pc # "idle" => s.today >= 1)
  BY <1>1, <1>2, IdleTyped DEF Covered
<1> QED
  BY <1>1, <1>2, <1>3, CallStep DEF TypeOK

LEMMA CreateStep ==
    ASSUME StreakInv, NEW c \in Calls, Create(c)
    PROVE  StreakInv'
<1>1. /\ TypeOK /\ Covered(streak) /\ call[c].today \in Nat /\ call[c].today >= 1
      /\ call' = [call EXCEPT ![c] = Idle] /\ UNCHANGED <<day, raced>>
  BY DEF StreakInv, Create, TypeOK, Call
<1>2. CASE UNCHANGED <<streak, recorded>>
  <2>1. Covered(streak)'
    BY <1>1, <1>2 DEF Covered
  <2> QED
    BY <1>1, <1>2, <2>1, IdleTyped, CallStep DEF TypeOK
<1>3. CASE /\ streak' = [exists |-> TRUE, current |-> 1, longest |-> 1, last |-> call[c].today]
           /\ recorded' = recorded \cup {call[c].today}
  <2>1. streak' \in Streak /\ recorded' \subseteq Nat
    BY <1>1, <1>3 DEF Streak, TypeOK
  <2>2. Covered(streak)'
    BY <1>1, <1>3 DEF Covered
  <2> QED
    BY <1>1, <1>3, <2>1, <2>2, IdleTyped, CallStep DEF TypeOK
<1> QED
  BY <1>2, <1>3 DEF Create

LEMMA UpdateStep ==
    ASSUME StreakInv, NEW c \in Calls, Update(c)
    PROVE  StreakInv'
<1> DEFINE row == call[c].read
           today == call[c].today
           n == NewStreak(row, today)
<1>1. /\ TypeOK /\ call[c] \in Call /\ today >= 1 /\ Covered(row)
      /\ call' = [call EXCEPT ![c] = Idle] /\ day' = day /\ raced' \in BOOLEAN
      /\ streak' = Advanced(row, today) /\ recorded' = recorded \cup {today}
  BY DEF StreakInv, Update, TypeOK
<1>2. /\ row \in Streak /\ today \in Nat /\ row.current \in Nat /\ row.longest \in Nat
      /\ row.last \in Nat /\ row.current <= row.last /\ row.current <= row.longest
      /\ ((row.last - row.current) + 1)..row.last \subseteq recorded
  BY <1>1 DEF Call, Streak, Covered
<1>3. n \in Nat /\ n <= today /\ ((today - n) + 1)..today \subseteq recorded \cup {today}
  <2>1. CASE row.last + 1 = today
    BY <1>2, <2>1 DEF NewStreak
  <2>2. CASE row.last + 1 # today
    BY <1>1, <1>2, <2>2 DEF NewStreak
  <2> QED
    BY <2>1, <2>2
<1>4. /\ streak'.exists = TRUE /\ streak'.current = n /\ streak'.last = today
      /\ streak'.longest = Max({row.longest, n})
  BY <1>1 DEF Advanced
<1> HIDE DEF n
<1>5. streak'.longest \in Nat /\ streak'.longest >= n
  BY <1>2, <1>3, <1>4, MaxOfTwo
<1>6. streak' \in Streak
  BY <1>1, <1>2, <1>3, <1>4, <1>5 DEF Advanced, Streak, n
<1>7. Covered(streak)'
  BY <1>1, <1>2, <1>3, <1>4, <1>5 DEF Covered
<1>8. recorded' \subseteq Nat /\ recorded \subseteq recorded'
  BY <1>1, <1>2 DEF TypeOK
<1> QED
  BY <1>1, <1>6, <1>7, <1>8, IdleTyped, CallStep

LEMMA StreakStep == StreakInv /\ [Next]_vars => StreakInv'
<1> SUFFICES ASSUME StreakInv, [Next]_vars PROVE StreakInv'
  OBVIOUS
<1>1. CASE UNCHANGED vars
  BY <1>1 DEF vars, StreakInv, TypeOK, Covered
<1>2. CASE Midnight
  BY <1>2 DEF Midnight, StreakInv, TypeOK, Covered
<1>3. ASSUME NEW c \in Calls, Lose(c) PROVE StreakInv'
  <2>1. Covered(streak)'
    BY <1>3 DEF Lose, StreakInv, Covered
  <2> QED
    BY <1>3, <2>1, IdleTyped, CallStep DEF Lose, StreakInv, TypeOK
<1> QED
  BY <1>1, <1>2, <1>3, EnterStep, ReadStep, CreateStep, UpdateStep DEF Next

-----------------------------------------------------------------------------
\* The row, the calls and the history keep their types.
THEOREM StreakTyped == Spec => []TypeOK
<1>1. StreakInv => TypeOK
  BY DEF StreakInv
<1> QED
  BY <1>1, StreakInit, StreakStep, PTL DEF Spec

LEMMA StreakIsClaimed == StreakInv => NeverTooLong
<1> SUFFICES ASSUME StreakInv PROVE NeverTooLong
  OBVIOUS
<1>1. streak.last \in Nat /\ streak.current \in Nat /\ Covered(streak)
  BY DEF StreakInv, TypeOK, Streak
<1>2. /\ streak.current \in 0..streak.last /\ streak.current <= streak.longest
      /\ ((streak.last - streak.current) + 1)..streak.last \subseteq recorded
  BY <1>1 DEF Covered
<1> QED
  BY <1>1, <1>2, RunCovers DEF NeverTooLong

\* A streak never says more days than were really recorded in a row, whatever
\* calls overlap each other and midnight.
THEOREM StreakEarned == Spec => []NeverTooLong
BY StreakInit, StreakStep, StreakIsClaimed, PTL DEF Spec

-----------------------------------------------------------------------------
(***************************************************************************)
(* Exactness.  Without a race the row's last day is the last one recorded, *)
(* the day before its streak is not recorded, and its longest streak is    *)
(* that of some recorded day.                                              *)
(***************************************************************************)

Exact ==
    /\ streak.last \in recorded /\ streak.last - streak.current \notin recorded
    /\ \A d \in recorded : d <= streak.last /\ Run(recorded, d) <= streak.longest
    /\ \E d \in recorded : Run(recorded, d) = streak.longest

ExactInv ==
    /\ StreakInv
    /\ ~streak.exists => recorded = {}
    /\ \A c \in Calls : call[c].pc = "update" =>
         call[c].read.exists /\ call[c].read.last # call[c].today
    /\ 0 \notin recorded
    /\ streak.exists /\ ~raced => Exact

LEMMA RunFacts ==
    ASSUME NEW S, NEW d \in Nat
    PROVE  Run(S, d) \in 0..d /\ ((d - Run(S, d)) + 1)..d \subseteq S
<1> DEFINE X == {m \in 0..d : ((d - m) + 1)..d \subseteq S}
<1>1. 0 \in X /\ X \subseteq 0..d
  <2>1. ((d - 0) + 1)..d = {}
    OBVIOUS
  <2> QED
    BY <2>1
<1> HIDE DEF X
<1>2. Max(X) \in X
  BY <1>1, MaxOfBounded
<1> QED
  BY <1>2 DEF Run, X

LEMMA RunIs ==
    ASSUME NEW S, NEW d \in Nat, NEW n \in 0..d, ((d - n) + 1)..d \subseteq S, d - n \notin S
    PROVE  Run(S, d) = n
<1>1. n <= Run(S, d) /\ Run(S, d) \in 0..d /\ ((d - Run(S, d)) + 1)..d \subseteq S
  BY RunCovers, RunFacts
<1>2. ASSUME Run(S, d) > n PROVE FALSE
  <2>1. d - n \in ((d - Run(S, d)) + 1)..d
    BY <1>1, <1>2
  <2> QED
    BY <1>1, <2>1
<1> QED
  BY <1>1, <1>2

\* A later day leaves the runs of the earlier ones alone.
LEMMA RunSame ==
    ASSUME NEW S, NEW d \in Nat, NEW t \in Nat, d < t
    PROVE  Run(S \cup {t}, d) = Run(S, d)
<1>1. \A m \in 0..d : ((d - m) + 1)..d \subseteq S \cup {t} <=> ((d - m) + 1)..d \subseteq S
  OBVIOUS
<1>2. {m \in 0..d : ((d - m) + 1)..d \subseteq S \cup {t}} = {m \in 0..d : ((d - m) + 1)..d \subseteq S}
  BY <1>1
<1> QED
  BY <1>2 DEF Run

LEMMA ExactIsClaimed == ExactInv => ExactUnlessRaced
<1> SUFFICES ASSUME ExactInv, streak.exists, ~raced
             PROVE  /\ streak.current = Run(recorded, streak.last)
                    /\ streak.longest = Max({Run(recorded, d) : d \in recorded})
  BY DEF ExactUnlessRaced
<1>1. /\ Exact /\ streak.last \in Nat /\ streak.current \in 0..streak.last
      /\ streak.longest \in Nat /\ recorded \subseteq Nat
      /\ ((streak.last - streak.current) + 1)..streak.last \subseteq recorded
  BY DEF ExactInv, StreakInv, TypeOK, Streak, Covered
<1>2. streak.current = Run(recorded, streak.last)
  BY <1>1, RunIs DEF Exact
<1> DEFINE R == {Run(recorded, d) : d \in recorded}
<1>3. streak.longest \in R /\ (\A y \in R : streak.longest >= y) /\ R \subseteq Nat
  BY <1>1, RunFacts DEF Exact
<1> HIDE DEF R
<1>4. streak.longest = Max(R)
  <2>1. \A x \in R : (\A y \in R : x >= y) => x = streak.longest
    BY <1>1, <1>3
  <2> QED
    BY <1>3, <2>1 DEF Max
<1> QED
  BY <1>2, <1>4 DEF R

LEMMA ExactInit == Init => ExactInv
<1> SUFFICES ASSUME Init PROVE ExactInv
  OBVIOUS
<1>1. recorded = {} /\ ~streak.exists
  BY DEF Init, NoStreak
<1>2. \A c \in Calls : call[c].pc # "update"
  BY DEF Init, Idle
<1> QED
  BY <1>1, <1>2, StreakInit DEF ExactInv

LEMMA ExactUpdate ==
    ASSUME ExactInv, NEW c \in Calls, Update(c), StreakInv'
    PROVE  ExactInv'
<1> DEFINE row == call[c].read
           today == call[c].today
           n == NewStreak(row, today)
<1>1. /\ call' = [call EXCEPT ![c] = Idle] /\ call[c].pc = "update"
      /\ streak' = Advanced(row, today) /\ recorded' = recorded \cup {today}
      /\ ~raced' => ~raced /\ streak = row /\ ~(streak.last > today)
  BY DEF Update
<1>2. /\ call \in [Calls -> Call] /\ call[c] \in Call /\ today \in Nat /\ today >= 1
      /\ recorded \subseteq Nat /\ streak \in Streak /\ 0 \notin recorded
      /\ row.exists /\ row.last # today
  BY <1>1 DEF ExactInv, StreakInv, TypeOK, Call
<1>3. /\ streak'.exists = TRUE /\ streak'.current = n /\ streak'.last = today
      /\ streak'.longest = Max({row.longest, n})
  BY <1>1 DEF Advanced
<1>4. /\ 0 \notin recorded'
      /\ \A q \in Calls : call'[q].pc = "update" =>
           call'[q].read.exists /\ call'[q].read.last # call'[q].today
  BY <1>1, <1>2 DEF ExactInv, Idle
<1>5. ASSUME ~raced' PROVE Exact'
  <2>1. /\ Exact /\ row = streak /\ row.last \in Nat /\ row.current \in Nat /\ row.longest \in Nat
        /\ row.last < today /\ row.current <= row.last
    BY <1>1, <1>2, <1>5 DEF ExactInv, StreakInv, Covered, Streak
  <2>2. /\ n \in 0..today /\ n >= 1 /\ ((today - n) + 1)..today \subseteq recorded'
    <3>1. n \in 0..today /\ n >= 1
      BY <1>2, <2>1 DEF NewStreak
    <3>2. Covered(streak)'
      BY DEF StreakInv
    <3> QED
      BY <1>3, <3>1, <3>2 DEF Covered
  <2>3. today - n \notin recorded'
    <3>1. today - n # today
      BY <1>2, <2>2
    <3>2. today - n \notin recorded
      BY <1>2, <2>1 DEF Exact, NewStreak
    <3> QED
      BY <1>1, <3>1, <3>2
  <2> HIDE DEF n
  <2>4. Run(recorded', today) = n
    BY <1>2, <2>2, <2>3, RunIs
  <2>5. \A d \in recorded : d < today /\ Run(recorded', d) = Run(recorded, d) /\ Run(recorded, d) \in Nat
    <3> SUFFICES ASSUME NEW d \in recorded
                 PROVE  /\ d < today /\ Run(recorded', d) = Run(recorded, d)
                        /\ Run(recorded, d) \in Nat
      OBVIOUS
    <3>1. d \in Nat /\ d < today
      BY <1>2, <2>1 DEF Exact
    <3>2. Run(recorded \cup {today}, d) = Run(recorded, d)
      BY <1>2, <3>1, RunSame
    <3>3. Run(recorded, d) \in 0..d
      BY <3>1, RunFacts
    <3> QED
      BY <1>1, <3>1, <3>2, <3>3
  <2>6. streak'.longest = IF row.longest >= n THEN row.longest ELSE n
    BY <1>3, <2>1, <2>2, MaxOfTwo
  <2>7. streak'.last \in recorded' /\ streak'.last - streak'.current \notin recorded'
    BY <1>1, <1>3, <2>3
  <2>8. ASSUME NEW d \in recorded' PROVE d <= streak'.last /\ Run(recorded', d) <= streak'.longest
    BY <1>1, <1>2, <1>3, <2>1, <2>2, <2>4, <2>5, <2>6, <2>8 DEF Exact
  <2>9. \E d \in recorded' : Run(recorded', d) = streak'.longest
    <3>1. CASE row.longest >= n
      BY <1>1, <2>1, <2>5, <2>6, <3>1 DEF Exact
    <3>2. CASE ~(row.longest >= n)
      BY <1>1, <2>4, <2>6, <3>2
    <3> QED
      BY <3>1, <3>2
  <2> QED
    BY <2>7, <2>8, <2>9 DEF Exact, Run
<1> QED
  BY <1>3, <1>4, <1>5 DEF ExactInv

LEMMA ExactCreate ==
    ASSUME ExactInv, NEW c \in Calls, Create(c), StreakInv'
    PROVE  ExactInv'
<1>1. /\ call' = [call EXCEPT ![c] = Idle] /\ UNCHANGED raced
      /\ call \in [Calls -> Call] /\ call[c].today \in Nat /\ call[c].today >= 1
  BY DEF Create, ExactInv, StreakInv, TypeOK, Call
<1>2. \A q \in Calls : call'[q].pc = "update" =>
        call'[q].read.exists /\ call'[q].read.last # call'[q].today
  BY <1>1 DEF ExactInv, Idle
<1>3. CASE UNCHANGED <<streak, recorded>>
  BY <1>1, <1>2, <1>3 DEF ExactInv, Exact
<1>4. CASE /\ ~streak.exists
           /\ streak' = [exists |-> TRUE, current |-> 1, longest |-> 1, last |-> call[c].today]
           /\ recorded' = recorded \cup {call[c].today}
  <2> DEFINE t == call[c].today
  <2>1. recorded' = {t} /\ t \in Nat /\ t >= 1
    BY <1>1, <1>4 DEF ExactInv
  <2>2. streak'.exists /\ streak'.last = t /\ streak'.current = 1 /\ streak'.longest = 1
    BY <1>4
  <2> HIDE DEF t
  <2>3. Run(recorded', t) = 1
    <3>1. 1 \in 0..t /\ ((t - 1) + 1)..t = {t} /\ t - 1 \notin {t}
      BY <2>1
    <3> QED
      BY <2>1, <3>1, RunIs
  <2>4. /\ streak'.last \in recorded' /\ streak'.last - streak'.current \notin recorded'
        /\ \A d \in recorded' : d <= streak'.last /\ Run(recorded', d) <= streak'.longest
        /\ \E d \in recorded' : Run(recorded', d) = streak'.longest
    BY <2>1, <2>2, <2>3
  <2>5. Exact'
    BY <2>4 DEF Exact, Run
  <2> QED
    BY <1>2, <2>1, <2>2, <2>5 DEF ExactInv
<1> QED
  BY <1>3, <1>4 DEF Create

LEMMA ExactStep == ExactInv /\ [Next]_vars => ExactInv'
<1> SUFFICES ASSUME ExactInv, [Next]_vars PROVE ExactInv'
  OBVIOUS
<1>1. StreakInv' /\ call \in [Calls -> Call]
  BY StreakStep DEF ExactInv, StreakInv, TypeOK
<1>2. ASSUME UNCHANGED <<streak, recorded, raced>>,
             \A c \in Calls : call'[c].pc = "update" =>
               call'[c].read.exists /\ call'[c].read.last # call'[c].today
      PROVE  ExactInv'
  BY <1>1, <1>2 DEF ExactInv, Exact
<1>3. CASE UNCHANGED vars \/ Midnight
  BY <1>2, <1>3 DEF vars, Midnight, ExactInv
<1>4. ASSUME NEW c \in Calls, Enter(c) \/ Lose(c) PROVE ExactInv'
  <2>1. /\ UNCHANGED <<streak, recorded, raced>>
        /\ \A q \in Calls \ {c} : call'[q] = call[q]
    BY <1>1, <1>4 DEF Enter, Lose
  <2>2. call'[c].pc # "update"
    <3>1. CASE Enter(c)
      BY <1>1, <3>1 DEF Enter, Idle
    <3>2. CASE Lose(c)
      BY <1>1, <3>2 DEF Lose, Idle
    <3> QED
      BY <1>4, <3>1, <3>2
  <2> QED
    BY <1>2, <2>1, <2>2 DEF ExactInv
<1>5. ASSUME NEW c \in Calls, Read(c) PROVE ExactInv'
  <2>1. /\ UNCHANGED <<streak, recorded, raced>> /\ call[c] \in Call
        /\ \A q \in Calls \ {c} : call'[q] = call[q]
    BY <1>1, <1>5 DEF Read
  <2>2. call'[c].pc = "update" => call'[c].read.exists /\ call'[c].read.last # call'[c].today
    BY <1>1, <1>5, <2>1 DEF Read, Idle, Call, AlreadyRecorded
  <2> QED
    BY <1>2, <2>1, <2>2 DEF ExactInv
<1> QED
  BY <1>1, <1>3, <1>4, <1>5, ExactCreate, ExactUpdate DEF Next

\* While no call overwrites what it has not read, the streak is the number of
\* days in a row up to the last one, and the longest is the longest there was.
THEOREM StreakExact == Spec => []ExactUnlessRaced
BY ExactInit, ExactStep, ExactIsClaimed, PTL DEF Spec
=============================================================================
