---------------------------- MODULE AlertProofs -----------------------------
(***************************************************************************)
(* Theorems about what alerts a parent: ConnectionWatch, for all           *)
(* time-outs, thresholds and repeat times and any number of reads of the   *)
(* setting in flight, and CryAlert, for all levels, margins and hold       *)
(* times.                                                                  *)
(***************************************************************************)
EXTENDS ConnectionWatch, CryAlert, SequenceTheorems, TLAPS

\* What is shown is connected only if the connection is, and of a connection
\* that is nothing but an error frame makes the session show anything else.
ShownFollowsActual ==
  /\ connectionState = "connected" => actual = "connected"
  /\ actual = "connected" /\ ~erred => connectionState = "connected"

\* The attempt being timed is the outage.
AttemptIsOutage == ~erred /\ actual # "connected" => startedAge = outage

\* wasConnected is the alert that is still owed for this connection.
AlertIsOwed ==
  /\ everConnected => lostAlerts = IF wasConnected THEN 0 ELSE 1
  /\ ~everConnected => ~wasConnected /\ lostAlerts = 0
  /\ actual = "lost" => ~wasConnected

\* The repeat time is counted from the last beep heard, and a count that was
\* dropped was of a beep before this outage.
RepeatIsCounted ==
  /\ beepAge # Never => beepAge = playedAge
  /\ beepAge = Never /\ playedAge # Never /\ ~erred /\ actual # "connected" => playedAge >= outage

WatchInv ==
  /\ TypeOK
  /\ ShownFollowsActual
  /\ AttemptIsOutage
  /\ TimeoutMeasuresOutage
  /\ AlertIsOwed
  /\ RepeatIsCounted
  /\ BeepsAreDue

USE DEF WatchInv, State, Age, OddBeep

\* Ages stay in their range and in their order.
LEMMA OlderAge ==
  ASSUME NEW a \in Age, NEW b \in Age, a <= b
  PROVE  /\ Older(a) \in Age /\ a <= Older(a)
         /\ Older(a) <= Older(b)
         /\ Never \notin Age
BY WatchAssumption DEF Older

LEMMA WatchInit == Init => WatchInv
<1> SUFFICES ASSUME Init PROVE WatchInv
  OBVIOUS
<1>1. TypeOK
  <2>1. /\ startedAge \in Age /\ outage \in Age /\ reads \in 0..MaxReads /\ lostAlerts \in 0..2
        /\ beepAge = Never /\ playedAge = Never
    BY WatchAssumption DEF Init
  <2>2. connectionState \in State /\ actual \in State /\ oddBeeps \subseteq OddBeep
    BY DEF Init
  <2> QED
    BY <2>1, <2>2 DEF Init, TypeOK
<1>2. ShownFollowsActual /\ AttemptIsOutage /\ TimeoutMeasuresOutage /\ BeepsAreDue
  BY DEF Init, ShownFollowsActual, AttemptIsOutage, TimeoutMeasuresOutage, BeepsAreDue
<1>3. AlertIsOwed /\ RepeatIsCounted
  BY DEF Init, AlertIsOwed, RepeatIsCounted
<1> QED
  BY <1>1, <1>2, <1>3

LEMMA ReportKeeps ==
  ASSUME WatchInv, NEW state \in State, Report(state)
  PROVE  WatchInv'
<1> USE WatchAssumption DEF Report, beepVars
<1>1. CASE state = "connected"
  <2>1. lostAlerts' \in 0..2 /\ outage' \in Age
    BY <1>1
  <2>2. connectionState' \in State /\ actual' \in State
    BY <1>1 DEF Connected
  <2>3. TypeOK'
    BY <1>1, <2>1, <2>2 DEF Connected, TypeOK
  <2> QED
    BY <1>1, <2>3 DEF Connected, ShownFollowsActual, AttemptIsOutage, TimeoutMeasuresOutage,
                      AlertIsOwed, RepeatIsCounted, BeepsAreDue
<1>2. CASE state # "connected"
  <2> USE <1>2 DEF NotConnected, FiresLostAlert
  <2>1. ~erred => startedAge' = outage'
    BY DEF StartedAge, ShownFollowsActual, AttemptIsOutage
  <2>2. TypeOK'
    <3>1. startedAge' \in Age /\ outage' \in Age
      BY WatchAssumption DEF TypeOK, StartedAge
    <3>2. lostAlerts' \in 0..2
      BY DEF TypeOK
    <3>3. wasConnected' \in BOOLEAN
      BY DEF TypeOK
    <3>4. /\ connectionState' = state /\ actual' = state
          /\ UNCHANGED <<connectTimedOut, erred, everConnected, silenced>>
          /\ UNCHANGED <<beepAge, reads, playedAge, oddBeeps>>
      OBVIOUS
    <3> HIDE DEF Report, NotConnected, FiresLostAlert
    <3> QED
      BY <3>1, <3>2, <3>3, <3>4 DEF TypeOK
  <2>3. ShownFollowsActual' /\ AttemptIsOutage'
    BY <2>1 DEF ShownFollowsActual, AttemptIsOutage
  <2>4. TimeoutMeasuresOutage'
    BY DEF TimeoutMeasuresOutage, ShownFollowsActual
  <2>5. AlertIsOwed'
    <3>1. wasConnected \in BOOLEAN /\ everConnected \in BOOLEAN /\ lostAlerts \in 0..2
      BY DEF TypeOK
    <3>2. CASE FiresLostAlert(state)
      <4>1. everConnected /\ lostAlerts = 0
        BY <3>2 DEF AlertIsOwed
      <4>2. lostAlerts' = 1
        BY <3>2, <4>1
      <4>3. wasConnected' = FALSE
        BY <3>2
      <4>4. everConnected' = everConnected
        OBVIOUS
      <4> QED
        BY <4>1, <4>2, <4>3, <4>4 DEF AlertIsOwed
    <3>3. CASE ~FiresLostAlert(state)
      <4>1. lostAlerts' = lostAlerts /\ wasConnected' = wasConnected
        BY <3>1, <3>3
      <4>2. everConnected' = everConnected /\ (state = "lost" => ~wasConnected)
        BY <3>3
      <4> QED
        BY <3>1, <4>1, <4>2 DEF AlertIsOwed
    <3> QED
      BY <3>2, <3>3
  <2>6. RepeatIsCounted'
    BY WatchAssumption DEF RepeatIsCounted, TypeOK
  <2> QED
    BY <2>2, <2>3, <2>4, <2>5, <2>6 DEF BeepsAreDue
<1> QED
  BY <1>1, <1>2

LEMMA PollKeeps ==
  ASSUME WatchInv, NEW elapsed \in BOOLEAN, Poll(elapsed)
  PROVE  WatchInv'
<1> USE DEF Poll
<1>1. /\ startedAge \in Age /\ outage \in Age /\ Never \notin Age
      /\ Older(startedAge) \in Age /\ Older(outage) \in Age
      /\ startedAge <= Older(startedAge)
  BY OlderAge DEF TypeOK
<1>2. /\ Older(Never) = Never
      /\ playedAge # Never => /\ playedAge \in Age /\ Older(playedAge) \in Age
                              /\ playedAge >= outage => Older(playedAge) >= Older(outage)
  BY OlderAge DEF TypeOK, Older
<1>3. TypeOK'
  <2>1. playedAge' \in Age \cup {Never}
    BY <1>2 DEF TypeOK
  <2>2. beepAge' \in Age \cup {Never}
    BY <1>2, <2>1 DEF TypeOK, RepeatIsCounted
  <2>3. reads' \in 0..MaxReads
    BY WatchAssumption DEF TypeOK
  <2>4. connectTimedOut' \in BOOLEAN
    BY DEF TypeOK
  <2> QED
    BY <1>1, <2>1, <2>2, <2>3, <2>4 DEF TypeOK
<1>4. AttemptIsOutage'
  BY DEF AttemptIsOutage
<1>5. TimeoutMeasuresOutage'
  <2>1. CASE connectionState = "connected"
    BY <2>1 DEF TimeoutMeasuresOutage
  <2>2. CASE connectionState # "connected" /\ ~erred
    <3>1. actual # "connected" => startedAge' = outage' /\ outage' \in {outage, Older(outage)}
      BY <2>2 DEF AttemptIsOutage
    <3>2. outage <= Older(outage)
      BY <1>1, OlderAge
    <3>3. actual # "connected"
      BY <2>2 DEF ShownFollowsActual
    <3>4. connectTimedOut => outage > Timeout
      BY <2>2 DEF TimeoutMeasuresOutage
    <3>5. connectTimedOut' => connectTimedOut \/ startedAge' > Timeout
      BY <2>2
    <3>6. connectionState' # "connected"
      BY <2>2
    <3>7. connectTimedOut' => outage' > Timeout
      <4> HIDE DEF Poll
      <4> QED
        BY <1>1, <3>1, <3>2, <3>3, <3>4, <3>5, WatchAssumption
    <3> QED
      BY <3>6, <3>7 DEF TimeoutMeasuresOutage
  <2>3. CASE erred
    BY <2>3 DEF TimeoutMeasuresOutage
  <2> QED
    BY <2>1, <2>2, <2>3
<1>6. RepeatIsCounted'
  <2>1. CASE connectionState = "connected"
    BY <2>1 DEF RepeatIsCounted, ShownFollowsActual
  <2>2. CASE connectionState # "connected"
    BY <1>1, <1>2, <2>2, OlderAge DEF RepeatIsCounted, Older, TypeOK
  <2> QED
    BY <2>1, <2>2
<1> QED
  BY <1>3, <1>4, <1>5, <1>6 DEF ShownFollowsActual, AlertIsOwed, BeepsAreDue

LEMMA SettingReadKeeps ==
  ASSUME WatchInv, NEW enabled \in BOOLEAN, SettingRead(enabled)
  PROVE  WatchInv'
<1> USE DEF SettingRead, shownVars, historyVars
<1>1. reads' \in 0..MaxReads
  BY WatchAssumption DEF TypeOK
<1>2. CASE enabled /\ ShouldFireDisconnectBeep
  <2>1. Oddities = {}
    <3>1. CASE erred \/ actual = "connected"
      BY <3>1 DEF Oddities
    <3>2. CASE ~erred /\ actual # "connected"
      <4>1. outage \in Age /\ startedAge = outage /\ outage >= Threshold
        BY <1>2, <3>2 DEF AttemptIsOutage, ShouldFireDisconnectBeep, TypeOK
      <4>2. playedAge # Never => playedAge \in Age /\ (playedAge >= Repeat \/ playedAge >= outage)
        BY <1>2, <3>2 DEF RepeatIsCounted, ShouldFireDisconnectBeep, TypeOK
      <4> QED
        BY <4>1, <4>2, WatchAssumption DEF Oddities
    <3> QED
      BY <3>1, <3>2
  <2>2. beepAge' \in Age /\ playedAge' \in Age /\ oddBeeps' = oddBeeps
    BY <1>2, <2>1, WatchAssumption
  <2>3. TypeOK'
    BY <1>1, <2>2 DEF TypeOK
  <2> QED
    BY <1>2, <2>2, <2>3, WatchAssumption
    DEF ShownFollowsActual, AttemptIsOutage, TimeoutMeasuresOutage, AlertIsOwed,
        RepeatIsCounted, BeepsAreDue
<1>3. CASE ~(enabled /\ ShouldFireDisconnectBeep)
  BY <1>1, <1>3
  DEF TypeOK, ShownFollowsActual, AttemptIsOutage, TimeoutMeasuresOutage, AlertIsOwed,
      RepeatIsCounted, BeepsAreDue
<1> QED
  BY <1>2, <1>3

LEMMA WatchStep ==
  ASSUME WatchInv, [Next]_vars
  PROVE  WatchInv'
<1> USE DEF TypeOK, ShownFollowsActual, AttemptIsOutage, TimeoutMeasuresOutage, AlertIsOwed,
            RepeatIsCounted, BeepsAreDue
<1>1. CASE OnError
  BY <1>1 DEF OnError, beepVars
<1>2. ASSUME NEW yes \in BOOLEAN, Silence(yes)
      PROVE  WatchInv'
  BY <1>2 DEF Silence, shownVars, historyVars, beepVars
<1>3. CASE UNCHANGED vars
  BY <1>3 DEF vars, shownVars, historyVars, beepVars
<1> QED
  BY <1>1, <1>2, <1>3, ReportKeeps, PollKeeps, SettingReadKeeps DEF Next

\* All parts of the invariant of the watch always hold.
THEOREM WatchInvariant == Spec => []WatchInv
BY WatchInit, WatchStep, PTL DEF Spec

\* The state of the connection watch keeps its types.
THEOREM WatchTypeOK == Spec => []TypeOK
BY WatchInvariant, PTL

\* "No response" is shown only of an outage as long as CONNECT_TIMEOUT_MS, but
\* for error frames.
THEOREM WatchTimeoutMeasuresOutage == Spec => []TimeoutMeasuresOutage
BY WatchInvariant, PTL

\* Every lost connection is alerted, and none twice.
THEOREM WatchLostAlertOnce == Spec => []LostAlertOnce
<1>1. WatchInv => LostAlertOnce
  BY DEF AlertIsOwed, LostAlertOnce
<1> QED
  BY <1>1, WatchInvariant, PTL

\* No disconnect beep sounds before its threshold or within its repeat time,
\* however long the reads of the setting take.
THEOREM WatchBeepsAreDue == Spec => []BeepsAreDue
BY WatchInvariant, PTL

-----------------------------------------------------------------------------
(* The noise gate of CryAlert, which the alerts of a session depend on too. *)

\* The streak is of an open gate and within the stationary range.
StreakOK ==
  stationary # None =>
    /\ stationary \in [min : Int, max : Int, age : 0..StationaryHold]
    /\ stationary.min <= stationary.max
    /\ stationary.max - stationary.min <= StationaryRange
    /\ openState

\* The floor of a gate that closed on a noise is not below the noise, which is
\* narrower than the margin: none of its levels is active.
BandOK ==
  band # None =>
    /\ ~openState
    /\ band.min \in Int /\ band.max \in Int
    /\ band.max - band.min <= StationaryRange
    /\ band.min <= floor

\* Each of the last activeAge readings was quiet or repeated the one before it.
HeardQuiet ==
  openState =>
    /\ activeAge \in 0..CloseHold
    /\ Len(heard) > activeAge
    /\ heard[Len(heard)] = levelDb
    /\ \A i \in (Len(heard) - activeAge + 1)..Len(heard) :
         heard[i] = heard[i - 1] \/ ~IsActive(heard[i])

\* The last age + 1 readings are those of the streak.
HeardSteady ==
  stationary # None =>
    /\ Len(heard) > stationary.age
    /\ \A i \in (Len(heard) - stationary.age)..Len(heard) :
         stationary.min <= heard[i] /\ heard[i] <= stationary.max

GateInv ==
  /\ floor \in Int
  /\ openState \in BOOLEAN
  /\ heard \in Seq(Nat)
  /\ StreakOK
  /\ BandOK
  /\ HeardQuiet
  /\ HeardSteady

LEMMA MinMaxOfTwo ==
  ASSUME NEW a \in Int, NEW b \in Int
  PROVE  /\ Min({a, b}) = IF a <= b THEN a ELSE b
         /\ Max({a, b}) = IF a <= b THEN b ELSE a
<1>1. CASE a <= b
  <2>1. /\ \A x \in {a, b} : (\A y \in {a, b} : x <= y) <=> x = a
        /\ \A x \in {a, b} : (\A y \in {a, b} : x >= y) <=> x = b
    BY <1>1
  <2> QED BY <1>1, <2>1 DEF Min, Max
<1>2. CASE ~(a <= b)
  <2>1. /\ \A x \in {a, b} : (\A y \in {a, b} : x <= y) <=> x = b
        /\ \A x \in {a, b} : (\A y \in {a, b} : x >= y) <=> x = a
    BY <1>2
  <2> QED BY <1>2, <2>1 DEF Min, Max
<1> QED BY <1>1, <1>2

\* A reading starts a streak of its own or extends the one there is.
LEMMA StreakExtends ==
  ASSUME StreakOK, NEW level \in Nat
  PROVE  LET streak == Streak(level)
         IN  /\ streak \in [min : Int, max : Int, age : 0..StationaryHold]
             /\ streak.min <= level /\ level <= streak.max
             /\ streak.max - streak.min <= StationaryRange
             /\ \/ streak.age = 0
                \/ /\ stationary # None
                   /\ streak.min <= stationary.min /\ stationary.max <= streak.max
                   /\ streak.age \in {stationary.age, stationary.age + 1}
                   /\ streak.age = stationary.age => streak.age = StationaryHold
<1> DEFINE wider == [min |-> Min({stationary.min, level}),
                     max |-> Max({stationary.max, level}),
                     age |-> Aged(stationary.age, StationaryHold)]
<1>1. CASE stationary = None \/ wider.max - wider.min > StationaryRange
  BY <1>1, CryAssumption DEF Streak
<1>2. CASE ~(stationary = None \/ wider.max - wider.min > StationaryRange)
  <2>1. Streak(level) = wider
    BY <1>2 DEF Streak
  <2>2. /\ stationary.min \in Int /\ stationary.max \in Int
        /\ stationary.age \in 0..StationaryHold /\ stationary.age # None
        /\ level \in Int
    BY <1>2, CryAssumption DEF StreakOK
  <2>3. /\ wider.min = IF stationary.min <= level THEN stationary.min ELSE level
        /\ wider.max = IF stationary.max <= level THEN level ELSE stationary.max
    BY <2>2, MinMaxOfTwo, Zenon
  <2>4. wider.age = IF stationary.age = StationaryHold THEN stationary.age
                                                       ELSE stationary.age + 1
    BY <2>2 DEF Aged
  <2>5. wider \in [min : Int, max : Int, age : 0..StationaryHold]
    <3>1. wider.min \in Int /\ wider.max \in Int /\ wider.age \in 0..StationaryHold
      BY <2>2, <2>3, <2>4, CryAssumption
    <3> QED BY <3>1
  <2> HIDE DEF wider
  <2> QED BY <1>2, <2>1, <2>2, <2>3, <2>4, <2>5, CryAssumption
<1> QED BY <1>1, <1>2

\* The history keeps the newest StationaryHold + 1 readings: the last ones stay
\* the last ones.
LEMMA RecentKeepsEnd ==
  ASSUME NEW s \in Seq(Nat), NEW level \in Nat
  PROVE  LET t == Recent(Append(s, level))
             d == Len(s) + 1 - Len(t)
         IN  /\ t \in Seq(Nat)
             /\ t[Len(t)] = level
             /\ d \in Nat
             /\ Len(t) > StationaryHold \/ d = 0
             /\ Len(t) <= StationaryHold + 1
             /\ \A i \in 1..(Len(t) - 1) : t[i] = s[i + d]
<1> DEFINE u == Append(s, level)
           n == Len(s) + 1
           m == IF n - StationaryHold <= 1 THEN 1 ELSE n - StationaryHold
<1>1. u \in Seq(Nat) /\ Len(u) = n /\ n \in Nat \ {0}
  OBVIOUS
<1>2. StationaryHold \in Nat
  BY CryAssumption
<1>3. Recent(u) = SubSeq(u, m, n) /\ m \in 1..n
  <2>1. 1 \in Int /\ n - StationaryHold \in Int
    BY <1>1, <1>2
  <2>2. Max({1, n - StationaryHold}) = IF 1 <= n - StationaryHold THEN n - StationaryHold ELSE 1
    BY <2>1, MinMaxOfTwo, Zenon
  <2>3. Max({1, n - StationaryHold}) = m
    BY <1>1, <1>2, <2>2
  <2>4. Recent(u) = SubSeq(u, m, n)
    BY <1>1, <2>3, Zenon DEF Recent
  <2> QED BY <1>1, <1>2, <2>4
<1>4. \A i \in m..n : u[i] \in Nat
  BY <1>1, <1>3
<1> HIDE DEF u
<1>5. /\ SubSeq(u, m, n) \in Seq(Nat)
      /\ Len(SubSeq(u, m, n)) = n - m + 1
      /\ \A i \in 1..(n - m + 1) : SubSeq(u, m, n)[i] = u[m + i - 1]
  <2>1. m \in 1..(n + 1) /\ n \in (m - 1)..Len(u) /\ m \in 1..(Len(u) + 1)
    BY <1>1, <1>3
  <2> HIDE DEF m, n
  <2> QED
    BY <1>1, <2>1, SubSeqProperties, SMTT(30)
<1>6. u[n] = level /\ \A i \in 1..(n - 1) : u[i] = s[i]
  BY DEF u
<1>7. Recent(u)[n - m + 1] = level
  BY <1>1, <1>3, <1>5, <1>6, CryAssumption
<1>8. ASSUME NEW i \in 1..(n - m) PROVE Recent(u)[i] = s[i + (m - 1)]
  <2>1. i \in 1..(n - m + 1) /\ i + (m - 1) \in 1..(n - 1) /\ m + i - 1 = i + (m - 1)
    BY <1>1, <1>3, CryAssumption
  <2>2. u[m + i - 1] = s[i + (m - 1)]
    BY <1>6, <2>1
  <2> QED BY <1>3, <1>5, <2>1, <2>2
<1>9. /\ Len(Recent(u)) = n - m + 1
      /\ Recent(u) \in Seq(Nat)
  BY <1>3, <1>5
<1> SUFFICES LET t == Recent(u)
                 d == n - Len(t)
             IN  /\ t \in Seq(Nat)
                 /\ t[Len(t)] = level
                 /\ d \in Nat
                 /\ Len(t) > StationaryHold \/ d = 0
                 /\ Len(t) <= StationaryHold + 1
                 /\ \A i \in 1..(Len(t) - 1) : t[i] = s[i + d]
  BY DEF u
<1> DEFINE r == Recent(u)
<1>10. /\ n - Len(r) = m - 1 /\ Len(r) - 1 = n - m /\ r[Len(r)] = level
       /\ Len(r) <= StationaryHold + 1
       /\ Len(r) > StationaryHold \/ m - 1 = 0
       /\ m - 1 \in Nat
  <2>1. Len(r) = n - m + 1
    BY <1>9
  <2>2. r[Len(r)] = level
    BY <1>7, <2>1
  <2>3. n \in Nat /\ m \in 1..n /\ (m = 1 \/ m = n - StationaryHold) /\ n - StationaryHold <= m
    BY <1>1, <1>2, <1>3
  <2> HIDE DEF r, m, n
  <2> QED BY <1>2, <2>1, <2>2, <2>3
<1>11. ASSUME NEW i \in 1..(Len(r) - 1) PROVE r[i] = s[i + (n - Len(r))]
  <2>1. i \in 1..(n - m) /\ i + (n - Len(r)) = i + (m - 1)
    BY <1>10
  <2> QED BY <1>8, <2>1
<1>12. r \in Seq(Nat)
  BY <1>9
<1> HIDE DEF m, n
<1> QED BY <1>10, <1>11, <1>12

\* The same about the history itself: reading i of the new one is reading j of
\* the old one.
LEMMA HeardKeepsEnd ==
  ASSUME heard \in Seq(Nat), NEW level \in Nat,
         heard' = Recent(Append(heard, level))
  PROVE  LET k == Len(heard')
             n == Len(heard)
         IN  /\ k \in 1..(n + 1) /\ n \in Nat
             /\ heard' \in Seq(Nat)
             /\ heard'[k] = level
             /\ k > StationaryHold \/ k = n + 1
             /\ \A i \in 1..(k - 1), j \in 1..n : j = i + (n + 1 - k) => heard'[i] = heard[j]
<1> DEFINE t == Recent(Append(heard, level))
           k == Len(t)
           n == Len(heard)
<1>1. /\ t \in Seq(Nat) /\ t[k] = level /\ n + 1 - k \in Nat
      /\ k > StationaryHold \/ n + 1 - k = 0
      /\ \A i \in 1..(k - 1) : t[i] = heard[i + (n + 1 - k)]
  BY RecentKeepsEnd
<1>2. n \in Nat /\ StationaryHold \in Nat
  BY CryAssumption
<1> HIDE DEF t
<1>3. k \in Nat
  BY <1>1
<1>4. k \in 1..(n + 1)
  BY <1>1, <1>2, <1>3
<1>5. k > StationaryHold \/ k = n + 1
  BY <1>1, <1>2, <1>3
<1> QED BY <1>1, <1>2, <1>4, <1>5 DEF t

\* A quiet or repeated reading lengthens the quiet end of the history.
LEMMA QuietGrows ==
  ASSUME GateInv, openState, NEW level \in Nat,
         level = levelDb \/ ~IsActive(level),
         heard' = Recent(Append(heard, level))
  PROVE  LET a == Aged(activeAge, CloseHold)
             k == Len(heard')
         IN  /\ a \in 0..CloseHold /\ k > a
             /\ activeAge = CloseHold \/ a = activeAge + 1
             /\ \A i \in (k - a + 1)..k : heard'[i] = heard'[i - 1] \/ ~IsActive(heard'[i])
<1> DEFINE a == Aged(activeAge, CloseHold)
           k == Len(heard')
           n == Len(heard)
<1>1. /\ activeAge \in 0..CloseHold /\ CloseHold \in Nat /\ CloseHold <= StationaryHold
      /\ StationaryHold \in Nat
      /\ n > activeAge /\ heard[n] = levelDb /\ heard \in Seq(Nat)
      /\ \A i \in (n - activeAge + 1)..n : heard[i] = heard[i - 1] \/ ~IsActive(heard[i])
  BY CryAssumption DEF GateInv, HeardQuiet
<1>2. /\ a \in 0..CloseHold /\ a <= activeAge + 1
      /\ activeAge = CloseHold \/ a = activeAge + 1
  BY <1>1, CryAssumption DEF Aged
<1>3. /\ k \in 1..(n + 1) /\ n \in Nat /\ heard'[k] = level
      /\ k > StationaryHold \/ k = n + 1
      /\ \A i \in 1..(k - 1), j \in 1..n : j = i + (n + 1 - k) => heard'[i] = heard[j]
  BY <1>1, HeardKeepsEnd
<1> HIDE DEF a, k, n
<1>4. k > a
  BY <1>1, <1>2, <1>3
<1>5. ASSUME NEW i \in (k - a + 1)..k
      PROVE  heard'[i] = heard'[i - 1] \/ ~IsActive(heard'[i])
  <2> DEFINE j == i + (n + 1 - k)
  <2>1. i \in 2..k /\ j \in Int
    BY <1>2, <1>3, <1>4
  <2>2. CASE i = k
    <3>1. k - 1 \in 1..(k - 1) /\ n \in 1..n /\ n = (k - 1) + (n + 1 - k)
      BY <1>1, <1>3, <2>1, <2>2
    <3>2. heard'[k - 1] = heard[n]
      BY <1>3, <3>1
    <3> QED BY <1>1, <1>3, <2>2, <3>2
  <2>3. CASE i < k
    <3>1. /\ i \in 1..(k - 1) /\ i - 1 \in 1..(k - 1)
          /\ j \in (n - activeAge + 1)..n /\ j \in 1..n /\ j - 1 \in 1..n
          /\ j - 1 = (i - 1) + (n + 1 - k)
      BY <1>1, <1>2, <1>3, <1>4, <2>1, <2>3
    <3> HIDE DEF j
    <3>2. heard'[i] = heard[j] /\ heard'[i - 1] = heard[j - 1]
      BY <1>3, <3>1 DEF j
    <3> QED BY <1>1, <3>1, <3>2
  <2> QED BY <1>3, <2>1, <2>2, <2>3
<1> QED BY <1>2, <1>4, <1>5 DEF a, k

\* A reading within lo..hi lengthens the part of the history within it.
LEMMA SteadyGrows ==
  ASSUME GateInv, NEW level \in Nat,
         NEW lo \in Int, NEW hi \in Int, NEW age \in 0..StationaryHold,
         lo <= level, level <= hi,
         \/ age = 0
         \/ /\ stationary # None
            /\ lo <= stationary.min /\ stationary.max <= hi
            /\ age \in {stationary.age, stationary.age + 1}
            /\ age = stationary.age => age = StationaryHold,
         heard' = Recent(Append(heard, level))
  PROVE  LET k == Len(heard')
         IN  k > age /\ \A i \in (k - age)..k : lo <= heard'[i] /\ heard'[i] <= hi
<1> DEFINE k == Len(heard')
           n == Len(heard)
<1>1. StationaryHold \in Nat /\ heard \in Seq(Nat)
  BY CryAssumption DEF GateInv
<1>2. stationary # None =>
        /\ stationary.min \in Int /\ stationary.max \in Int /\ stationary.age \in 0..StationaryHold
        /\ n > stationary.age
        /\ \A i \in (n - stationary.age)..n :
             stationary.min <= heard[i] /\ heard[i] <= stationary.max
  BY DEF GateInv, StreakOK, HeardSteady
<1>3. /\ k \in 1..(n + 1) /\ n \in Nat /\ heard'[k] = level
      /\ k > StationaryHold \/ k = n + 1
      /\ \A i \in 1..(k - 1), j \in 1..n : j = i + (n + 1 - k) => heard'[i] = heard[j]
      /\ \A j \in 1..n : heard[j] \in Nat
  BY <1>1, HeardKeepsEnd
<1> HIDE DEF k, n
<1>4. k > age
  <2>1. age \in Int /\ age <= StationaryHold /\ k \in Int /\ k >= 1
    BY <1>1, <1>3
  <2>2. age <= n
    BY <1>2, <1>3, <2>1
  <2> QED BY <1>1, <1>3, <2>1, <2>2
<1>5. ASSUME NEW i \in (k - age)..k
      PROVE  lo <= heard'[i] /\ heard'[i] <= hi
  <2>1. CASE i = k
    BY <1>1, <1>3, <2>1
  <2>2. CASE i < k
    <3> DEFINE j == i + (n + 1 - k)
    <3>1. /\ stationary # None /\ age > 0 /\ i \in Int
          /\ stationary.min \in Int /\ stationary.max \in Int
          /\ stationary.age \in 0..StationaryHold /\ n > stationary.age
          /\ lo <= stationary.min /\ stationary.max <= hi
          /\ age <= stationary.age + 1
      BY <1>1, <1>2, <1>3, <2>2
    <3>2. i \in 1..(k - 1) /\ j \in 1..n /\ j \in (n - stationary.age)..n
      BY <1>1, <1>3, <1>4, <2>2, <3>1
    <3> HIDE DEF j
    <3>3. heard'[i] = heard[j] /\ heard[j] \in Nat
      BY <1>3, <3>2 DEF j
    <3>4. stationary.min <= heard[j] /\ heard[j] <= stationary.max
      <4>1. \A q \in (n - stationary.age)..n : stationary.min <= heard[q] /\ heard[q] <= stationary.max
        BY <1>2, <3>1
      <4> QED BY <3>2, <4>1
    <3> HIDE DEF n, k
    <3> QED BY <3>1, <3>3, <3>4
  <2>3. i = k \/ i < k
    BY <1>1, <1>3
  <2> QED BY <2>1, <2>2, <2>3
<1> QED BY <1>4, <1>5 DEF k

\* The gate closes only after CloseHold of quiet or StationaryHold of a constant
\* sound.
ClosesWell ==
  openState /\ ~openState' => QuietFor(heard') \/ SteadyFor(heard')

LEMMA GateInit == CryInit => GateInv
<1> SUFFICES ASSUME CryInit PROVE GateInv
  OBVIOUS
<1>1. floor \in Int
  BY CryAssumption DEF CryInit
<1>2. openState = FALSE /\ stationary = None /\ band = None /\ heard = <<>>
  BY DEF CryInit
<1>3. openState \in BOOLEAN
  BY <1>2, Zenon
<1>4. heard \in Seq(Nat)
  BY <1>2
<1> QED BY <1>1, <1>2, <1>3, <1>4 DEF GateInv, StreakOK, BandOK, HeardQuiet, HeardSteady

\* A reading that the gate counts as active.
LEMMA PushActiveKeeps ==
  ASSUME GateInv, NEW level \in Level, PushActive(level),
         levelDb' = level,
         heard' = IF openState \/ openState' THEN Recent(Append(heard, level)) ELSE <<>>
  PROVE  GateInv' /\ ClosesWell
<1> DEFINE streak == Streak(level)
           steady == streak.age >= StationaryHold
           k == Len(heard')
<1>1. /\ level \in Nat /\ StationaryHold \in Nat \ {0} /\ CloseHold \in Nat
      /\ StationaryRange \in Nat /\ OpenMargin \in Nat /\ StationaryRange < OpenMargin
      /\ None \notin Int
  BY CryAssumption
<1>2. /\ streak \in [min : Int, max : Int, age : 0..StationaryHold]
      /\ streak.min \in Int /\ streak.max \in Int
      /\ streak.min <= level /\ level <= streak.max
      /\ streak.min <= streak.max
      /\ streak.max - streak.min <= StationaryRange
      /\ streak.age \in 0..StationaryHold
  <2>1. /\ streak \in [min : Int, max : Int, age : 0..StationaryHold]
        /\ streak.min <= level /\ level <= streak.max
        /\ streak.max - streak.min <= StationaryRange
    BY <1>1, StreakExtends DEF GateInv
  <2> HIDE DEF streak
  <2> QED BY <1>1, <2>1
<1>3. /\ level >= floor + OpenMargin
      /\ activeAge' = 0
      /\ openState' \in BOOLEAN /\ (openState' <=> ~steady)
      /\ stationary' = IF steady THEN None ELSE streak
      /\ floor' = IF steady THEN (streak.min + streak.max) \div 2 ELSE floor
      /\ band' = IF steady THEN streak ELSE IF InBand(level) THEN band ELSE None
  BY DEF PushActive, IsActive, SnappedFloor
<1>4. ~InBand(level)
  BY <1>1, <1>3 DEF InBand, GateInv, BandOK
<1>5. heard \in Seq(Nat) /\ floor \in Int
  BY DEF GateInv
<1>6. (openState \/ ~steady) =>
        /\ heard' \in Seq(Nat) /\ heard'[k] = level /\ k \in Nat \ {0}
        /\ k > streak.age
        /\ \A i \in (k - streak.age)..k : streak.min <= heard'[i] /\ heard'[i] <= streak.max
  <2> SUFFICES ASSUME openState \/ ~steady
               PROVE  /\ heard' \in Seq(Nat) /\ heard'[k] = level /\ k \in Nat \ {0}
                      /\ k > streak.age
                      /\ \A i \in (k - streak.age)..k :
                           streak.min <= heard'[i] /\ heard'[i] <= streak.max
    OBVIOUS
  <2>1. heard' = Recent(Append(heard, level))
    BY <1>3
  <2>2. heard' \in Seq(Nat) /\ heard'[k] = level /\ k \in Nat \ {0}
    BY <1>1, <1>5, <2>1, HeardKeepsEnd
  <2>3. \/ streak.age = 0
        \/ /\ stationary # None
           /\ streak.min <= stationary.min /\ stationary.max <= streak.max
           /\ streak.age \in {stationary.age, stationary.age + 1}
           /\ streak.age = stationary.age => streak.age = StationaryHold
    BY <1>1, StreakExtends DEF GateInv
  <2> DEFINE lo == streak.min
             hi == streak.max
             age == streak.age
  <2>4. lo \in Int /\ hi \in Int /\ age \in 0..StationaryHold /\ lo <= level /\ level <= hi
    BY <1>2
  <2> HIDE DEF lo, hi, age
  <2>5. \/ age = 0
        \/ /\ stationary # None
           /\ lo <= stationary.min /\ stationary.max <= hi
           /\ age \in {stationary.age, stationary.age + 1}
           /\ age = stationary.age => age = StationaryHold
    BY <2>3 DEF lo, hi, age
  <2>6. k > age /\ \A i \in (k - age)..k : lo <= heard'[i] /\ heard'[i] <= hi
    BY <1>1, <2>1, <2>4, <2>5, SteadyGrows
  <2> QED BY <2>2, <2>6 DEF lo, hi, age
<1>7. heard' \in Seq(Nat)
  BY <1>3, <1>6
<1> HIDE DEF streak, k
<1>8. floor' \in Int /\ openState' \in BOOLEAN /\ (steady => streak.min <= floor')
  BY <1>1, <1>2, <1>3, <1>5
<1>9. StreakOK' /\ HeardSteady'
  BY <1>2, <1>3, <1>6 DEF StreakOK, HeardSteady, k
<1>10. BandOK'
  BY <1>2, <1>3, <1>4, <1>8 DEF BandOK
<1>11. HeardQuiet'
  BY <1>1, <1>3, <1>6 DEF HeardQuiet, k
<1>12. ClosesWell
  <2> SUFFICES ASSUME openState, ~openState' PROVE SteadyFor(heard')
    BY DEF ClosesWell
  <2>1. streak.age = StationaryHold
    BY <1>1, <1>2, <1>3
  <2>2. k > StationaryHold /\ k = Len(heard')
        /\ \A i \in (k - StationaryHold)..k : streak.min <= heard'[i] /\ heard'[i] <= streak.max
    BY <1>6, <2>1 DEF k
  <2>3. k <= StationaryHold + 1
    <3>1. heard' = Recent(Append(heard, level))
      OBVIOUS
    <3> QED BY <1>1, <1>5, <3>1, RecentKeepsEnd DEF k
  <2>4. \A i \in 1..k : heard'[i] \in Nat /\ streak.min <= heard'[i] /\ heard'[i] <= streak.max
    BY <1>1, <1>7, <2>2, <2>3 DEF k
  <2> QED BY <1>1, <1>2, <2>2, <2>4 DEF SteadyFor
<1> QED BY <1>7, <1>8, <1>9, <1>10, <1>11, <1>12 DEF GateInv

\* A reading below the margin.
LEMMA PushQuietKeeps ==
  ASSUME GateInv, NEW level \in Level, PushQuiet(level),
         levelDb' = level,
         heard' = IF openState \/ openState' THEN Recent(Append(heard, level)) ELSE <<>>
  PROVE  GateInv' /\ ClosesWell
<1> DEFINE k == Len(heard')
<1>1. level \in Nat /\ CloseHold \in Nat /\ None \notin Int
  BY CryAssumption
<1>2. /\ ~IsActive(level)
      /\ activeAge' = Aged(activeAge, CloseHold)
      /\ openState' \in BOOLEAN /\ (openState' <=> openState /\ activeAge' < CloseHold)
      /\ stationary' = None
      /\ band' = IF InBand(level) THEN band ELSE None
  BY DEF PushQuiet, AfterDip
<1>3. /\ openState => floor' = floor
      /\ floor' = floor \/ \E f \in Min({floor, level})..Max({floor, level}) : floor' = f
  BY DEF PushQuiet
<1>4. heard \in Seq(Nat) /\ floor \in Int /\ openState \in BOOLEAN
  BY DEF GateInv
<1>5. floor' \in Int /\ (floor' >= floor \/ floor' >= level)
  <2>1. CASE floor' = floor
    BY <1>4, <2>1
  <2>2. CASE floor' # floor
    <3>1. floor \in Int /\ level \in Int
      BY <1>1, <1>4
    <3>2. Min({floor, level}) = IF floor <= level THEN floor ELSE level
      BY <3>1, MinMaxOfTwo, Zenon
    <3>3. Max({floor, level}) = IF floor <= level THEN level ELSE floor
      BY <3>1, MinMaxOfTwo, Zenon
    <3> QED BY <1>3, <2>2, <3>1, <3>2, <3>3
  <2> QED BY <2>1, <2>2
<1>6. openState => /\ heard' \in Seq(Nat) /\ heard'[k] = level
                   /\ activeAge' \in 0..CloseHold /\ k > activeAge'
                   /\ \A i \in (k - activeAge' + 1)..k :
                        heard'[i] = heard'[i - 1] \/ ~IsActive(heard'[i])
  BY <1>1, <1>2, <1>4, HeardKeepsEnd, QuietGrows
<1>7. heard' \in Seq(Nat) /\ openState' \in BOOLEAN
  BY <1>2, <1>4, <1>6
<1>8. StreakOK' /\ HeardSteady'
  BY <1>2 DEF StreakOK, HeardSteady
<1>9. BandOK'
  BY <1>1, <1>2, <1>4, <1>5 DEF BandOK, GateInv, InBand
<1>10. HeardQuiet'
  <2> SUFFICES ASSUME openState' PROVE HeardQuiet'
    BY DEF HeardQuiet
  <2>1. openState /\ floor' = floor
    BY <1>2, <1>3
  <2> QED BY <1>6, <2>1 DEF HeardQuiet, IsActive
<1>11. ClosesWell
  <2> SUFFICES ASSUME openState, ~openState' PROVE QuietFor(heard')
    BY DEF ClosesWell
  <2>1. activeAge' = CloseHold
    BY <1>1, <1>2, <1>6
  <2> QED BY <1>6, <2>1 DEF QuietFor
<1> QED BY <1>5, <1>7, <1>8, <1>9, <1>10, <1>11 DEF GateInv

\* A reading that repeats the one before it.
LEMMA RepeatedKeeps ==
  ASSUME GateInv, levelDb \in Level, Repeated, levelDb' = levelDb,
         heard' = IF openState \/ openState' THEN Recent(Append(heard, levelDb)) ELSE <<>>
  PROVE  GateInv' /\ ClosesWell
<1> DEFINE k == Len(heard')
           n == Len(heard)
<1>1. levelDb \in Nat /\ None \notin Int /\ StationaryHold \in Nat
  BY CryAssumption
<1>2. /\ activeAge' = Aged(activeAge, CloseHold)
      /\ stationary' = IF stationary = None THEN None
                       ELSE [stationary EXCEPT !.age = Aged(@, StationaryHold)]
      /\ UNCHANGED <<openState, floor, band>>
  BY DEF Repeated
<1>3. heard \in Seq(Nat) /\ floor \in Int /\ openState \in BOOLEAN
  BY DEF GateInv
<1>4. openState => /\ heard' \in Seq(Nat) /\ heard'[k] = levelDb
                   /\ activeAge' \in 0..CloseHold /\ k > activeAge'
                   /\ \A i \in (k - activeAge' + 1)..k :
                        heard'[i] = heard'[i - 1] \/ ~IsActive(heard'[i])
  BY <1>1, <1>2, <1>3, HeardKeepsEnd, QuietGrows
<1>5. heard' \in Seq(Nat) /\ BandOK'
  BY <1>2, <1>3, <1>4 DEF BandOK, GateInv
<1>6. HeardQuiet'
  BY <1>2, <1>4 DEF HeardQuiet, IsActive
<1>7. StreakOK' /\ HeardSteady'
  <2> SUFFICES ASSUME stationary # None PROVE StreakOK' /\ HeardSteady'
    BY <1>2 DEF StreakOK, HeardSteady
  <2> DEFINE age == Aged(stationary.age, StationaryHold)
  <2>1. /\ stationary \in [min : Int, max : Int, age : 0..StationaryHold]
        /\ stationary.min <= stationary.max
        /\ stationary.max - stationary.min <= StationaryRange
        /\ openState
        /\ n > stationary.age /\ n \in Nat /\ heard[n] = levelDb
        /\ \A i \in (n - stationary.age)..n :
             stationary.min <= heard[i] /\ heard[i] <= stationary.max
    BY <1>3 DEF GateInv, StreakOK, HeardSteady, HeardQuiet
  <2>2. stationary.min <= levelDb /\ levelDb <= stationary.max
    BY <2>1
  <2>3. /\ age \in 0..StationaryHold
        /\ age \in {stationary.age, stationary.age + 1}
        /\ age = stationary.age => age = StationaryHold
    BY <1>1, <2>1 DEF Aged
  <2>4. heard' = Recent(Append(heard, levelDb))
    BY <2>1
  <2>5. stationary' = [stationary EXCEPT !.age = age]
    BY <1>2
  <2> DEFINE lo == stationary.min
             hi == stationary.max
  <2>6. lo \in Int /\ hi \in Int /\ lo <= levelDb /\ levelDb <= hi
        /\ lo <= stationary.min /\ stationary.max <= hi
    BY <2>1, <2>2
  <2> HIDE DEF age, lo, hi
  <2>7. k > age /\ \A i \in (k - age)..k : lo <= heard'[i] /\ heard'[i] <= hi
    BY <1>1, <2>3, <2>4, <2>6, SteadyGrows
  <2>8. /\ stationary'.min = lo /\ stationary'.max = hi /\ stationary'.age = age
        /\ stationary' \in [min : Int, max : Int, age : 0..StationaryHold]
        /\ openState'
    BY <1>2, <2>1, <2>3, <2>5 DEF lo, hi
  <2>9. lo <= hi /\ hi - lo <= StationaryRange
    BY <2>1 DEF lo, hi
  <2>10. StreakOK'
    BY <2>8, <2>9 DEF StreakOK
  <2> QED BY <2>7, <2>8, <2>10 DEF HeardSteady
<1>8. ClosesWell
  BY <1>2 DEF ClosesWell
<1> QED BY <1>2, <1>3, <1>5, <1>6, <1>7, <1>8 DEF GateInv

LEMMA GateStep ==
  ASSUME GateInv, [CryNext]_cryVars
  PROVE  GateInv' /\ ClosesWell
<1>1. ASSUME NEW level \in Level, Sample(level) PROVE GateInv' /\ ClosesWell
  <2>1. /\ levelDb' = level
        /\ heard' = IF openState \/ openState' THEN Recent(Append(heard, level)) ELSE <<>>
    BY <1>1 DEF Sample
  <2>2. CASE level = levelDb
    BY <1>1, <2>1, <2>2, RepeatedKeeps DEF Sample
  <2>3. CASE level # levelDb /\ PushActive(level)
    BY <2>1, <2>3, PushActiveKeeps
  <2>4. CASE level # levelDb /\ PushQuiet(level)
    BY <2>1, <2>4, PushQuietKeeps
  <2> QED BY <1>1, <2>2, <2>3, <2>4 DEF Sample
<1>2. ASSUME UNCHANGED gateVars PROVE GateInv' /\ ClosesWell
  <2>1. UNCHANGED <<levelDb, floor, openState, activeAge, stationary, heard, band>>
    BY <1>2 DEF gateVars
  <2> QED BY <2>1 DEF ClosesWell, GateInv, StreakOK, BandOK, HeardQuiet, HeardSteady,
                      IsActive
<1>3. ASSUME ClassifierPoll \/ \E on \in BOOLEAN : Receive(on) \/ Listen(on)
      PROVE  UNCHANGED gateVars
  BY <1>3 DEF ClassifierPoll, Receive, Listen
<1>4. CASE UNCHANGED cryVars
  BY <1>2, <1>4 DEF cryVars
<1> QED BY <1>1, <1>2, <1>3, <1>4 DEF CryNext

LEMMA GateInvariant == CrySpec => []GateInv
<1>1. CryInit => GateInv
  BY GateInit
<1>2. GateInv /\ [CryNext]_cryVars => GateInv'
  BY GateStep
<1> QED BY <1>1, <1>2, PTL DEF CrySpec

\* A noise the gate closed on does not open it again until something else is
\* heard, for any margin that is wider than the stationary range.
THEOREM CryLearnedNoiseStaysOut == CrySpec => []LearnedNoiseStaysOut
<1>1. GateInv => LearnedNoiseStaysOut
  BY DEF GateInv, BandOK, LearnedNoiseStaysOut
<1> QED BY <1>1, GateInvariant, PTL

\* The gate never closes on a sound that was neither quiet nor constant for long
\* enough.
THEOREM CryClosesForAReason == CrySpec => ClosesForAReason
<1>1. GateInv /\ [CryNext]_cryVars
        => [openState /\ ~openState' => QuietFor(heard') \/ SteadyFor(heard')]_cryVars
  BY GateStep DEF ClosesWell
<1> QED BY <1>1, GateInvariant, PTL DEF CrySpec, ClosesForAReason
=============================================================================
