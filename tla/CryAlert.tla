------------------------------ MODULE CryAlert ------------------------------
(***************************************************************************)
(* From the sound of the room to the parent's alert: the NoiseGate of a    *)
(* Monitor (src/domain/noiseGate.ts; noise_gate.c of the firmware is the   *)
(* same algorithm) fed by src/screens/Monitor.tsx, the audio track it      *)
(* enables, and the CryAlertClassifier (src/domain/cryAlert.ts) that the   *)
(* polling effect of src/ParentSessionsContext.tsx feeds on a Parent.      *)
(*                                                                         *)
(* Levels are small integers and time counts the readings of the           *)
(* microphone.  A quiet reading moves the noise floor of a closed gate     *)
(* some way towards itself: the rate of the moving average is left open.   *)
(***************************************************************************)
EXTENDS Integers, Sequences, FiniteSetsExt, SequencesExt

CONSTANTS
  Level,            \* readings of the microphone, dB
  InitialFloor,
  OpenMargin,
  CloseHold,
  StationaryHold,
  StationaryRange,
  InstantAlert,     \* the level that alerts at once
  SustainedAlert,
  None

ASSUME CryAssumption ==
  /\ Level \subseteq Nat /\ InitialFloor \in Nat /\ InstantAlert \in Nat
  /\ StationaryRange \in Nat /\ OpenMargin \in Nat /\ StationaryRange < OpenMargin
  /\ CloseHold \in Nat \ {0} /\ StationaryHold \in Nat /\ StationaryHold >= CloseHold
  /\ SustainedAlert \in Nat \ {0}
  /\ None \notin Int

VARIABLES
  levelDb,        \* the last reading: a state of the Monitor screen
  floor,
  openState,
  activeAge,      \* since lastActiveAt
  stationary,     \* the streak: its min, max and age, or None
  received,       \* inbound audio statistics exist
  listening,      \* managed.state.listening, and the override it holds
  openSince,      \* the classifier's: polls are as frequent as readings
  alerted,
  heard,          \* history: the readings since the gate opened, the last of them
  band,           \* history: the noise the gate closed on, while nothing else was read
  loud,           \* history: a poll of this open period read a level that alerts at once
  alerts          \* history: alerts raised in this open period, up to 1

gateVars == <<levelDb, floor, openState, activeAge, stationary, heard, band>>
parentVars == <<received, listening, openSince, alerted>>
cryVars == <<gateVars, parentVars, loud, alerts>>

CryInit ==
  /\ levelDb = None
  /\ floor = InitialFloor
  /\ openState = FALSE
  /\ activeAge = None
  /\ stationary = None
  /\ received = FALSE
  /\ listening = FALSE
  /\ openSince = None
  /\ alerted = FALSE
  /\ heard = <<>>
  /\ band = None
  /\ loud = FALSE
  /\ alerts = 0

Aged(age, limit) == IF age = None \/ age = limit THEN age ELSE age + 1

-----------------------------------------------------------------------------
(* NoiseGate.push                                                          *)

\* The reading is of the noise the gate closed on.
InBand(level) == band # None /\ band.min <= level /\ level <= band.max

IsActive(level) == level >= floor + OpenMargin

\* The streak with the reading of level in it.
Streak(level) ==
  LET fresh == [min |-> level, max |-> level, age |-> 0]
      wider == [min |-> Min({stationary.min, level}), max |-> Max({stationary.max, level}),
                age |-> Aged(stationary.age, StationaryHold)]
  IN  IF stationary = None \/ wider.max - wider.min > StationaryRange THEN fresh ELSE wider

\* A mutant: the floor stays where it was.
SnappedFloor_Stays(streak) == floor

SnappedFloor(streak) == (streak.min + streak.max) \div 2

PushActive(level) ==
  LET streak == Streak(level)
      steady == streak.age >= StationaryHold
  IN  /\ IsActive(level)
      /\ activeAge' = 0
      /\ openState' = ~steady
      /\ stationary' = IF steady THEN None ELSE streak
      /\ floor' = IF steady THEN SnappedFloor(streak) ELSE floor
      /\ band' = IF steady THEN streak ELSE IF InBand(level) THEN band ELSE None

\* A mutant: a dip leaves the streak.
AfterDip_Kept == IF stationary = None THEN None
                 ELSE [stationary EXCEPT !.age = Aged(@, StationaryHold)]

\* Any dip ends the streak.
AfterDip == None

PushQuiet(level) ==
  /\ ~IsActive(level)
  /\ activeAge' = Aged(activeAge, CloseHold)
  /\ openState' = (openState /\ activeAge' < CloseHold)
  /\ stationary' = AfterDip
  /\ IF openState \/ levelDb = None THEN floor' = floor
     ELSE \E f \in Min({floor, level})..Max({floor, level}) : floor' = f
  /\ band' = IF InBand(level) THEN band ELSE None

\* The effect of Monitor.tsx runs only when the reading differs from the last:
\* a repeated one does not reach the gate.
Repeated ==
  /\ activeAge' = Aged(activeAge, CloseHold)
  /\ stationary' = IF stationary = None THEN None
                   ELSE [stationary EXCEPT !.age = Aged(@, StationaryHold)]
  /\ UNCHANGED <<openState, floor, band>>

Recent(s) == LET n == Len(s) IN SubSeq(s, Max({1, n - StationaryHold}), n)

\* A reading of the microphone, and the time of it for the classifier.
Sample(level) ==
  /\ levelDb' = level
  /\ IF level = levelDb THEN Repeated ELSE PushActive(level) \/ PushQuiet(level)
  /\ heard' = IF openState \/ openState' THEN Recent(Append(heard, level)) ELSE <<>>
  /\ openSince' = Aged(openSince, SustainedAlert)
  /\ loud' = (loud /\ (openState \/ ~openState'))
  /\ alerts' = IF ~openState /\ openState' THEN 0 ELSE alerts
  /\ UNCHANGED <<received, listening, alerted>>

-----------------------------------------------------------------------------
(* The Parent.                                                             *)

\* The level the statistics report: that of the room, or silence while the
\* Monitor's track is disabled.
IsInstant == (openState \/ listening) /\ levelDb # None /\ levelDb >= InstantAlert

\* CryAlertClassifier.push
ClassifierPush ==
  LET since == IF openSince = None THEN 0 ELSE openSince
      shouldAlert == ~alerted /\ (since >= SustainedAlert \/ IsInstant)
  IN  /\ openSince' = since
      /\ alerted' = (alerted \/ shouldAlert)
      /\ loud' = (loud \/ (openState /\ IsInstant))
      /\ alerts' = IF shouldAlert THEN 1 ELSE alerts

\* One poll of a session: null without statistics.
ClassifierPoll ==
  /\ IF ~received \/ listening
     THEN openSince' = None /\ alerted' = FALSE /\ UNCHANGED <<loud, alerts>>
     ELSE ClassifierPush
  /\ UNCHANGED <<gateVars, received, listening>>

\* Statistics of a new connection appear, or the connection is torn down.
Receive(some) ==
  /\ received' = some
  /\ UNCHANGED <<gateVars, listening, openSince, alerted, loud, alerts>>

\* setListening; a period in which it was on is not judged.
Listen(on) ==
  /\ listening' = on
  /\ loud' = FALSE
  /\ UNCHANGED <<gateVars, received, openSince, alerted, alerts>>

CryNext ==
  \/ \E level \in Level : Sample(level)
  \/ ClassifierPoll
  \/ \E on \in BOOLEAN : Receive(on) \/ Listen(on)

CrySpec == CryInit /\ [][CryNext]_cryVars

-----------------------------------------------------------------------------
(* Properties.                                                             *)

\* The last CloseHold readings were quiet, or repeated the one before.
QuietFor(s) ==
  LET n == Len(s)
  IN  n > CloseHold /\ \A i \in (n - CloseHold + 1)..n : s[i] = s[i - 1] \/ ~IsActive(s[i])

\* The readings of the last StationaryHold lie within StationaryRange.
SteadyFor(s) ==
  LET n == Len(s)
  IN  n > StationaryHold /\ \A i, j \in 1..n : s[i] - s[j] <= StationaryRange

\* The gate stops sending only after CloseHold of quiet or after StationaryHold
\* of a constant sound: a cry with breaths or swings in it is never cut off.
\* Repeated readings are excepted, since they do not reach the gate.
ClosesForAReason ==
  [][openState /\ ~openState' => QuietFor(heard') \/ SteadyFor(heard')]_cryVars

\* A noise the gate closed on does not open it again, however the floor moves,
\* until something else is heard.
LearnedNoiseStaysOut == band # None => ~openState

\* Violated: "either one fires the alert exactly once per continuous "gate
\* open" period" (cryAlert.ts:10): a period whose level alerts at once has its
\* alert.
LoudPeriodIsAlerted == loud => alerts = 1
=============================================================================
