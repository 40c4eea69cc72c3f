--------------------------- MODULE ConnectionWatch --------------------------
(***************************************************************************)
(* How the parent app notices that a monitor cannot be reached: the        *)
(* callbacks of one session and the polling effect of                      *)
(* src/ParentSessionsContext.tsx, with applyConnectionStateChange          *)
(* (src/domain/connectWatchdog.ts) and shouldFireDisconnectBeep            *)
(* (src/domain/disconnectBeep.ts).                                         *)
(*                                                                         *)
(* Time is counted in units of some seconds; the poll runs every half      *)
(* second, so it may run with no unit elapsed.  Ages stop at MaxAge.       *)
(***************************************************************************)
EXTENDS Integers

CONSTANTS
  Timeout,     \* CONNECT_TIMEOUT_MS, in units
  Threshold,   \* DISCONNECT_BEEP_THRESHOLD_MS
  Repeat,      \* DISCONNECT_BEEP_REPEAT_MS
  MaxAge,      \* bound on what ages tell apart
  MaxReads,    \* the settings reads in flight that are followed
  Never        \* no beep yet

ASSUME WatchAssumption ==
  /\ Timeout \in Nat \ {0} /\ Threshold \in Nat \ {0} /\ Repeat \in Nat \ {0}
  /\ MaxAge \in Nat /\ Timeout < MaxAge /\ Threshold <= MaxAge /\ Repeat <= MaxAge
  /\ MaxReads \in Nat
  /\ Never \notin Int

VARIABLES
  connectionState,   \* managed.state.connectionState: what is shown
  wasConnected,
  connectTimedOut,
  startedAge,        \* now - connectStartedAt
  beepAge,           \* now - lastDisconnectBeepAtMs
  silenced,          \* rejected, or muted: no disconnect beep is due
  reads,             \* reads of disconnectBeepEnabled in flight
  actual,            \* the last report of the peer connection itself
  erred,             \* history: an error frame came while connected, and no report of it since
  outage,            \* history: units since the peer connection was last connected
  lostAlerts,        \* history: lost alerts since it was last connected, up to 2
  everConnected,     \* history
  playedAge,         \* history: units since a disconnect beep was last heard
  oddBeeps           \* history: which of OddBeep happened

shownVars == <<connectionState, wasConnected, connectTimedOut, startedAge>>
historyVars == <<actual, erred, outage, lostAlerts, everConnected>>
beepVars == <<beepAge, reads, playedAge, oddBeeps>>
vars == <<shownVars, historyVars, beepVars, silenced>>

\* 'disconnected' and 'failed' are lost, 'new' and 'connecting' trying.
State == {"trying", "connected", "lost"}

\* early: before the outage lasted the threshold.  close: sooner after the
\* last beep of the outage than the repeat time.
OddBeep == {"early", "close"}

Older(age) == IF age = Never \/ age = MaxAge THEN age ELSE age + 1

Init ==
  /\ connectionState = "trying"
  /\ wasConnected = FALSE
  /\ connectTimedOut = FALSE
  /\ startedAge = 0
  /\ beepAge = Never
  /\ silenced = FALSE
  /\ reads = 0
  /\ actual = "trying"
  /\ erred = FALSE
  /\ outage = 0
  /\ lostAlerts = 0
  /\ everConnected = FALSE
  /\ playedAge = Never
  /\ oddBeeps = {}

-----------------------------------------------------------------------------
(* applyConnectionStateChange                                              *)

Connected ==
  /\ connectionState' = "connected"
  /\ connectTimedOut' = FALSE
  /\ wasConnected' = TRUE
  /\ UNCHANGED startedAge

\* A mutant: only a lost connection starts a new attempt.
StartedAge_OnLoss(state) ==
  IF connectionState = "connected" /\ state = "lost" THEN 0 ELSE startedAge

\* A mutant: every report starts a new attempt.
StartedAge_OnReport(state) == 0

\* An attempt starts when the shown state leaves 'connected'.
StartedAge(state) == IF connectionState = "connected" THEN 0 ELSE startedAge

\* A mutant: an alert for every report of a loss.
FiresLostAlert_Always(state) == state = "lost"

FiresLostAlert(state) == state = "lost" /\ wasConnected

NotConnected(state) ==
  /\ connectionState' = state
  /\ startedAge' = StartedAge(state)
  /\ wasConnected' = (wasConnected /\ ~FiresLostAlert(state))
  /\ UNCHANGED connectTimedOut

\* onConnectionStateChange, from the peer connection the session has now.
Report(state) ==
  /\ actual' = state
  /\ IF state = "connected"
     THEN Connected /\ erred' = FALSE /\ outage' = 0 /\ lostAlerts' = 0 /\ everConnected' = TRUE
     ELSE /\ NotConnected(state)
          /\ outage' = IF actual = "connected" THEN 0 ELSE outage
          /\ lostAlerts' = IF FiresLostAlert(state) /\ lostAlerts < 2 THEN lostAlerts + 1
                                                                      ELSE lostAlerts
          /\ UNCHANGED <<erred, everConnected>>
  /\ UNCHANGED <<beepVars, silenced>>

\* onError: the relay sent an error frame, or the start failed.  The state is
\* overwritten beside applyConnectionStateChange.
OnError ==
  /\ connectionState' = "lost"
  /\ erred' = (erred \/ actual = "connected")
  /\ UNCHANGED <<wasConnected, connectTimedOut, startedAge, actual, outage, lostAlerts,
                 everConnected, beepVars, silenced>>

\* onRejected, setBeepsMuted.
Silence(yes) ==
  /\ silenced' = yes
  /\ UNCHANGED <<shownVars, historyVars, beepVars>>

-----------------------------------------------------------------------------
(* The poll.                                                               *)

\* The interval fires, a unit after the last time or within the same one.
Poll(elapsed) ==
  LET age == IF elapsed THEN Older(startedAge) ELSE startedAge
  IN  /\ startedAge' = age
      /\ outage' = IF elapsed /\ actual # "connected" THEN Older(outage) ELSE outage
      /\ playedAge' = IF elapsed THEN Older(playedAge) ELSE playedAge
      /\ IF connectionState = "connected"
         THEN beepAge' = Never /\ UNCHANGED <<connectTimedOut, reads>>
         ELSE /\ beepAge' = IF elapsed THEN Older(beepAge) ELSE beepAge
              /\ connectTimedOut' = (connectTimedOut \/ age > Timeout)
              /\ reads' = IF silenced \/ reads = MaxReads THEN reads ELSE reads + 1
  /\ UNCHANGED <<connectionState, wasConnected, silenced, actual, erred, lostAlerts,
                 everConnected, oddBeeps>>

\* A mutant: the repeat time is not observed.
ShouldFireDisconnectBeep_NoRepeat == startedAge >= Threshold

ShouldFireDisconnectBeep ==
  /\ startedAge >= Threshold
  /\ beepAge = Never \/ beepAge >= Repeat

\* What is wrong with a beep heard now, unless it follows an error frame.  A
\* connection that came back during the read is told of its outage late.
Oddities ==
  IF erred \/ actual = "connected" THEN {}
  ELSE (IF outage < Threshold THEN {"early"} ELSE {})
         \cup (IF playedAge # Never /\ playedAge < Repeat /\ playedAge < outage
               THEN {"close"} ELSE {})

\* A read of the setting returns; the state is that of now, not of the poll.
SettingRead(enabled) ==
  /\ reads > 0
  /\ reads' = reads - 1
  /\ IF enabled /\ ShouldFireDisconnectBeep
     THEN /\ beepAge' = 0
          /\ playedAge' = 0
          /\ oddBeeps' = oddBeeps \cup Oddities
     ELSE UNCHANGED <<beepAge, playedAge, oddBeeps>>
  /\ UNCHANGED <<shownVars, historyVars, silenced>>

Next ==
  \/ \E state \in State : Report(state)
  \/ OnError
  \/ \E yes \in BOOLEAN : Silence(yes) \/ Poll(yes) \/ SettingRead(yes)

\* The interval keeps firing and time passes; the store answers.
Fairness ==
  /\ WF_vars(Poll(TRUE))
  /\ WF_vars(\E enabled \in BOOLEAN : SettingRead(enabled))

Spec == Init /\ [][Next]_vars /\ Fairness

-----------------------------------------------------------------------------
(* Properties.                                                             *)

Age == 0..MaxAge

\* Every variable keeps its type.
TypeOK ==
  /\ connectionState \in State /\ actual \in State
  /\ wasConnected \in BOOLEAN /\ connectTimedOut \in BOOLEAN /\ silenced \in BOOLEAN
  /\ erred \in BOOLEAN /\ everConnected \in BOOLEAN
  /\ startedAge \in Age /\ outage \in Age
  /\ beepAge \in Age \cup {Never} /\ playedAge \in Age \cup {Never}
  /\ reads \in 0..MaxReads
  /\ lostAlerts \in 0..2
  /\ oddBeeps \subseteq OddBeep

\* "No response" is shown only of an outage that has lasted the timeout, in
\* whatever order reports of replaced connections arrive (the doc of
\* applyConnectionStateChange: measuring from the first connection's start
\* fired at once).  Excepted are error frames, which do not start an attempt.
TimeoutMeasuresOutage ==
  connectTimedOut => erred \/ (connectionState # "connected" /\ outage > Timeout)

\* A lost connection is alerted once, however often it is reported, and every
\* connection that was lost has been alerted.
LostAlertOnce ==
  /\ lostAlerts <= 1
  /\ everConnected /\ actual = "lost" => lostAlerts = 1

\* No disconnect beep before the outage lasted the threshold, and none within
\* the repeat time of another of the same outage, although every poll has a
\* read in flight and decides when it returns.
BeepsAreDue == oddBeeps = {}

\* A connection that stays away is shown to have timed out, whatever states
\* its attempts go through.
StuckIsNoticed == (actual # "connected") ~> (connectTimedOut \/ actual = "connected")
=============================================================================
