------------------------ MODULE ParentSessionsProofs ------------------------
(***************************************************************************)
(* Invariants of ParentSessions for any set of monitors and any number of  *)
(* writes, kills and startTalking calls in flight.  That no session is     *)
(* started twice rests on the order of the statements: the sessions of the *)
(* first effect start before any of the revision effect, whose statement   *)
(* is issued after that of the first.  That displaying nothing twice in a  *)
(* row leaves the foreground service right rests on the key: it is that of *)
(* the sessions there are, and what is shown has it unless the Monitor     *)
(* screen wrote in between.                                                *)
(***************************************************************************)
EXTENDS ParentSessions, SequenceTheorems, FiniteSetTheorems, TLAPS

-----------------------------------------------------------------------------
(* The statements on their way.                                            *)

\* The first effect is on its way with this statement.
Starts(op) == op.kind \in {"settings", "first"}

Resyncs(op) == op.kind = "resync"

\* The first effect is on its way once at most, with nothing of the revision
\* effect before it, which issues nothing until the settings are known.
Orderly(s, known) ==
  /\ \A i, j \in 1..Len(s) : Starts(s[i]) /\ Starts(s[j]) => i = j
  /\ \A i, j \in 1..Len(s) : Starts(s[i]) /\ Resyncs(s[j]) => i < j
  /\ \A i \in 1..Len(s) : /\ s[i].kind = "settings" => ~known
                          /\ Resyncs(s[i]) => known

Started(s) == \A i \in 1..Len(s) : ~Starts(s[i])

LEMMA QueueTail ==
  ASSUME NEW s \in Seq(OpType), s # << >>, NEW known \in BOOLEAN, Orderly(s, known)
  PROVE  /\ Tail(s) \in Seq(OpType) /\ Orderly(Tail(s), known)
         /\ Started(s) => Started(Tail(s))
         /\ Starts(Head(s)) => Started(Tail(s))
         /\ Resyncs(Head(s)) => Started(s)
         /\ Head(s) \in OpType
         /\ Head(s).kind = "settings" => ~known /\ \A i \in 1..Len(s) : ~Resyncs(s[i])
<1>1. /\ Tail(s) \in Seq(OpType) /\ Len(Tail(s)) = Len(s) - 1 /\ Len(s) \in Nat \ {0}
      /\ \A i \in 1..(Len(s) - 1) : Tail(s)[i] = s[i + 1]
      /\ Head(s) = s[1] /\ s[1] \in OpType
  <2> HIDE DEF OpType
  <2> QED
    OBVIOUS
<1>2. Orderly(Tail(s), known)
  BY <1>1 DEF Orderly
<1> QED
  BY <1>1, <1>2 DEF Orderly, Started, Starts, Resyncs

LEMMA QueueAppend ==
  ASSUME NEW s \in Seq(OpType), NEW known \in BOOLEAN, Orderly(s, known), NEW op \in OpType,
         ~Starts(op), Resyncs(op) => known
  PROVE  /\ Append(s, op) \in Seq(OpType) /\ Orderly(Append(s, op), known)
         /\ Started(s) <=> Started(Append(s, op))
<1>1. /\ Append(s, op) \in Seq(OpType) /\ Len(Append(s, op)) = Len(s) + 1 /\ Len(s) \in Nat
      /\ \A i \in 1..Len(s) : Append(s, op)[i] = s[i]
      /\ Append(s, op)[Len(s) + 1] = op
  <2> HIDE DEF OpType
  <2> QED
    OBVIOUS
<1>2. Orderly(Append(s, op), known)
  BY <1>1 DEF Orderly, Starts
<1>3. Started(s) <=> Started(Append(s, op))
  BY <1>1 DEF Started
<1> QED
  BY <1>1, <1>2, <1>3

\* The revision effect cancels the statements of the ones before it, no others.
LEMMA Cancelled ==
  ASSUME NEW s \in Seq(OpType)
  PROVE  LET cancelled == [i \in DOMAIN s |-> [s[i] EXCEPT !.cancelled = @ \/ s[i].kind = "resync"]]
         IN  /\ cancelled \in Seq(OpType) /\ Len(cancelled) = Len(s)
             /\ \A i \in 1..Len(s) : cancelled[i].kind = s[i].kind
             /\ \A i \in 1..Len(s) : \A n : s[i] = Op("deleteEvents", n) => cancelled[i] = s[i]
<1> DEFINE cancelled == [i \in DOMAIN s |-> [s[i] EXCEPT !.cancelled = @ \/ s[i].kind = "resync"]]
<1>1. ASSUME NEW op \in OpType, NEW new, new = [op EXCEPT !.cancelled = @ \/ op.kind = "resync"]
      PROVE  /\ new \in OpType /\ new.kind = op.kind
             /\ op.kind = "deleteEvents" => new = op
  <2> DEFINE yes == op.cancelled \/ op.kind = "resync"
  <2>1. /\ yes \in BOOLEAN
        /\ op.kind \notin {"settings", "first", "resync"} => yes = FALSE /\ op.cancelled = FALSE
    BY DEF OpType
  <2>2. new = [op EXCEPT !.cancelled = yes]
    BY <1>1
  <2> HIDE DEF yes
  <2> QED
    BY <2>1, <2>2 DEF OpType
<1>2. DOMAIN s = 1..Len(s) /\ Len(s) \in Nat /\ \A i \in 1..Len(s) : s[i] \in OpType
  <2> HIDE DEF OpType
  <2> QED
    OBVIOUS
<1>3. \A i \in 1..Len(s) : /\ cancelled[i] \in OpType /\ cancelled[i].kind = s[i].kind
                           /\ s[i].kind = "deleteEvents" => cancelled[i] = s[i]
  BY <1>1, <1>2
<1>4. cancelled = [i \in 1..Len(s) |-> cancelled[i]]
  BY <1>2
<1> HIDE DEF cancelled
<1>5. cancelled \in Seq(OpType) /\ Len(cancelled) = Len(s)
  <2>1. \A i \in 1..Len(s) : cancelled[i] \in OpType
    BY <1>3
  <2> HIDE DEF OpType
  <2> QED
    BY <1>2, <1>4, <2>1
<1>6. ASSUME NEW i \in 1..Len(s), NEW n, s[i] = Op("deleteEvents", n)
      PROVE  cancelled[i] = s[i]
  BY <1>3, <1>6 DEF Op
<1> QED
  BY <1>3, <1>5, <1>6 DEF cancelled

-----------------------------------------------------------------------------
QueueInv ==
  /\ ops \in Seq(OpType) /\ ready \in BOOLEAN /\ bumped \in BOOLEAN
  /\ Orderly(ops, ready)
  /\ ~Started(ops) => Running(managed) = {}

StoreTypes ==
  /\ rows \subseteq Monitor /\ logged \subseteq Monitor /\ generated \subseteq Monitor
  /\ disturbed \subseteq Monitor
  /\ changes \in 0..MaxChanges

\* The calls of a session in flight keep to their bound.
CallsFit(session) == session.asking + session.offering <= MaxCalls

\* The stream of talkStream, when it is on.
Quiet(session) == session.mic = "on" => session.held \/ session.late

\* A call asks for the microphone only as long as there is no stream, so one that
\* is granted it when there is one overlapped with another.
Overlaps(session) ==
  session.asking > 1 \/ (session.asking > 0 /\ session.mic # "none") \/ session.stray
    => session.overlapped

Sound(session) == CallsFit(session) /\ Quiet(session) /\ Overlaps(session)

\* What the provider has to display for these sessions.
Due(sessions) == IF Running(sessions) = {} THEN Stopped ELSE Service(sessions)

\* The provider's key is that of these sessions, and nobody else's writes aside
\* the service shows it.
Posted(service, sessions) ==
  /\ service \in [shown : ServiceType, key : ServiceType, foreign : BOOLEAN]
  /\ service.key = Due(sessions)
  /\ ~service.foreign => service.shown = service.key

SessionInv ==
  /\ managed \in [Monitor -> Session \cup {NoSession}]
  /\ \A m \in Running(managed) : Sound(managed[m])
  /\ Posted(foreground, managed)

SessionsInv == QueueInv /\ StoreTypes /\ SessionInv /\ EverySessionIsManaged

LEMMA StoreStep ==
  ASSUME QueueInv, StoreTypes, [Next]_vars
  PROVE  StoreTypes'
<1> USE ParentSessionsAssumption DEF StoreTypes
<1>1. CASE UNCHANGED storeVars
  BY <1>1 DEF storeVars
<1>2. ASSUME NEW m \in Monitor,
             Pair(m) \/ Remove(m) \/ LogEvent(m) \/ PutMonitor(m) \/ SaveRename(m)
      PROVE  StoreTypes'
  BY <1>2 DEF Pair, Remove, LogEvent, PutMonitor, SaveRename, Writes, Changes
<1>3. CASE RunPut \/ RunDeleteMonitor \/ RunDeleteEvents \/ RunAppend
  <2>1. /\ ops # << >>
        /\ Head(ops).kind \in {"put", "pair", "deleteMonitor", "deleteEvents", "append"}
    BY <1>3 DEF RunPut, RunDeleteMonitor, RunDeleteEvents, RunAppend, Runs
  <2>2. Head(ops) \in OpType
    BY <2>1, QueueTail DEF QueueInv
  <2>3. Subject \in Monitor
    BY <2>1, <2>2 DEF Subject, OpType
  <2> QED
    BY <1>3, <2>3 DEF RunPut, RunDeleteMonitor, RunDeleteEvents, RunAppend
<1>4. CASE Restart
  BY <1>4 DEF Restart, Changes
<1>5. CASE RevisionEffect \/ RunSettings \/ RunFirst \/ RunResync
  BY <1>1, <1>5 DEF RevisionEffect, RunSettings, RunFirst, RunResync
<1>6. ASSUME NEW m \in Monitor,
             \/ Press(m) \/ Release(m)
             \/ \E yes \in BOOLEAN : Reports(m, yes) \/ Granted(m, yes) \/ Offered(m, yes)
      PROVE  StoreTypes'
  <2>1. CASE Press(m)
    BY <2>1 DEF Press, Changes
  <2>2. CASE ~Press(m)
    <3>1. UNCHANGED storeVars
      BY <1>6, <2>2 DEF Release, Reports, Granted, Offered
    <3> QED
      BY <1>1, <3>1
  <2> QED
    BY <2>1, <2>2
<1>8. CASE MonitorScreenRecords \/ MonitorScreenCloses
  BY <1>8 DEF MonitorScreenRecords, MonitorScreenCloses, Changes
<1>7. CASE UNCHANGED vars
  BY <1>1, <1>7 DEF vars
<1> QED
  BY <1>2, <1>3, <1>4, <1>5, <1>6, <1>7, <1>8 DEF Next, RunStatement

-----------------------------------------------------------------------------
(* The sessions.                                                           *)

LEMMA NoSessions ==
  ASSUME NEW sessions \in [Monitor -> {NoSession}]
  PROVE  Running(sessions) = {}
BY DEF Running

LEMMA Counts ==
  ASSUME NEW live \in SUBSET Monitor
  PROVE  Cardinality(live) \in 0..Cardinality(Monitor)
BY ParentSessionsAssumption, FS_Subset, FS_CardinalityType

LEMMA StoppedType == Stopped \in ServiceType
<1>1. Cardinality({}) \in 0..Cardinality(Monitor)
  BY Counts
<1> QED
  BY <1>1 DEF Stopped, Summary, ServiceType

LEMMA DueType ==
  ASSUME NEW sessions
  PROVE  Due(sessions) \in ServiceType
<1> DEFINE live == Running(sessions)
           connected == {m \in live : sessions[m].connected}
           talks == \E m \in live : sessions[m].talking
<1>1. /\ Cardinality(live) \in 0..Cardinality(Monitor)
      /\ Cardinality(connected) \in 0..Cardinality(Monitor)
  <2>1. live \subseteq Monitor /\ connected \subseteq Monitor
    BY DEF Running
  <2> HIDE DEF live, connected
  <2> QED
    BY <2>1, Counts
<1>2. talks \in BOOLEAN
  OBVIOUS
<1>3. Service(sessions) = Displayed(TRUE, talks, Summary(connected, live))
  BY DEF Service
<1> HIDE DEF live, connected, talks
<1>4. Service(sessions) \in ServiceType
  BY <1>1, <1>2, <1>3 DEF Displayed, Summary, ServiceType
<1> QED
  BY <1>4, StoppedType DEF Due

\* What was just displayed is what is due.
LEMMA JustPosted ==
  ASSUME NEW sessions
  PROVE  Posted(Foreground(Due(sessions)), sessions)
BY DueType DEF Posted, Foreground

\* The service follows the sessions, although nothing is displayed that has the key
\* of what was displayed last.
LEMMA ServiceFollows ==
  ASSUME NEW from, NEW to, NEW service, Posted(service, from)
  PROVE  Posted(Follows(service, from, to), to)
<1>1. CASE to = from
  BY <1>1 DEF Follows
<1>2. CASE to # from /\ Running(to) # {} /\ Service(to) = service.key
  BY <1>2 DEF Follows, Recomputed, Posted, Due
<1>3. CASE to # from /\ (Running(to) = {} \/ Service(to) # service.key)
  <2>1. Follows(service, from, to) = Foreground(Due(to))
    BY <1>3 DEF Follows, Recomputed, Due
  <2> QED
    BY <2>1, JustPosted
<1> QED
  BY <1>1, <1>2, <1>3

\* A session goes on as another.
LEMMA SessionChanges ==
  ASSUME SessionInv, NEW m \in Monitor, NEW session \in Session, Sound(session),
         Change(m, session)
  PROVE  SessionInv'
<1>1. managed' = [managed EXCEPT ![m] = session]
      /\ foreground' = Follows(foreground, managed, managed')
  BY DEF Change, Manage
<1>2. managed' \in [Monitor -> Session \cup {NoSession}]
  BY <1>1 DEF SessionInv
<1>3. ASSUME NEW n \in Monitor, managed'[n] # NoSession
      PROVE  Sound(managed'[n])
  BY <1>1, <1>3 DEF SessionInv, Running
<1>4. Posted(foreground', managed')
  BY <1>1, ServiceFollows DEF SessionInv
<1> QED
  BY <1>2, <1>3, <1>4 DEF SessionInv, Running

\* Sessions are started and stopped.
LEMMA SessionsStartAndStop ==
  ASSUME SessionInv,
         managed' \in [Monitor -> Session \cup {NoSession}],
         \A m \in Monitor : managed'[m] \in {managed[m], NoSession, NewSession},
         Posted(foreground', managed')
  PROVE  SessionInv'
<1>1. Sound(NewSession)
  BY ParentSessionsAssumption DEF NewSession, CallsFit, Quiet, Overlaps, Sound
<1>2. ASSUME NEW n \in Monitor, managed'[n] # NoSession
      PROVE  Sound(managed'[n])
  BY <1>1, <1>2 DEF SessionInv, Running
<1> QED
  BY <1>2 DEF SessionInv, Running

\* What a session goes on as when it reports, or its button is used.
Moves(m) ==
  /\ managed[m] # NoSession
  /\ \E session \in Session : Change(m, session) /\ Sound(session)

LEMMA SessionMoves ==
  ASSUME SessionInv, NEW m \in Monitor,
         \/ Press(m) \/ Release(m)
         \/ \E yes \in BOOLEAN : Reports(m, yes) \/ Granted(m, yes) \/ Offered(m, yes)
  PROVE  Moves(m)
<1> USE ParentSessionsAssumption
<1>1. managed[m] # NoSession
  BY DEF Press, Release, Reports, Granted, Offered
<1>2. managed[m] \in Session /\ Sound(managed[m])
  BY <1>1 DEF SessionInv, Running
<1>3. ASSUME NEW yes \in BOOLEAN, Reports(m, yes)
      PROVE  Moves(m)
  <2> DEFINE session == [managed[m] EXCEPT !.connected = yes]
  <2>1. managed[m] \in Session /\ Sound(managed[m])
    BY <1>2, <1>3 DEF Reports
  <2>2. session \in Session /\ Sound(session)
    BY <2>1 DEF Session, Sound, CallsFit, Quiet, Overlaps
  <2> QED
    BY <1>3, <2>2, <1>1 DEF Moves, Reports
<1>4. ASSUME Press(m)
      PROVE  Moves(m)
  <2>1. managed[m] \in Session /\ Sound(managed[m])
    BY <1>2, <1>4 DEF Press
  <2>2. CASE managed[m].mic = "none"
    <3> DEFINE asking == managed[m].asking + 1
               overlapped == managed[m].overlapped \/ managed[m].asking > 0
               session == [managed[m] EXCEPT !.held = TRUE, !.asking = asking,
                                             !.overlapped = overlapped]
    <3>1. managed[m].asking + managed[m].offering < MaxCalls /\ Change(m, session)
      BY <1>4, <2>1, <2>2 DEF Press, StartTalking, Session
    <3>2. /\ asking \in 0..MaxCalls /\ asking + managed[m].offering <= MaxCalls
          /\ overlapped \in BOOLEAN /\ (asking > 1 => overlapped)
          /\ (managed[m].overlapped => overlapped)
      BY <2>1, <3>1 DEF Session
    <3>3. session \in Session /\ Sound(session)
      <4> HIDE DEF asking, overlapped
      <4> QED
        BY <2>1, <2>2, <3>2 DEF Session, Sound, CallsFit, Quiet, Overlaps
    <3> QED
      BY <3>1, <3>3, <1>1 DEF Moves
  <2>3. CASE managed[m].mic # "none"
    <3> DEFINE session == [managed[m] EXCEPT !.held = TRUE, !.mic = "on", !.talking = TRUE]
    <3>1. session \in Session /\ Sound(session)
      BY <2>1, <2>3 DEF Session, Sound, CallsFit, Quiet, Overlaps
    <3> QED
      <4>1. Change(m, session)
        BY <1>4, <2>1, <2>3 DEF Press, StartTalking, Session
      <4> QED
        BY <3>1, <4>1, <1>1 DEF Moves
  <2> QED
    BY <2>2, <2>3
<1>5. ASSUME Release(m)
      PROVE  Moves(m)
  <2> DEFINE session == [managed[m] EXCEPT !.held = FALSE, !.talking = FALSE, !.late = FALSE,
                                           !.mic = IF @ = "on" THEN "off" ELSE @]
  <2>1. managed[m] \in Session /\ Sound(managed[m])
    BY <1>2, <1>5 DEF Release
  <2>2. session \in Session /\ Sound(session)
    BY <2>1 DEF Session, Sound, CallsFit, Quiet, Overlaps
  <2> QED
    <3>1. Change(m, session)
      BY <1>5, <2>1 DEF Release, StopTalking, Session
    <3> QED
      BY <2>2, <3>1, <1>1 DEF Moves
<1>6. ASSUME NEW yes \in BOOLEAN, Granted(m, yes)
      PROVE  Moves(m)
  <2> DEFINE asking == managed[m].asking - 1
             offering == managed[m].offering + 1
             late == managed[m].late \/ ~managed[m].held
             stray == managed[m].stray \/ managed[m].mic = "on"
             granted == [managed[m] EXCEPT !.asking = asking, !.offering = offering, !.mic = "on",
                                           !.stray = stray, !.late = late]
             denied == [managed[m] EXCEPT !.asking = asking]
  <2>1. /\ managed[m] \in Session /\ Sound(managed[m])
        /\ managed[m].asking > 0 /\ (Change(m, granted) \/ Change(m, denied))
    BY <1>2, <1>6 DEF Granted
  <2>2. /\ asking \in 0..MaxCalls /\ offering \in 0..MaxCalls
        /\ asking + offering <= MaxCalls /\ asking + managed[m].offering <= MaxCalls
    BY <2>1 DEF Session, Sound, CallsFit
  <2>3. /\ late \in BOOLEAN /\ (late \/ managed[m].held)
        /\ stray \in BOOLEAN /\ (stray \/ asking > 0 => managed[m].overlapped)
        /\ asking > 1 => managed[m].overlapped
    BY <2>1 DEF Session, Sound, Overlaps
  <2>4. granted \in Session /\ Sound(granted) /\ denied \in Session /\ Sound(denied)
    <3> HIDE DEF asking, offering, late, stray
    <3> QED
      BY <2>1, <2>2, <2>3 DEF Session, Sound, CallsFit, Quiet, Overlaps
  <2> QED
    BY <2>1, <2>4, <1>1 DEF Moves
<1>7. ASSUME NEW yes \in BOOLEAN, Offered(m, yes)
      PROVE  Moves(m)
  <2> DEFINE offering == managed[m].offering - 1
             talking == managed[m].talking \/ yes
             session == [managed[m] EXCEPT !.offering = offering, !.talking = talking]
  <2>1. /\ managed[m] \in Session /\ Sound(managed[m])
        /\ managed[m].offering > 0 /\ Change(m, session)
    BY <1>2, <1>7 DEF Offered
  <2>2. /\ offering \in 0..MaxCalls /\ managed[m].asking + offering <= MaxCalls
        /\ talking \in BOOLEAN
    BY <2>1 DEF Session, Sound, CallsFit
  <2>3. session \in Session /\ Sound(session)
    <3> HIDE DEF offering, talking
    <3> QED
      BY <2>1, <2>2 DEF Session, Sound, CallsFit, Quiet, Overlaps
  <2> QED
    BY <2>1, <2>3, <1>1 DEF Moves
<1> QED
  BY <1>3, <1>4, <1>5, <1>6, <1>7

LEMMA SessionStep ==
  ASSUME SessionInv, [Next]_vars
  PROVE  SessionInv'
<1> USE ParentSessionsAssumption
<1>1. CASE UNCHANGED sessionVars
  BY <1>1 DEF sessionVars, SessionInv, Running, Posted, Due, Service
<1>3. ASSUME NEW m \in Monitor, Moves(m)
      PROVE  SessionInv'
  BY <1>3, SessionChanges DEF Moves
<1>8. ASSUME NEW sessions, NEW new, StartSessions(sessions, new),
             sessions \in [Monitor -> Session \cup {NoSession}],
             \A m \in Monitor : sessions[m] \in {managed[m], NoSession}
      PROVE  SessionInv'
  <2>1. NewSession \in Session
    BY DEF NewSession, Session
  <2>2. managed' = [m \in Monitor |-> IF m \in new THEN NewSession ELSE sessions[m]]
    BY <1>8 DEF StartSessions
  <2>3. /\ managed' \in [Monitor -> Session \cup {NoSession}]
        /\ \A m \in Monitor : managed'[m] \in {managed[m], NoSession, NewSession}
    BY <1>8, <2>1, <2>2
  <2>4. Posted(foreground', managed')
    <3>1. Posted(Follows(foreground, managed, sessions), sessions)
      BY ServiceFollows DEF SessionInv
    <3> QED
      BY <1>8, <3>1, ServiceFollows DEF StartSessions
  <2> QED
    BY <2>3, <2>4, SessionsStartAndStop
<1>9. CASE Restart
  <2>1. managed' = [m \in Monitor |-> NoSession] /\ foreground' = Foreground(Stopped)
    BY <1>9 DEF Restart
  <2>2. Running(managed') = {}
    BY <2>1, NoSessions
  <2>3. Posted(foreground', managed')
    BY <2>1, <2>2, JustPosted DEF Due
  <2> QED
    BY <2>1, <2>3, SessionsStartAndStop
\* The Monitor screen writes to the service.
<1>15. ASSUME MonitorScreenRecords \/ MonitorScreenCloses
       PROVE  SessionInv'
  <2>1. /\ managed' = managed
        /\ \/ foreground' = [foreground EXCEPT !.shown = Displayed(FALSE, TRUE, Summary({}, {})),
                                               !.foreign = TRUE]
           \/ foreground' = [foreground EXCEPT !.shown = Stopped, !.foreign = TRUE]
    BY <1>15 DEF MonitorScreenRecords, MonitorScreenCloses
  <2>2. Displayed(FALSE, TRUE, Summary({}, {})) \in ServiceType
    <3>1. Summary({}, {}) = Stopped.body
      BY DEF Stopped
    <3> QED
      BY <3>1, StoppedType DEF Displayed, ServiceType
  <2>3. Posted(foreground, managed)
    BY DEF SessionInv
  <2>4. /\ foreground' \in [shown : ServiceType, key : ServiceType, foreign : BOOLEAN]
        /\ foreground'.key = foreground.key /\ foreground'.foreign
    BY <2>1, <2>2, <2>3, StoppedType DEF Posted
  <2>5. Posted(foreground', managed)
    BY <2>3, <2>4 DEF Posted
  <2> QED
    BY <2>1, <2>5 DEF SessionInv
<1>10. CASE RunFirst
  BY <1>8, <1>10 DEF RunFirst, SessionInv
<1>11. CASE RunResync
  <2> DEFINE gone == Running(managed) \ rows
  <2>1. UNCHANGED sessionVars \/ StartSessions(StopSessions(gone), Missing)
    BY <1>11 DEF RunResync
  <2>2. /\ StopSessions(gone) \in [Monitor -> Session \cup {NoSession}]
        /\ \A m \in Monitor : StopSessions(gone)[m] \in {managed[m], NoSession}
    BY DEF StopSessions, SessionInv
  <2> QED
    BY <1>1, <1>8, <2>1, <2>2
<1>12. ASSUME NEW m \in Monitor,
              Pair(m) \/ Remove(m) \/ LogEvent(m) \/ PutMonitor(m) \/ SaveRename(m)
       PROVE  UNCHANGED sessionVars
  BY <1>12 DEF Pair, Remove, LogEvent, PutMonitor, SaveRename
<1>13. ASSUME \/ RevisionEffect \/ RunPut \/ RunDeleteMonitor \/ RunDeleteEvents
              \/ RunAppend \/ RunSettings
       PROVE  UNCHANGED sessionVars
  BY <1>13 DEF RevisionEffect, RunPut, RunDeleteMonitor, RunDeleteEvents, RunAppend, RunSettings
<1>14. CASE UNCHANGED vars
  BY <1>1, <1>14 DEF vars
<1> QED
  BY <1>1, <1>3, <1>9, <1>10, <1>11, <1>12, <1>13, <1>14, <1>15, SessionMoves DEF Next, RunStatement

-----------------------------------------------------------------------------
(* The queue, and the sessions it starts.                                  *)

LEMMA QueueInit == Init => QueueInv
<1> SUFFICES ASSUME Init PROVE QueueInv
  OBVIOUS
<1>1. Read("settings") \in OpType
  BY DEF Read, Op, OpType
<1>2. ops \in Seq(OpType) /\ Len(ops) = 1 /\ ops[1] = Read("settings")
  <2> HIDE DEF OpType, Read
  <2> QED
    BY <1>1 DEF Init
<1>3. Orderly(ops, FALSE)
  BY <1>2 DEF Orderly, Resyncs, Read, Op
<1>4. Running(managed) = {}
  BY NoSessions DEF Init
<1> QED
  BY <1>2, <1>3, <1>4 DEF Init, QueueInv

\* A statement is issued that starts nothing.
LEMMA Issued ==
  ASSUME QueueInv, NEW op \in OpType, ~Starts(op), Resyncs(op) => ready,
         ops' = Append(ops, op), UNCHANGED <<managed, ready>>, bumped' \in BOOLEAN
  PROVE  QueueInv'
BY QueueAppend DEF QueueInv

\* A statement runs, and perhaps another that starts nothing is issued.
LEMMA Ran ==
  ASSUME QueueInv, ops # << >>,
         \/ ops' = Tail(ops)
         \/ \E op \in OpType : ops' = Append(Tail(ops), op) /\ ~Starts(op) /\ ~Resyncs(op),
         UNCHANGED <<managed, ready>>, bumped' \in BOOLEAN
  PROVE  QueueInv'
<1>1. /\ Tail(ops) \in Seq(OpType) /\ Orderly(Tail(ops), ready)
      /\ Started(ops) => Started(Tail(ops))
  BY QueueTail DEF QueueInv
<1> QED
  BY <1>1, QueueAppend DEF QueueInv

\* The sessions change once the first effect has run.
LEMMA SessionsChange ==
  ASSUME QueueInv, Started(ops), UNCHANGED <<ready, bumped>>,
         ops' = ops \/ (ops # << >> /\ ops' = Tail(ops))
  PROVE  QueueInv'
BY QueueTail DEF QueueInv

LEMMA QueueStep ==
  ASSUME QueueInv, StoreTypes, EverySessionIsManaged, [Next]_vars
  PROVE  QueueInv' /\ EverySessionIsManaged'
<1> USE DEF EverySessionIsManaged
<1>1. ASSUME UNCHANGED <<ops, ready, bumped, managed, unmanaged>>
      PROVE  QueueInv' /\ EverySessionIsManaged'
  BY <1>1 DEF QueueInv, Running
<1>2. ASSUME NEW m \in Monitor,
             Pair(m) \/ Remove(m) \/ LogEvent(m) \/ PutMonitor(m) \/ SaveRename(m)
      PROVE  QueueInv' /\ EverySessionIsManaged'
  <2>1. \/ ops' = ops
        \/ \E kind \in {"pair", "deleteMonitor", "append", "put"} : ops' = Append(ops, Op(kind, m))
    BY <1>2 DEF Pair, Remove, LogEvent, PutMonitor, SaveRename, RenameMonitor, Writes, Issue
  <2>2. ASSUME NEW kind \in {"pair", "deleteMonitor", "append", "put"}
        PROVE  Op(kind, m) \in OpType /\ ~Starts(Op(kind, m)) /\ ~Resyncs(Op(kind, m))
    BY DEF Op, OpType, Starts, Resyncs
  <2>3. UNCHANGED <<managed, unmanaged, ready>> /\ bumped' \in BOOLEAN
    BY <1>2 DEF Pair, Remove, LogEvent, PutMonitor, SaveRename, Bump, sessionVars, QueueInv
  <2>4. CASE ops' = ops
    BY <2>3, <2>4 DEF QueueInv
  <2>5. ASSUME NEW kind \in {"pair", "deleteMonitor", "append", "put"},
               ops' = Append(ops, Op(kind, m))
        PROVE  QueueInv'
    BY <2>2, <2>3, <2>5, Issued
  <2> QED
    BY <2>1, <2>3, <2>4, <2>5
<1>3. CASE RunPut \/ RunDeleteMonitor \/ RunDeleteEvents \/ RunAppend
  <2>1. /\ ops # << >> /\ UNCHANGED <<managed, unmanaged, ready>> /\ bumped' \in BOOLEAN
        /\ Head(ops).kind \in {"put", "pair", "deleteMonitor", "deleteEvents", "append"}
    BY <1>3 DEF RunPut, RunDeleteMonitor, RunDeleteEvents, RunAppend, Runs, Bump, sessionVars,
       QueueInv
  <2>2. Head(ops) \in OpType
    BY <2>1, QueueTail DEF QueueInv
  <2>3. Subject \in Monitor
    BY <2>1, <2>2 DEF Subject, OpType
  <2>4. /\ Op("deleteEvents", Subject) \in OpType
        /\ ~Starts(Op("deleteEvents", Subject)) /\ ~Resyncs(Op("deleteEvents", Subject))
    BY <2>3 DEF Op, OpType, Starts, Resyncs
  <2>5. ops' = Tail(ops) \/ ops' = Append(Tail(ops), Op("deleteEvents", Subject))
    BY <1>3 DEF RunPut, RunDeleteMonitor, RunDeleteEvents, RunAppend
  <2> QED
    BY <2>1, <2>4, <2>5, Ran
<1>4. CASE RevisionEffect
  <2> DEFINE cancelled == [i \in DOMAIN ops |->
                             [ops[i] EXCEPT !.cancelled = @ \/ ops[i].kind = "resync"]]
  <2>1. /\ bumped' = FALSE /\ UNCHANGED <<managed, unmanaged, ready>>
        /\ ops' = IF ready THEN Append(cancelled, Read("resync")) ELSE cancelled
    BY <1>4 DEF RevisionEffect, sessionVars
  <2>3. /\ cancelled \in Seq(OpType) /\ Len(cancelled) = Len(ops)
        /\ \A i \in 1..Len(ops) : cancelled[i].kind = ops[i].kind
    BY Cancelled DEF QueueInv
  <2> HIDE DEF cancelled
  <2>4. Orderly(cancelled, ready) /\ (Started(cancelled) <=> Started(ops))
    BY <2>3 DEF QueueInv, Orderly, Started, Starts, Resyncs
  <2>5. Read("resync") \in OpType /\ ~Starts(Read("resync"))
    BY DEF Read, Op, OpType, Starts
  <2>6. ready => /\ Append(cancelled, Read("resync")) \in Seq(OpType)
                 /\ Orderly(Append(cancelled, Read("resync")), ready)
                 /\ Started(cancelled) <=> Started(Append(cancelled, Read("resync")))
    BY <2>3, <2>4, <2>5, QueueAppend DEF QueueInv
  <2>7. ops' \in Seq(OpType) /\ Orderly(ops', ready') /\ (Started(ops') <=> Started(ops))
    BY <2>1, <2>3, <2>4, <2>6
  <2> QED
    BY <2>1, <2>7 DEF QueueInv
<1>5. CASE RunSettings
  <2>1. /\ ops # << >> /\ Head(ops).kind = "settings" /\ ready' = TRUE
        /\ ops' = Append(Tail(ops), Read("first"))
        /\ UNCHANGED <<managed, unmanaged, bumped>>
    BY <1>5 DEF RunSettings, Runs, sessionVars
  <2>2. /\ Tail(ops) \in Seq(OpType) /\ Started(Tail(ops)) /\ Orderly(Tail(ops), ready)
        /\ Starts(Head(ops)) /\ ~Started(ops) /\ \A i \in 1..Len(ops) : ~Resyncs(ops[i])
    BY <2>1, QueueTail DEF QueueInv, Starts, Started
  <2>3. Read("first") \in OpType /\ Starts(Read("first")) /\ ~Resyncs(Read("first"))
        /\ Read("first").kind # "settings"
    BY DEF Read, Op, OpType, Starts, Resyncs
  <2> DEFINE rest == Tail(ops)
             first == Read("first")
  <2>4. /\ Len(rest) \in Nat /\ ops' \in Seq(OpType) /\ Len(ops') = Len(rest) + 1
        /\ \A i \in 1..Len(rest) : ops'[i] = rest[i] /\ rest[i] = ops[i + 1]
        /\ ops'[Len(rest) + 1] = first /\ Len(ops) = Len(rest) + 1
    <3>1. ops \in Seq(OpType) /\ ops # << >>
      BY <2>1 DEF QueueInv
    <3> HIDE DEF OpType
    <3>2. /\ Len(rest) = Len(ops) - 1 /\ Len(rest) \in Nat /\ rest \in Seq(OpType)
          /\ \A i \in 1..Len(rest) : rest[i] = ops[i + 1]
      BY <3>1
    <3>3. ops' = Append(rest, first) /\ first \in OpType
      BY <2>1, <2>3
    <3> HIDE DEF rest, first
    <3> QED
      BY <3>2, <3>3
  <2> HIDE DEF rest, first
  <2>5. \A i \in 1..Len(rest) : ~Starts(ops'[i]) /\ ~Resyncs(ops'[i])
    BY <2>2, <2>4 DEF Started, rest
  <2>6. Orderly(ops', TRUE)
    BY <2>3, <2>4, <2>5 DEF Orderly, Starts, first
  <2> QED
    BY <2>1, <2>2, <2>4, <2>6 DEF QueueInv
<1>6. CASE RunFirst
  <2>1. /\ ops # << >> /\ Head(ops).kind = "first" /\ ops' = Tail(ops)
        /\ unmanaged' = unmanaged \cup (rows \cap Running(managed)) /\ UNCHANGED <<ready, bumped>>
    BY <1>6 DEF RunFirst, Runs, StartSessions
  <2>2. /\ Tail(ops) \in Seq(OpType) /\ Started(Tail(ops)) /\ Orderly(Tail(ops), ready)
        /\ ~Started(ops)
    BY <2>1, QueueTail DEF QueueInv, Starts, Started
  <2>3. Running(managed) = {}
    BY <2>2 DEF QueueInv
  <2> QED
    BY <2>1, <2>2, <2>3 DEF QueueInv
<1>7. CASE RunResync
  <2> DEFINE gone == Running(managed) \ rows
  <2>1. /\ ops # << >> /\ Head(ops).kind = "resync" /\ ops' = Tail(ops)
        /\ \/ UNCHANGED unmanaged
           \/ unmanaged' = unmanaged \cup (Missing \cap Running(StopSessions(gone)))
        /\ UNCHANGED <<ready, bumped>>
    BY <1>7 DEF RunResync, Runs, StartSessions, sessionVars
  <2>2. Started(ops)
    BY <2>1, QueueTail DEF QueueInv, Resyncs
  <2>3. Missing \cap Running(StopSessions(gone)) = {}
    BY DEF Missing, Running, StopSessions
  <2> QED
    BY <2>1, <2>2, <2>3, SessionsChange
<1>8. ASSUME NEW m \in Monitor,
             \/ Press(m) \/ Release(m)
             \/ \E yes \in BOOLEAN : Reports(m, yes) \/ Granted(m, yes) \/ Offered(m, yes)
      PROVE  QueueInv' /\ EverySessionIsManaged'
  <2>1. managed[m] # NoSession /\ UNCHANGED <<ops, ready, bumped, unmanaged>>
    BY <1>8 DEF Press, Release, Reports, Granted, Offered, Change
  <2>2. Started(ops)
    BY <2>1 DEF QueueInv, Running
  <2> QED
    BY <2>1, <2>2, SessionsChange
<1>9. CASE Restart
  <2>1. /\ ops' = <<Read("settings")>> /\ ready' = FALSE /\ bumped' = FALSE
        /\ managed' = [m \in Monitor |-> NoSession] /\ UNCHANGED unmanaged
    BY <1>9 DEF Restart
  <2>2. Read("settings") \in OpType /\ ~Resyncs(Read("settings"))
    BY DEF Read, Op, OpType, Resyncs
  <2>3. ops' \in Seq(OpType) /\ Len(ops') = 1 /\ ops'[1] = Read("settings")
    <3> HIDE DEF OpType, Read
    <3> QED
      BY <2>1, <2>2
  <2>4. Orderly(ops', FALSE)
    BY <2>2, <2>3 DEF Orderly
  <2>5. Running(managed') = {}
    BY <2>1, NoSessions
  <2> QED
    BY <2>1, <2>3, <2>4, <2>5 DEF QueueInv, Running
<1>10. CASE UNCHANGED vars
  BY <1>1, <1>10 DEF vars, sessionVars
<1>11. CASE MonitorScreenRecords \/ MonitorScreenCloses
  BY <1>1, <1>11 DEF MonitorScreenRecords, MonitorScreenCloses
<1> QED
  BY <1>2, <1>3, <1>4, <1>5, <1>6, <1>7, <1>8, <1>9, <1>10, <1>11, ParentSessionsAssumption
  DEF Next, RunStatement

-----------------------------------------------------------------------------
(* The sessions and the stored monitors.                                   *)

\* The sessions are about to be taken from the store: the first effect is on
\* its way, or a statement of the revision effect that was not cancelled.
Refreshing(s) == \E i \in 1..Len(s) : Starts(s[i]) \/ (Resyncs(s[i]) /\ ~s[i].cancelled)

\* The second statement of a removal is on its way; it announces a revision.
Purging(s, m) == \E i \in 1..Len(s) : s[i] = Op("deleteEvents", m)

\* The settings are still to be read.
Unread(s) == \E i \in 1..Len(s) : s[i].kind = "settings"

\* Whatever keeps the sessions from the stored monitors is on its way.
MatchInv ==
  /\ ready \/ Unread(ops)
  /\ \A m \in Monitor \ disturbed :
       /\ Refreshing(ops) \/ bumped \/ Purging(ops, m) \/ (managed[m] # NoSession <=> m \in rows)
       /\ m \in logged => m \in rows \/ Purging(ops, m)

\* What is on its way stays so until it runs.
LEMMA DueAfterHead ==
  ASSUME NEW s \in Seq(OpType), s # << >>, NEW m
  PROVE  /\ Refreshing(s) => \/ Refreshing(Tail(s))
                             \/ Starts(Head(s)) \/ (Resyncs(Head(s)) /\ ~Head(s).cancelled)
         /\ Purging(s, m) => Purging(Tail(s), m) \/ Head(s) = Op("deleteEvents", m)
         /\ Unread(s) => Unread(Tail(s)) \/ Head(s).kind = "settings"
<1>1. /\ Len(Tail(s)) = Len(s) - 1 /\ Len(s) \in Nat \ {0} /\ Head(s) = s[1]
      /\ \A i \in 1..(Len(s) - 1) : Tail(s)[i] = s[i + 1]
  <2> HIDE DEF OpType
  <2> QED
    OBVIOUS
<1>2. ASSUME NEW i \in 1..Len(s)
      PROVE  i = 1 \/ (i - 1 \in 1..Len(Tail(s)) /\ Tail(s)[i - 1] = s[i])
  BY <1>1
<1> QED
  BY <1>1, <1>2 DEF Refreshing, Purging, Unread

LEMMA DueBeforeLast ==
  ASSUME NEW s \in Seq(OpType), NEW op, NEW m
  PROVE  LET t == Append(s, op)
         IN  /\ Refreshing(s) => Refreshing(t)
             /\ Purging(s, m) => Purging(t, m)
             /\ Unread(s) => Unread(t)
             /\ Starts(op) \/ (Resyncs(op) /\ ~op.cancelled) => Refreshing(t)
             /\ op = Op("deleteEvents", m) => Purging(t, m)
<1> DEFINE t == Append(s, op)
<1>1. /\ Len(t) = Len(s) + 1 /\ Len(s) \in Nat /\ t[Len(s) + 1] = op
      /\ \A i \in 1..Len(s) : t[i] = s[i]
  <2> HIDE DEF OpType
  <2> QED
    OBVIOUS
<1>2. 1..Len(s) \subseteq 1..Len(t) /\ Len(s) + 1 \in 1..Len(t)
  BY <1>1
<1> HIDE DEF t
<1>3. /\ Refreshing(s) => Refreshing(t)
      /\ Purging(s, m) => Purging(t, m)
      /\ Unread(s) => Unread(t)
  BY <1>1, <1>2 DEF Refreshing, Purging, Unread
<1>4. /\ Starts(op) \/ (Resyncs(op) /\ ~op.cancelled) => Refreshing(t)
      /\ op = Op("deleteEvents", m) => Purging(t, m)
  BY <1>1, <1>2 DEF Refreshing, Purging
<1> QED
  BY <1>3, <1>4 DEF t

LEMMA MatchStep ==
  ASSUME QueueInv, SessionInv, MatchInv, [Next]_vars
  PROVE  MatchInv'
<1>1. ops \in Seq(OpType)
  BY DEF QueueInv
<1>2. ASSUME UNCHANGED <<rows, logged, disturbed, ops, ready>>, bumped => bumped',
             \A m \in Monitor : managed'[m] # NoSession <=> managed[m] # NoSession
      PROVE  MatchInv'
  BY <1>2 DEF MatchInv
<1>3. ASSUME NEW m \in Monitor, Moves(m), UNCHANGED <<rows, logged, disturbed, ops, ready, bumped>>
      PROVE  MatchInv'
  <2>1. \A n \in Monitor : managed'[n] # NoSession <=> managed[n] # NoSession
    BY <1>3, NoSessionAssumption DEF Moves, Change, Manage, SessionInv
  <2> QED
    BY <1>2, <1>3, <2>1
<1>4. ASSUME NEW m \in Monitor,
             \/ Press(m) \/ Release(m)
             \/ \E yes \in BOOLEAN : Reports(m, yes) \/ Granted(m, yes) \/ Offered(m, yes)
      PROVE  MatchInv'
  BY <1>3, <1>4, SessionMoves DEF Press, Release, Reports, Granted, Offered, storeVars
\* A statement is issued.
<1>5. ASSUME NEW m \in Monitor,
             Pair(m) \/ Remove(m) \/ LogEvent(m) \/ PutMonitor(m) \/ SaveRename(m)
      PROVE  MatchInv'
  <2>1. \/ ops' = ops
        \/ \E kind \in {"pair", "deleteMonitor", "append", "put"} : ops' = Append(ops, Op(kind, m))
    BY <1>5 DEF Pair, Remove, LogEvent, PutMonitor, SaveRename, RenameMonitor, Writes, Issue
  <2>2. UNCHANGED <<rows, logged, disturbed, managed, ready>> /\ (bumped => bumped')
    BY <1>5 DEF Pair, Remove, LogEvent, PutMonitor, SaveRename, Bump, sessionVars
  <2>3. /\ Refreshing(ops) => Refreshing(ops')
        /\ Unread(ops) => Unread(ops')
        /\ \A n \in Monitor : Purging(ops, n) => Purging(ops', n)
    BY <1>1, <2>1, DueBeforeLast
  <2> QED
    BY <2>2, <2>3 DEF MatchInv
\* A statement runs that reads nothing into the sessions.
<1>6. ASSUME RunPut \/ RunDeleteMonitor \/ RunDeleteEvents \/ RunAppend
      PROVE  MatchInv'
  <2>1. /\ ops # << >> /\ UNCHANGED <<managed, ready>> /\ (bumped => bumped')
        /\ Head(ops).kind \in {"put", "pair", "deleteMonitor", "deleteEvents", "append"}
    <3>1. /\ ops # << >> /\ UNCHANGED <<managed, ready>>
          /\ Head(ops).kind \in {"put", "pair", "deleteMonitor", "deleteEvents", "append"}
      BY <1>6 DEF RunPut, RunDeleteMonitor, RunDeleteEvents, RunAppend, Runs, sessionVars
    <3>2. bumped => bumped'
      BY <1>6, Zenon DEF RunPut, RunDeleteMonitor, RunDeleteEvents, RunAppend, Bump
    <3> QED
      BY <3>1, <3>2
  <2>2. Tail(ops) \in Seq(OpType)
    BY <1>1, <2>1, QueueTail DEF QueueInv
  <2>3. ops' = Tail(ops) \/ ops' = Append(Tail(ops), Op("deleteEvents", Subject))
    BY <1>6 DEF RunPut, RunDeleteMonitor, RunDeleteEvents, RunAppend
  <2>4. /\ Refreshing(ops) => Refreshing(Tail(ops))
        /\ Unread(ops) => Unread(Tail(ops))
        /\ \A n : Purging(ops, n) => Purging(Tail(ops), n) \/ Head(ops) = Op("deleteEvents", n)
    BY <1>1, <2>1, DueAfterHead DEF Starts, Resyncs
  <2>5. /\ Refreshing(ops) => Refreshing(ops')
        /\ Unread(ops) => Unread(ops')
        /\ \A n : Purging(ops, n) => Purging(ops', n) \/ Head(ops) = Op("deleteEvents", n)
    <3> HIDE DEF Refreshing, Unread, Purging
    <3> QED
      BY <2>2, <2>3, <2>4, DueBeforeLast
  <2>6. \A n : Head(ops) = Op("deleteEvents", n) => Subject = n /\ Runs("deleteEvents")
    BY <2>1 DEF Op, Subject, Runs
  <2>7. CASE RunPut
    <3>1. /\ rows' = rows \cup {Subject} /\ UNCHANGED logged
          /\ disturbed \subseteq disturbed' /\ ~Runs("deleteEvents")
          /\ Subject \in rows \/ bumped' \/ Subject \in disturbed'
      BY <2>7 DEF RunPut, Runs
    <3> QED
      BY <2>1, <2>5, <2>6, <3>1 DEF MatchInv
  <2>8. CASE RunDeleteMonitor
    <3>1. /\ rows' = rows \ {Subject} /\ UNCHANGED <<logged, disturbed>> /\ ~Runs("deleteEvents")
          /\ ops' = Append(Tail(ops), Op("deleteEvents", Subject))
      BY <2>8 DEF RunDeleteMonitor, Runs
    <3>2. Purging(ops', Subject)
      BY <2>2, <3>1, DueBeforeLast
    <3> QED
      BY <2>1, <2>5, <2>6, <3>1, <3>2 DEF MatchInv
  <2>9. CASE RunDeleteEvents
    <3>1. logged' = logged \ {Subject} /\ UNCHANGED <<rows, disturbed>> /\ bumped' = TRUE
      BY <2>9 DEF RunDeleteEvents, Bump
    <3> QED
      BY <2>1, <2>5, <2>6, <3>1 DEF MatchInv
  <2>10. CASE RunAppend
    <3>1. /\ logged' = logged \cup {Subject} /\ UNCHANGED rows /\ ~Runs("deleteEvents")
          /\ disturbed \subseteq disturbed' /\ (Subject \in rows \/ Subject \in disturbed')
      BY <2>10 DEF RunAppend, Runs
    <3> QED
      BY <2>1, <2>5, <2>6, <3>1 DEF MatchInv
  <2> QED
    BY <1>6, <2>7, <2>8, <2>9, <2>10
<1>7. ASSUME RunSettings
      PROVE  MatchInv'
  <2>1. /\ ops # << >> /\ Head(ops).kind = "settings" /\ ready' = TRUE
        /\ ops' = Append(Tail(ops), Read("first"))
        /\ UNCHANGED <<rows, logged, disturbed, managed, bumped>>
    BY <1>7 DEF RunSettings, Runs, storeVars, sessionVars
  <2>2. Tail(ops) \in Seq(OpType)
    BY <1>1, <2>1, QueueTail DEF QueueInv
  <2>3. Refreshing(ops')
    BY <2>1, <2>2, DueBeforeLast DEF Read, Op, Starts
  <2>4. \A n : Purging(ops, n) => Purging(Tail(ops), n)
    BY <1>1, <2>1, DueAfterHead DEF Op
  <2>5. \A n : Purging(ops, n) => Purging(ops', n)
    <3> HIDE DEF Purging
    <3> QED
      BY <2>1, <2>2, <2>4, DueBeforeLast
  <2> QED
    BY <2>1, <2>3, <2>5 DEF MatchInv
\* The sessions are taken from the store.
<1>8. ASSUME ops # << >>, ops' = Tail(ops), Head(ops).kind \in {"first", "resync"},
             UNCHANGED <<rows, logged, disturbed, ready, bumped>>,
             \/ \A m \in Monitor : managed'[m] # NoSession <=> m \in rows
             \/ managed' = managed /\ Resyncs(Head(ops)) /\ Head(ops).cancelled
      PROVE  MatchInv'
  <2>1. /\ Unread(ops) => Unread(ops')
        /\ \A n : Purging(ops, n) => Purging(ops', n)
    BY <1>1, <1>8, DueAfterHead DEF Op
  <2>2. CASE \A m \in Monitor : managed'[m] # NoSession <=> m \in rows
    BY <1>8, <2>1, <2>2 DEF MatchInv
  <2>3. CASE managed' = managed /\ Resyncs(Head(ops)) /\ Head(ops).cancelled
    <3>1. Refreshing(ops) => Refreshing(ops')
      BY <1>1, <1>8, <2>3, DueAfterHead DEF Starts, Resyncs
    <3> QED
      BY <1>8, <2>1, <2>3, <3>1 DEF MatchInv
  <2> QED
    BY <1>8, <2>2, <2>3
<1>9. NewSession # NoSession
  <2>1. NewSession \in Session
    BY ParentSessionsAssumption DEF NewSession, Session
  <2> QED
    BY <2>1, NoSessionAssumption
<1>10. CASE RunFirst
  <2>1. /\ ops # << >> /\ Head(ops).kind = "first" /\ ops' = Tail(ops)
        /\ managed' = [m \in Monitor |-> IF m \in rows THEN NewSession ELSE managed[m]]
        /\ UNCHANGED <<rows, logged, disturbed, ready, bumped>>
    BY <1>10 DEF RunFirst, Runs, StartSessions, storeVars
  <2>2. Running(managed) = {}
    BY <1>1, <2>1, QueueTail DEF QueueInv, Started, Starts
  <2>3. \A m \in Monitor : managed'[m] # NoSession <=> m \in rows
    BY <1>9, <2>1, <2>2 DEF Running
  <2> QED
    BY <1>8, <2>1, <2>3
<1>11. CASE RunResync
  <2>1. /\ ops # << >> /\ Head(ops).kind = "resync" /\ ops' = Tail(ops)
        /\ UNCHANGED <<rows, logged, disturbed, ready, bumped>>
    BY <1>11 DEF RunResync, Runs, storeVars
  <2>2. CASE Head(ops).cancelled
    BY <1>8, <1>11, <2>1, <2>2 DEF RunResync, sessionVars, Resyncs
  <2>3. CASE ~Head(ops).cancelled
    <3>1. managed' = [m \in Monitor |->
                        IF m \in rows \ Running(managed) THEN NewSession
                        ELSE IF m \in Running(managed) \ rows THEN NoSession ELSE managed[m]]
      BY <1>11, <2>3 DEF RunResync, StartSessions, StopSessions, Missing
    <3>2. \A m \in Monitor : managed'[m] # NoSession <=> m \in rows
      BY <1>9, <3>1 DEF Running
    <3> QED
      BY <1>8, <2>1, <3>2
  <2> QED
    BY <2>2, <2>3
<1>12. CASE RevisionEffect
  <2> DEFINE cancelled == [i \in DOMAIN ops |->
                             [ops[i] EXCEPT !.cancelled = @ \/ ops[i].kind = "resync"]]
  <2>1. /\ bumped' = FALSE /\ UNCHANGED <<rows, logged, disturbed, managed, ready>>
        /\ ops' = IF ready THEN Append(cancelled, Read("resync")) ELSE cancelled
    BY <1>12 DEF RevisionEffect, storeVars, sessionVars
  <2>2. /\ cancelled \in Seq(OpType) /\ Len(cancelled) = Len(ops)
        /\ \A i \in 1..Len(ops) : cancelled[i].kind = ops[i].kind
        /\ \A i \in 1..Len(ops) : \A n : ops[i] = Op("deleteEvents", n) => cancelled[i] = ops[i]
    BY <1>1, Cancelled
  <2> HIDE DEF cancelled
  <2>3. /\ Unread(ops) => Unread(cancelled) /\ Refreshing(cancelled)
        /\ \A n : Purging(ops, n) => Purging(cancelled, n)
    BY <2>2 DEF Unread, Refreshing, Starts, Purging
  <2>4. CASE ready
    <3>1. /\ Refreshing(ops')
          /\ \A n : Purging(ops, n) => Purging(ops', n)
      <4> HIDE DEF Purging
      <4> QED
        BY <2>1, <2>2, <2>3, <2>4, DueBeforeLast DEF Read, Op, Resyncs
    <3> QED
      BY <2>1, <2>4, <3>1 DEF MatchInv
  <2>5. CASE ~ready
    BY <2>1, <2>3, <2>5 DEF MatchInv
  <2> QED
    BY <2>4, <2>5
<1>13. CASE Restart
  <2>1. /\ disturbed' = disturbed \cup {m \in Monitor : \E i \in DOMAIN ops :
                                          ops[i] = Op("deleteEvents", m)}
        /\ ops' = <<Read("settings")>> /\ UNCHANGED <<rows, logged>>
    BY <1>13 DEF Restart
  <2>2. \A m \in Monitor \ disturbed' : m \notin disturbed /\ ~Purging(ops, m)
    <3> HIDE DEF OpType
    <3> QED
      BY <1>1, <2>1 DEF Purging
  <2>3. Unread(ops') /\ Refreshing(ops')
    BY <2>1 DEF Unread, Refreshing, Starts, Read, Op
  <2> QED
    BY <2>1, <2>2, <2>3 DEF MatchInv
<1>14. CASE UNCHANGED vars
  BY <1>2, <1>14 DEF vars, storeVars, sessionVars
<1>15. CASE MonitorScreenRecords \/ MonitorScreenCloses
  BY <1>2, <1>15 DEF MonitorScreenRecords, MonitorScreenCloses
<1> QED
  BY <1>4, <1>5, <1>6, <1>7, <1>10, <1>11, <1>12, <1>13, <1>14, <1>15, ParentSessionsAssumption
  DEF Next, RunStatement

-----------------------------------------------------------------------------
(* The theorems.                                                           *)

\* All parts of the invariant always hold.
THEOREM SessionsInvariant == Spec => []SessionsInv
<1>1. Init => SessionsInv
  <2> SUFFICES ASSUME Init PROVE SessionsInv
    OBVIOUS
  <2>1. QueueInv
    BY QueueInit
  <2>2. StoreTypes /\ EverySessionIsManaged
    BY ParentSessionsAssumption DEF Init, StoreTypes, EverySessionIsManaged
  <2>3. managed = [m \in Monitor |-> NoSession] /\ foreground = Foreground(Stopped)
    BY DEF Init
  <2>4. Running(managed) = {}
    BY <2>3, NoSessions
  <2>5. SessionInv
    BY <2>3, <2>4, JustPosted DEF SessionInv, Due
  <2> QED
    BY <2>1, <2>2, <2>5 DEF SessionsInv
<1>2. SessionsInv /\ [Next]_vars => SessionsInv'
  BY StoreStep, SessionStep, QueueStep DEF SessionsInv
<1> QED
  BY <1>1, <1>2, PTL DEF Spec

\* The state of the provider and its store keeps its types.
THEOREM SessionsTypeOK == Spec => []TypeOK
<1>1. ASSUME SessionsInv
      PROVE  TypeOK
  BY <1>1 DEF SessionsInv, TypeOK, QueueInv, StoreTypes, SessionInv, Posted, EverySessionIsManaged
<1> QED
  BY <1>1, SessionsInvariant, PTL

\* No monitor ever gets a second session beside its first: no session is lost
\* from the map while it runs.
THEOREM SessionsEverySessionIsManaged == Spec => []EverySessionIsManaged
<1>1. SessionsInv => EverySessionIsManaged
  BY DEF SessionsInv
<1> QED
  BY <1>1, SessionsInvariant, PTL

\* A released push-to-talk button means a silent microphone, but for one that
\* was granted after the release, and for the first stream of two calls that
\* awaited the microphone at once.
THEOREM SessionsReleasedIsSilent == Spec => []ReleasedIsSilent
<1>1. SessionsInv => ReleasedIsSilent
  BY DEF SessionsInv, SessionInv, ReleasedIsSilent, Sound, Quiet, Overlaps
<1> QED
  BY <1>1, SessionsInvariant, PTL

\* The foreground service always fits the sessions there are, unless the Monitor
\* screen wrote to it last.
THEOREM SessionsServiceMatches == Spec => []ServiceMatchesSessions
<1>1. ASSUME SessionsInv
      PROVE  ServiceMatchesSessions
  <2> SUFFICES ASSUME ~foreground.foreign PROVE ServiceMatchesSessions
    BY DEF ServiceMatchesSessions
  <2> DEFINE live == Running(managed)
  <2>1. foreground.shown = Due(managed)
    BY <1>1 DEF SessionsInv, SessionInv, Posted
  <2>2. CASE live = {}
    <3>1. {m \in live : managed[m].connected} = {} /\ Cardinality({}) = 0
      BY <2>2, FS_EmptySet
    <3> QED
      BY <2>1, <2>2, <3>1 DEF Due, Stopped, Summary, ServiceMatchesSessions
  <2>3. CASE live # {}
    BY <2>1, <2>3 DEF Due, Service, Displayed, Summary, ServiceMatchesSessions
  <2> QED
    BY <2>2, <2>3
<1> QED
  BY <1>1, SessionsInvariant, PTL

\* Wherever the sessions differ from the stored monitors, or a removed monitor
\* has events, a statement on its way will put that right: the first list, a
\* list of a revision that is still current, or the second half of a removal.
THEOREM SessionsMatchInvariant == Spec => []MatchInv
<1>1. Init => MatchInv
  <2> SUFFICES ASSUME Init PROVE MatchInv
    OBVIOUS
  <2>1. ops = <<Read("settings")>> /\ logged = {}
    BY DEF Init
  <2>2. Unread(ops) /\ Refreshing(ops)
    BY <2>1 DEF Unread, Refreshing, Starts, Read, Op
  <2> QED
    BY <2>1, <2>2 DEF MatchInv
<1>2. SessionsInv /\ MatchInv /\ [Next]_vars => MatchInv'
  BY MatchStep DEF SessionsInv
<1> QED
  BY <1>1, <1>2, SessionsInvariant, PTL DEF Spec

\* Once every statement has run and every effect with it, the sessions are
\* those of the stored monitors and no removed monitor has events, but for the
\* monitors written to after their row was deleted and for removals cut in half
\* by a kill: whatever the order of pairings, removals, cancelled effects.
THEOREM SessionsSettledMatchStore == Spec => []SettledSessionsMatchStore
<1>1. ASSUME MatchInv
      PROVE  SettledSessionsMatchStore
  <2>1. ops = << >> => ~Refreshing(ops) /\ \A m : ~Purging(ops, m)
    BY DEF Refreshing, Purging
  <2> QED
    BY <1>1, <2>1 DEF MatchInv, SettledSessionsMatchStore, Settled
<1> QED
  BY <1>1, SessionsMatchInvariant, PTL
=============================================================================
