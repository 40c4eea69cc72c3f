--------------------------- MODULE ParentSessions ---------------------------
(***************************************************************************)
(* The sessions of the parent app against its store: the effects of        *)
(* ParentSessionsProvider (src/ParentSessionsContext.tsx) that start and   *)
(* stop a ParentSession per paired monitor, push-to-talk and the           *)
(* foreground service, which they share with each other and with the       *)
(* Monitor screen, the screens that pair and remove monitors, and the      *)
(* statements of SqliteStore they run.                                     *)
(*                                                                         *)
(* Every call of the store is a promise: the database runs statements in   *)
(* the order they were issued, one at a time, and whatever a caller does   *)
(* after its await is in the step of the statement.  The app may be killed *)
(* at any time.                                                            *)
(***************************************************************************)
EXTENDS Integers, Sequences, FiniteSets

CONSTANTS
  Monitor,      \* ids of paired monitors; each is generated once
  Talker,       \* the monitors whose push-to-talk button is followed
  NoSession,
  MaxChanges,   \* bound on the writes, presses, Monitor screens and kills of a behaviour
  MaxCalls      \* bound on the startTalking calls of one session in flight

ASSUME ParentSessionsAssumption ==
  /\ IsFiniteSet(Monitor) /\ Talker \subseteq Monitor
  /\ MaxChanges \in Nat
  /\ MaxCalls \in Nat \ {0}

VARIABLES
  rows,        \* monitors with a row in the store
  logged,      \* monitors with events in the store
  ops,         \* statements issued and not yet run, oldest first
  generated,   \* monitors paired so far
  ready,       \* deviceIdRef and relayUrlRef are set
  bumped,      \* the revision changed and its effect has not run yet
  managed,     \* managedRef
  unmanaged,   \* sessions that were replaced in managedRef and never stopped
  foreground,  \* the foreground service, as the provider and the Monitor screen left it
  changes,
  disturbed    \* history: written after their row was deleted, or half removed when killed

storeVars == <<rows, logged, generated, changes, disturbed>>
sessionVars == <<managed, unmanaged, foreground>>
vars == <<storeVars, sessionVars, ops, ready, bumped>>

\* A statement and the monitor it is about; cancelled is the effect's flag.
Op(kind, m) == [kind |-> kind, monitor |-> m, cancelled |-> FALSE]
Read(kind) == Op(kind, NoSession)

\* A session: connectionState is 'connected'; the talk button is held; the
\* state shown; the microphone of talkStream; another stream, which talkStream no
\* longer is, was left on; startTalking calls that await the microphone, and that
\* await their offer; late: history, the microphone was granted when the button
\* had been released, and it was not released again since; overlapped: history,
\* two calls awaited the microphone at once.
Session == [connected : BOOLEAN, held : BOOLEAN, talking : BOOLEAN,
            mic : {"none", "off", "on"}, stray : BOOLEAN,
            asking : 0..MaxCalls, offering : 0..MaxCalls,
            late : BOOLEAN, overlapped : BOOLEAN]

ASSUME NoSessionAssumption == NoSession \notin Session

NewSession == [connected |-> FALSE, held |-> FALSE, talking |-> FALSE,
               mic |-> "none", stray |-> FALSE, asking |-> 0, offering |-> 0,
               late |-> FALSE, overlapped |-> FALSE]

Running(sessions) == {m \in Monitor : sessions[m] # NoSession}

-----------------------------------------------------------------------------
(* The foreground service.                                                 *)

\* describeConnectionStates: the counts its words tell apart.
Summary(connected, all) == [connected |-> Cardinality(connected), total |-> Cardinality(all)]

\* stopForegroundSession.
Stopped == [running |-> FALSE, media |-> FALSE, mic |-> FALSE, body |-> Summary({}, {})]

\* startForegroundSession: what it displays replaces all it displayed before.
Displayed(media, mic, body) == [running |-> TRUE, media |-> media, mic |-> mic, body |-> body]

\* What the provider displays for these sessions: the complete set of types, and
\* the summary.
Service(sessions) ==
  LET live == Running(sessions)
  IN  Displayed(TRUE, \E m \in live : sessions[m].talking,
                Summary({m \in live : sessions[m].connected}, live))

\* The service as it is shown, what the provider last displayed (its
\* lastForegroundKeyRef; Stopped for null), and whether the Monitor screen wrote
\* to it since: history.
Foreground(shown) == [shown |-> shown, key |-> shown, foreign |-> FALSE]

\* A mutant: the key outlives the service.
Recomputed_KeyStays(old, sessions) ==
  IF Running(sessions) = {} THEN [old EXCEPT !.shown = Stopped, !.foreign = FALSE]
  ELSE IF Service(sessions) = old.key THEN old
  ELSE Foreground(Service(sessions))

\* recomputeForegroundService: nothing is displayed that has the key of what was
\* displayed last.
Recomputed(old, sessions) ==
  IF Running(sessions) = {} THEN Foreground(Stopped)
  ELSE IF Service(sessions) = old.key THEN old
  ELSE Foreground(Service(sessions))

\* The service after the sessions went from one map to another, or nothing was
\* done to them.
Follows(service, from, to) == IF to = from THEN service ELSE Recomputed(service, to)

\* managedRef becomes sessions, and the service follows.
Manage(sessions) ==
  /\ managed' = sessions
  /\ foreground' = Follows(foreground, managed, sessions)

Change(m, session) ==
  /\ Manage([managed EXCEPT ![m] = session])
  /\ UNCHANGED unmanaged

Init ==
  /\ rows \in SUBSET Monitor
  /\ logged = {}
  /\ ops = <<Read("settings")>>
  /\ generated = rows
  /\ ready = FALSE
  /\ bumped = FALSE
  /\ managed = [m \in Monitor |-> NoSession]
  /\ unmanaged = {}
  /\ foreground = Foreground(Stopped)
  /\ changes = 0
  /\ disturbed = {}

-----------------------------------------------------------------------------
(* What issues statements.                                                 *)

Issue(op) == ops' = Append(ops, op)
Changes == changes < MaxChanges /\ changes' = changes + 1
Writes(op) == Changes /\ Issue(op)

\* The revision changes: the revision effect is due.
Bump == bumped' = TRUE

\* AddMonitor's pairWith: a fresh id, stored and announced.
Pair(m) ==
  /\ m \notin generated
  /\ generated' = generated \cup {m}
  /\ Writes(Op("pair", m))
  /\ UNCHANGED <<rows, logged, disturbed, sessionVars, ready, bumped>>

\* Home's removeMonitor, confirmed.
Remove(m) ==
  /\ m \in rows
  /\ Writes(Op("deleteMonitor", m))
  /\ UNCHANGED <<rows, logged, generated, disturbed, sessionVars, ready, bumped>>

\* A room resolved, a name announced, the monitor muted or renamed on its own
\* screen: the whole row as the session remembers it is put back.
PutMonitor(m) ==
  /\ managed[m] # NoSession
  /\ Writes(Op("put", m))
  /\ UNCHANGED <<rows, logged, generated, disturbed, sessionVars, ready, bumped>>

\* renameMonitor: nothing happens to a monitor without a session.
RenameMonitor(m) == IF managed[m] = NoSession THEN UNCHANGED ops ELSE Issue(Op("put", m))

\* Home's saveRename, of a monitor in the list as Home last read it; the bump
\* comes whether or not anything was renamed, and before it is written.
SaveRename(m) ==
  /\ m \in rows \cup Running(managed)
  /\ Changes
  /\ RenameMonitor(m)
  /\ Bump
  /\ UNCHANGED <<rows, logged, generated, disturbed, sessionVars, ready>>

\* logEvent: a lost connection or a cry.
LogEvent(m) ==
  /\ managed[m] # NoSession
  /\ Writes(Op("append", m))
  /\ UNCHANGED <<rows, logged, generated, disturbed, sessionVars, ready, bumped>>

\* The revision effect: the one before it is cancelled, the list read again.
RevisionEffect ==
  /\ bumped
  /\ bumped' = FALSE
  /\ LET cancelled == [i \in DOMAIN ops |->
                         [ops[i] EXCEPT !.cancelled = @ \/ ops[i].kind = "resync"]]
     IN  ops' = IF ready THEN Append(cancelled, Read("resync")) ELSE cancelled
  /\ UNCHANGED <<storeVars, sessionVars, ready>>

-----------------------------------------------------------------------------
(* What the statements do.                                                 *)

Runs(kind) == ops # <<>> /\ Head(ops).kind = kind
Subject == Head(ops).monitor

\* startSession for each of these monitors: a session already in the map is
\* replaced, not stopped.
StartSessions(sessions, new) ==
  /\ unmanaged' = unmanaged \cup (new \cap Running(sessions))
  /\ managed' = [m \in Monitor |-> IF m \in new THEN NewSession ELSE sessions[m]]
  /\ foreground' = Follows(Follows(foreground, managed, sessions), sessions, managed')

\* stopSession for each monitor that is gone.
StopSessions(gone) == [m \in Monitor |-> IF m \in gone THEN NoSession ELSE managed[m]]

\* addMonitor: an upsert.  After pairWith's await it bumps.
RunPut ==
  /\ Runs("put") \/ Runs("pair")
  /\ rows' = rows \cup {Subject}
  /\ bumped' = (bumped \/ Runs("pair"))
  /\ disturbed' = IF Runs("put") /\ Subject \notin rows THEN disturbed \cup {Subject}
                                                         ELSE disturbed
  /\ ops' = Tail(ops)
  /\ UNCHANGED <<logged, generated, changes, sessionVars, ready>>

\* removeMonitor, its first statement; the second is issued after it.
RunDeleteMonitor ==
  /\ Runs("deleteMonitor")
  /\ rows' = rows \ {Subject}
  /\ ops' = Append(Tail(ops), Op("deleteEvents", Subject))
  /\ UNCHANGED <<logged, generated, changes, disturbed, sessionVars, ready, bumped>>

\* A mutant: removeMonitor is not followed by a bump.
RunDeleteEvents_NoBump ==
  /\ Runs("deleteEvents")
  /\ logged' = logged \ {Subject}
  /\ ops' = Tail(ops)
  /\ UNCHANGED <<rows, generated, changes, disturbed, sessionVars, ready, bumped>>

\* removeMonitor, its second statement, and the bump.
RunDeleteEvents ==
  /\ Runs("deleteEvents")
  /\ logged' = logged \ {Subject}
  /\ Bump
  /\ ops' = Tail(ops)
  /\ UNCHANGED <<rows, generated, changes, disturbed, sessionVars, ready>>

\* appendEvent: nothing asks whether the monitor is still there.
RunAppend ==
  /\ Runs("append")
  /\ logged' = logged \cup {Subject}
  /\ disturbed' = IF Subject \in rows THEN disturbed ELSE disturbed \cup {Subject}
  /\ ops' = Tail(ops)
  /\ UNCHANGED <<rows, generated, changes, sessionVars, ready, bumped>>

\* The first effect: device id and relay URL are known, the list is read.
RunSettings ==
  /\ Runs("settings")
  /\ ready' = TRUE
  /\ ops' = Append(Tail(ops), Read("first"))
  /\ UNCHANGED <<storeVars, sessionVars, bumped>>

\* The first effect starts a session for every monitor it read.
RunFirst ==
  /\ Runs("first")
  /\ StartSessions(managed, rows)
  /\ ops' = Tail(ops)
  /\ UNCHANGED <<storeVars, ready, bumped>>

\* A mutant: the sessions that run are not left out.
Missing_Unchecked == rows

\* A mutant: only monitors never seen before get a session.
Missing_IfFirst == IF Running(managed) = {} THEN rows ELSE {}

\* The monitors the revision effect starts: those without a session.
Missing == rows \ Running(managed)

\* The revision effect, unless a later one cancelled it.
RunResync ==
  /\ Runs("resync")
  /\ IF Head(ops).cancelled
     THEN UNCHANGED sessionVars
     ELSE StartSessions(StopSessions(Running(managed) \ rows), Missing)
  /\ ops' = Tail(ops)
  /\ UNCHANGED <<storeVars, ready, bumped>>

RunStatement == RunPut \/ RunDeleteMonitor \/ RunDeleteEvents \/ RunAppend
                \/ RunSettings \/ RunFirst \/ RunResync

-----------------------------------------------------------------------------
(* What the sessions do.                                                   *)

\* onConnectionStateChange, onError and a failed start: connected or not.
Reports(m, connected) ==
  /\ managed[m] # NoSession
  /\ managed[m].connected # connected
  /\ Change(m, [managed[m] EXCEPT !.connected = connected])
  /\ UNCHANGED <<storeVars, ops, ready, bumped>>

\* startTalking up to its first await: a call that finds no stream asks for the
\* microphone, a later one enables the track.
StartTalking(session) ==
  IF session.mic = "none" THEN [session EXCEPT !.asking = @ + 1,
                                               !.overlapped = @ \/ session.asking > 0]
                          ELSE [session EXCEPT !.mic = "on", !.talking = TRUE]

\* stopTalking: the stream that talkStream is now.
StopTalking(session) ==
  [session EXCEPT !.talking = FALSE, !.mic = IF @ = "on" THEN "off" ELSE @]

\* toggleTalk on press.
Press(m) ==
  /\ managed[m] # NoSession
  /\ ~managed[m].held
  /\ managed[m].mic = "none" => managed[m].asking + managed[m].offering < MaxCalls
  /\ Changes
  /\ Change(m, StartTalking([managed[m] EXCEPT !.held = TRUE]))
  /\ UNCHANGED <<rows, logged, generated, disturbed, ops, ready, bumped>>

\* A mutant: a release stops only what is shown to talk.
Release_IfTalking(m) ==
  /\ managed[m] # NoSession
  /\ managed[m].held
  /\ Change(m, [managed[m] EXCEPT !.held = FALSE, !.talking = FALSE, !.late = FALSE,
                   !.mic = IF @ = "on" /\ managed[m].talking THEN "off" ELSE @])
  /\ UNCHANGED <<storeVars, ops, ready, bumped>>

\* toggleTalk on release.
Release(m) ==
  /\ managed[m] # NoSession
  /\ managed[m].held
  /\ Change(m, StopTalking([managed[m] EXCEPT !.held = FALSE, !.late = FALSE]))
  /\ UNCHANGED <<storeVars, ops, ready, bumped>>

\* getUserMedia resolves: its stream becomes talkStream, in place of one that
\* another call was granted, its track is on, and an offer is made for it; or it
\* rejects.
Granted(m, yes) ==
  /\ managed[m] # NoSession
  /\ managed[m].asking > 0
  /\ LET asked == [managed[m] EXCEPT !.asking = @ - 1]
     IN  Change(m, IF yes THEN [asked EXCEPT !.offering = @ + 1, !.mic = "on",
                                             !.stray = @ \/ asked.mic = "on",
                                             !.late = @ \/ ~asked.held]
                          ELSE asked)
  /\ UNCHANGED <<storeVars, ops, ready, bumped>>

\* startTalking returns and the state says talking; or it threw.
Offered(m, yes) ==
  /\ managed[m] # NoSession
  /\ managed[m].offering > 0
  /\ Change(m, [managed[m] EXCEPT !.offering = @ - 1, !.talking = @ \/ yes])
  /\ UNCHANGED <<storeVars, ops, ready, bumped>>

\* The Monitor screen, its microphone recording: it displays the same service, for
\* the microphone alone.
MonitorScreenRecords ==
  /\ Changes
  /\ foreground' = [foreground EXCEPT !.shown = Displayed(FALSE, TRUE, Summary({}, {})),
                                      !.foreign = TRUE]
  /\ UNCHANGED <<rows, logged, generated, disturbed, managed, unmanaged, ops, ready, bumped>>

\* The Monitor screen is left: it stops the service, whether or not it recorded.
MonitorScreenCloses ==
  /\ Changes
  /\ foreground' = [foreground EXCEPT !.shown = Stopped, !.foreign = TRUE]
  /\ UNCHANGED <<rows, logged, generated, disturbed, managed, unmanaged, ops, ready, bumped>>

\* The app is killed and opened again: what was not written is lost.
Restart ==
  /\ Changes
  /\ disturbed' = disturbed \cup {m \in Monitor : \E i \in DOMAIN ops :
                                    ops[i] = Op("deleteEvents", m)}
  /\ ops' = <<Read("settings")>>
  /\ ready' = FALSE
  /\ bumped' = FALSE
  /\ managed' = [m \in Monitor |-> NoSession]
  /\ foreground' = Foreground(Stopped)
  /\ UNCHANGED <<rows, logged, generated, unmanaged>>

Next ==
  \/ \E m \in Monitor :
       \/ Pair(m)
       \/ Remove(m)
       \/ PutMonitor(m)
       \/ SaveRename(m)
       \/ LogEvent(m)
       \/ \E connected \in BOOLEAN : Reports(m, connected)
  \/ RevisionEffect
  \/ RunStatement
  \/ \E m \in Talker :
       \/ Press(m)
       \/ Release(m)
       \/ \E yes \in BOOLEAN : Granted(m, yes) \/ Offered(m, yes)
  \/ MonitorScreenRecords
  \/ MonitorScreenCloses
  \/ Restart

\* The database runs what it is given, and React runs the effects.
Fairness == WF_vars(RunStatement) /\ WF_vars(RevisionEffect)

Spec == Init /\ [][Next]_vars /\ Fairness

-----------------------------------------------------------------------------
(* Properties.                                                             *)

OpType ==
  [kind : {"pair", "put", "deleteMonitor", "deleteEvents", "append"}, monitor : Monitor,
   cancelled : {FALSE}]
    \cup [kind : {"settings", "first", "resync"}, monitor : {NoSession}, cancelled : BOOLEAN]

\* What the service may be asked for.
ServiceType ==
  [running : BOOLEAN, media : BOOLEAN, mic : BOOLEAN,
   body : [connected : 0..Cardinality(Monitor), total : 0..Cardinality(Monitor)]]

\* Every variable keeps its type; no more calls than the bound are in flight.
TypeOK ==
  /\ rows \subseteq Monitor /\ logged \subseteq Monitor /\ generated \subseteq Monitor
  /\ unmanaged \subseteq Monitor /\ disturbed \subseteq Monitor
  /\ ops \in Seq(OpType)
  /\ ready \in BOOLEAN /\ bumped \in BOOLEAN
  /\ managed \in [Monitor -> Session \cup {NoSession}]
  /\ foreground \in [shown : ServiceType, key : ServiceType, foreign : BOOLEAN]
  /\ changes \in 0..MaxChanges

\* Unless the Monitor screen was the last to write to it, the foreground service
\* runs when some session does, asks for the microphone exactly when some session
\* says it is talking, and counts what is connected; although nothing is displayed
\* twice in a row (the doc of ParentSessionsProvider: piecemeal updates crashed
\* real devices).  What the Monitor screen leaves stays until the provider has
\* something else to display.
ServiceMatchesSessions ==
  LET live == Running(managed)
      service == foreground.shown
  IN  ~foreground.foreign =>
        /\ service.running <=> live # {}
        /\ service.media <=> live # {}
        /\ service.mic <=> \E m \in live : managed[m].talking
        /\ service.body.total = Cardinality(live)
        /\ service.body.connected = Cardinality({m \in live : managed[m].connected})

\* The first effect and the revision effect never both start a session for one
\* monitor: no session is overwritten in the map and left running, unstopped.
EverySessionIsManaged == unmanaged = {}

\* Nothing is on its way between the store and the sessions.
Settled == ops = <<>> /\ ~bumped

\* Once removals, pairings and effects have run their course, in whatever
\* order, the sessions are those of the stored monitors, and a monitor that is
\* gone left neither a session nor events.  Excepted are monitors that their
\* own session wrote to after the row was deleted, and removals cut in half.
SettledSessionsMatchStore ==
  Settled => \A m \in Monitor \ disturbed :
               /\ managed[m] # NoSession <=> m \in rows
               /\ m \in logged => m \in rows

\* A stored monitor gets its session, also across kills and cancelled effects.
PairedGetsSession ==
  \A m \in Monitor : (m \in rows) ~> (managed[m] # NoSession \/ m \notin rows \/ m \in disturbed)

\* A released button means a silent microphone ("Release to stop talking"),
\* whatever the calls of startTalking still await: the stream that is talkStream is
\* off, unless it was granted after the release, and the code switched it on all
\* the same; and no other stream was left on, where nothing can silence it, unless
\* two calls awaited the microphone at once.
ReleasedIsSilent ==
  \A m \in Running(managed) :
    /\ managed[m].mic = "on" => managed[m].held \/ managed[m].late
    /\ managed[m].stray => managed[m].overlapped
=============================================================================
