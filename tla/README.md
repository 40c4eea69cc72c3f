# A TLA+ verification of wewe

wewe is a baby monitor. A *Monitor* (a phone running the app, or an ESP32
running the firmware) sends audio over WebRTC to any number of *Parents*. A
small relay introduces them; it carries signalling only. This directory models
the control logic of these programs, model-checks it with TLC, and proves
invariants of it with TLAPS. Paths below are relative to the repository root.

## 1. The system

| Component | State it keeps | Operations | Speaks to |
|---|---|---|---|
| Relay, `signal-server/src/server.ts` | rooms with one Monitor and Parents by deviceId, room timeouts, aliases with timeouts, superseded sockets, join budget per address | `join`, `signal`, `set-alias`, socket close, three kinds of timeout | clients, over WebSocket |
| SignalingClient, `src/webrtc/signalingClient.ts`, `src/domain/backoff.ts` | current socket, retry timeout, backoff, the room to rejoin | `connect`, socket callbacks, `sendSignal`, `setAlias`, `close` | relay; its session, by callbacks |
| MonitorSession, `src/webrtc/monitorSession.ts`, `src/domain/inviteMode.ts` | peer connections, pairing code and its timeout, invite-mode holders, Listen override, gate verdict | `start`, `rearmInvite`, `closeLocalInvite`, `setGateOpen`, `renameSelf`, `stop`; relay and peer-connection events | SignalingClient, store, Parents |
| ParentSession, `src/webrtc/parentSession.ts`, `peerConnectionHelpers.ts` | one peer connection, queued ICE candidates, talk stream | `start`, `stop`, `startTalking`, `stopTalking`, requests to the Monitor | SignalingClient, Monitor |
| ParentSessionsProvider, `src/ParentSessionsContext.tsx` with `connectWatchdog`, `cryAlert`, `disconnectBeep` | a session per paired monitor, its watchdog, classifier and Listen timeout | effects on mount and on a change of the list, a poll every half second, talk, listen, invite, mute, rename | ParentSession, store, notifications |
| NoiseGate, CryAlertClassifier, `src/domain/` | noise floor, streaks, whether an alert was raised | `push`, `reset` | Monitor screen, provider |
| Store, `src/storage/SqliteStore.ts` | monitors, events, settings, authorized listeners | upserts, removals, queries | everything in the app |
| Firmware, `firmware/wewe_monitor/` | listener slots, invite mode, Listen flag, NVS list of listeners, websocket client and its alias | websocket, pump, audio and timer tasks, main loop | relay, Parents, touch screen |
| Screens, platform services, storage adapters | - | rendering and I/O | partly modelled, as inputs |

The parts interact in three ways. Over the relay, messages of one connection
keep their order, but connections come and go in any order, and a socket's
close event may trail what its client does next. Inside the app everything runs
on one JavaScript thread: a callback runs to its next `await`, and whatever
else is due runs between two such stretches. In the firmware several tasks
share one global state without locks.

What is hard: the order of close events against rejoins, timeouts against
re-arms and early expiries, steps of one call separated by awaits, connections
that are replaced under a call, sessions that end or restart between two steps,
statements of the database racing effects and callbacks, and messages that are
lost with a socket. `PROJECT.json` lists these hazards at the lines where they
bite, each with the properties that cover it, or with the reason why none does.

## 2. Modules

| Module | Models | State and steps |
|---|---|---|
| `Relay` | the relay | One action per handler path. A connection is a name that may be reused after its close event, so any number come and go. `ws` delivers frames until the close event and drops what is sent to a socket that is not open: `Receiving`, `Tell`. |
| `MCRelay` | its instance for TLC | one address for all sockets, symmetry of sockets and devices |
| `SignalingLink` | what a session may assume of its client: lost, retried, acknowledged, closed | abstract specification, five actions |
| `SignalingClient` | the client and its backoff | one action per callback. The far end of a socket may die unnoticed (`Cut`); its close event comes later, with or without `onerror`. `ImplementsLink` is the refinement to `SignalingLink`. |
| `MonitorSession` | admission and the invite window of the phone Monitor | one action per stretch between awaits; each `handlePeerJoined` in flight is a `Task`; `Unmount` is the cleanup of the Monitor screen, `closeLocalInvite` then `stop`. Its link takes the steps of `SignalingLink`; `ImplementsGate` is the refinement to `InviteGate`. |
| `InviteGate` | what pairing promises of either Monitor: who may be let in, and that nobody else is served | abstract specification of a window, the Parents that passed it, the members and those served |
| `MCMonitorSession` | its instance for TLC | symmetry of devices, codes and tasks |
| `ListenOverride` | Listen, both ends | Monitor and Parents with requests in flight and a timeout at each end |
| `Negotiation` | the WebRTC negotiation of one Monitor and one Parent | the peer connection of each side, the messages between them, and every call in flight at the await it stands at; one action per stretch, `Drop` and `Restart` of either side |
| `ParentSessions` | the provider's sessions against the store, push-to-talk, the foreground service | `ops` is the database's queue of statements; what a caller does after its await is in the step of the statement (`RunPut`, `RunFirst`, `RunResync`, ...). A session has the stream of `talkStream`, calls that await the microphone or their offer, and whether another stream was left on. `foreground` is what the service shows and the key the provider keeps of it; the Monitor screen writes to it past the key. |
| `ConnectionWatch` | watchdog, lost alerts and disconnect beeps of one session | reports of peer connections, error frames, the poll, and the settings reads it starts |
| `CryAlert` | NoiseGate, the track it enables, and the classifier on the Parent | one step per reading of the microphone, one per poll |
| `FirmwareMonitor` | the ESP32 Monitor: slots, invite window, storage, websocket client | one action per access of a task to a shared object; `doing` says where each task stands, so that a stranger is decided on, stored and given a slot in three steps, and `count++` is a load and a store. `ImplementsGate` as in `MonitorSession` |
| `RelayProofs`, `SignalingClientProofs`, `MonitorSessionProofs`, `ListenOverrideProofs`, `NegotiationProofs`, `ParentSessionsProofs`, `FirmwareMonitorProofs` | proofs about the module each is named for | see section 4 |
| `AlertProofs` | proofs about `ConnectionWatch` and `CryAlert`, the two ways a Parent is alerted | see section 4 |

The modules meet where the components do. `SignalingLink` stands between
`SignalingClient`, which implements it, and `MonitorSession`, which is built on
it. `InviteGate` is one promise that the phone and the firmware, which share no
code, both keep. `Negotiation` starts where `MonitorSession` decides to make an offer, and
contains the relay to the extent that it announces, supersedes and forwards
(`Relay`, and its `ViewsMatchRoom`, justify that). The reports of
`ConnectionWatch` are those of the connections that `Negotiation` replaces. The
gate verdicts that enter `ListenOverride` are made in `CryAlert`.

Abstractions worth knowing:

- Time. In `Relay`, `SignalingClient`, `MonitorSession`, `ListenOverride` and
  `FirmwareMonitor` a timeout is a set or a count of pending timeouts, and any
  pending one may fire. That covers every setting of the TTLs, and orders that
  equal or unsynchronised clocks make rare. `ConnectionWatch` counts time in
  units, `CryAlert` in readings; ages stop at a bound beyond which the code
  tells nothing apart.
- Payloads. The relay forwards them unread, so a forwarded frame is a sender
  and a receiver. Codes, rooms and devices are model values. A fresh pairing
  code differs from the one it replaces and from those whose timeout is pending.
- A `send` while a WebSocket is connecting throws. `MonitorSession` follows the
  exception: into the catch of `handlePeerJoined`, or, where no caller catches
  it, out of the app (`Crash`).
- From the sending of a join to its acknowledgement `MonitorSession` counts as
  still connecting; what is sent in between has the same effect as right after.
- `aliased` in `MonitorSession` leaves out the relay's own alias timeout, which
  starts after the Monitor's timeout of the same length. `Relay` has it.
- WebRTC. The library is environment to `Negotiation`: an operation takes
  effect when it resolves, a closed connection rejects them, an offer is refused
  while a local one is pending, and one candidate stands for all of a
  connection. `close()` is taken to fire no event of the connection it closes.
- SQLite. Statements run in the order they were issued, one at a time.
- `CryAlert` leaves open how far a quiet reading moves the noise floor: anywhere
  between the old floor and the reading. Polls and readings interleave freely.
- The relay and the Parents are environment to `FirmwareMonitor`, and so is
  `esp_peer`: it reports a connection up or down at any time. A join may be
  refused, a socket may be dead for long before `g_sig.connected` is false, NVS
  may fail to read or to store, and the build may load the count of holders once
  or twice for one `count++`.
- Left out of `FirmwareMonitor`: who the holders are (a name may or may not be
  found in a list that is not empty, so an expiry takes any number of rounds),
  what a task that reads a holder's name finds there while another moves it, the
  length of the cooldown (`Poll` may come at any time), and whether the invite
  timer is set (it may fire at any time, which contains the timer of a code that
  was replaced). `Listener` slots are written by one task at a time except for
  the mark for teardown.
- In `ParentSessions` a session that was stopped is gone: a stream that is
  granted to it afterwards, or a call of its that returns then, has no one to
  report to. The Parent screen is not left while its button is held.
- Variables and fields named *history* record what happened for a property and
  influence no step.

## 3. What TLC checks

Run a row with `tlc -config <cfg> <module>`.

| Run | Instance | Distinct states | What it shows |
|---|---|---|---|
| `relay` | 3 live connections, 2 room names of which one is a code, 2 devices, 2 joins per window | 287,367 | Nobody is listed in a room it did not join; a lone side is always on a timeout; an alias has exactly its own timeout; what clients were told about each other matches the room; a forwarded signal can be answered. |
| `signaling_client` | 2 socket names, attempts counted to 7 | 8,848 | A client in use has exactly one socket or one retry; a client returns to its room after the code expired; it is joined again when the relay stays reachable; `connect()` settles unless the first socket closes quietly; the client implements `SignalingLink`. |
| `monitor_session` | 2 Parents, 2 codes, 2 calls in flight | 391,353 | Invite mode is open only under a live code that is on a timeout of its own; the session implements `InviteGate`: whoever is let in found a code live, and nobody else is served; the screen shows the live code or none; a live code resolves after every reconnect, if the first connect succeeded. |
| `listen_override` | 2 Parents, 2 requests in flight each | 5,203 | The track follows gate and override; the holder is connected; the timeout is there while it must be; an override ends, unless another Parent's stop cleared its timeout. |
| `negotiation` | one fault, candidates of both sides | 454,029 | Two sides that have settled and think they are connected are connected to each other; candidates wait for the description of their own connection; the talk track is on every connection while the microphone is open; the negotiation completes. |
| `parent_sessions` | 2 monitors, the talk button of one with 2 calls in flight, 4 writes, presses, Monitor screens or kills | 739,451 | The service is what the sessions need, although nothing is displayed twice under one key, unless the Monitor screen wrote to it; no session is lost from the map; once settled, sessions and events are those of stored monitors; a released button is silent, unless calls overlapped or the microphone came late; a stored monitor gets its session. |
| `connection_watch` | timeout 4, threshold 3, repeat 3, 2 reads in flight | 9,066 | "No response" is of the present outage; one alert per lost connection; beeps keep their distances; a connection that stays away is noticed. |
| `firmware_monitor` | 1 Parent, 1 slot, 1 authorization, 2 holders, 1 event on its way, a count that does not fall below 0 | 2,382,754 | Invite mode is open under a live code, or in the middle of a task's turn, or because an update of the count was overwritten, and no stranger is let in otherwise, whatever falls between its decision, its storing and its slot; a live code is registered on a joined socket; somebody is due to reconnect; a condemned slot is found. |
| `cry_alert` | five levels, two of them neighbours enough to be a steady noise and two loud enough to alert at once | 636,738 | The gate closes only on silence or on a steady noise; the noise it closed on does not open it again. |

Why the bounds are enough. `relay`: three connections are a stale one, its
replacement and a counterpart; two devices tell a reconnect from a second
Parent; the shared code name is at once an alias and a literal room name, which
is where resolution can go wrong. `signaling_client`: only one socket is ever
live, and the second name would show a second; the delay reaches its maximum
at the seventh attempt. `monitor_session`: two codes let one be live while the
timeout of the other is still pending; two calls in flight are an earlier and a
later one for the same Parent. `listen_override`: holder and intruder.
`negotiation`: one fault on either side makes a second generation of
connections while calls and messages of the first are under way, and an offer
of push-to-talk may meet both; it is the third generation that is left to the
proofs. `parent_sessions`: a removal and a pairing that leave the summary as it
was, a kill among them, a press, its release and a press again before the
microphone is granted, beside another monitor whose session runs.
`connection_watch`:
the outage can end and start over within one threshold, and more reads than one
return in any order. `firmware_monitor`: what is new there over
`monitor_session` are four tasks in the middle of their updates, and one Parent
is all they need: it is the stranger, the holder and the condemned slot by
turns, NVS fails with a list that is not full, and a second holder lets one
update overwrite another. A full list, a full table of slots and a count below 0
are left to the proofs, which have them. `cry_alert`: the hold times are a few readings, so a streak can begin,
be broken and complete.

The passing runs check for deadlock, except `signaling_client`, `negotiation`
and `parent_sessions`: a closed client stops for good, and within the bounds on
faults and writes there may be nothing left to do.

Every property of these runs has a mutant beside the operator it mutates
(`..._Never`, `..._Unchecked`, ...), a plausible mistake in that code under
which TLC finds the property violated; `PROJECT.json` lists them. Type
invariants are theorems rather than part of the runs.

Fairness. `signaling_client`: a pending retry fires, a reachable relay answers,
and the platform reports a dead connection; the first is a JavaScript timer,
the last is up to the operating system, since neither end sends pings.
Liveness is claimed only if the relay stays reachable from some time on.
`listen_override`: timers that stay armed fire, and requests that stay in
flight arrive. `negotiation`: what the relay forwards is delivered, promises of
WebRTC and the store settle, though not the prompt that asks the user for the
microphone, and both sides rejoin, which `Rejoins` is about.
`parent_sessions`: the database runs what it is given, React runs effects.
`connection_watch`: the interval fires as time passes, and the settings are
read. `firmware_monitor`: tasks are scheduled, the network comes back, a restart
that is tried again and again succeeds, a socket that is dead or refused is
noticed (pings, and the relay closes what it refuses), and so is, by ICE, a
connection whose far end is gone.

### Where the code does not do what it says

Each of these runs checks one statement of the repository, and TLC finds a
behaviour of the code that contradicts it. `PROJECT.json` quotes the statements.

| Run | Statement | What happens |
|---|---|---|
| `listen_stuck` | the timeout ends every override (`monitorSession.ts:45`) | another Parent's stop clears it (`monitorSession.ts:195`) |
| `cry_missed` | one alert per open period of the gate (`cryAlert.ts:10`) | the classifier is not reset when the gate closes (`ParentSessionsContext.tsx:316`): it alerts in silence once and then no more |
| `firmware_announced` | a device with a slot is already connected (`wewe_monitor.cpp:430`) | its slot may await teardown or hold a dead connection, and the Parent gets no offer |

The models contain more behaviours of this kind. The properties except them by
name, and no run is spent on them:

- Relay. A room that expires closes its lone Monitor; if that close event comes
  after the client has rejoined, it removes the new Monitor, and a third socket
  becomes a second one (`server.ts:312`, against `signal-server/README.md:43`).
- Invite window. `expireInvite` forgets the remote holders before it broadcasts,
  so they are not told (`monitorSession.ts:248`, against 252; the firmware has
  the same order, `wewe_monitor.cpp:250`). It forgets a running timeout, which
  later withdraws another code (242, against 73). After a failed first connect
  a live code is not registered again (`signalingClient.ts:119`).
- Joins. The failure of an earlier join closes the connection of a later one
  (`monitorSession.ts:116`, against 61).
- Negotiation. A Parent that reconnects before the relay saw it leave is not
  announced, and gets no offer until something else fails (`superseded`). A
  microphone granted after the connection was replaced stays off the new one
  (`stranded`). An operation that resolves although its connection was closed
  opens the candidate queue of the next one (`late`), and an answer can be
  accepted for an offer it does not answer (`crossed`). Candidates that arrive
  before their offer are dropped with the queue the offer resets.
- Push-to-talk. A microphone granted after the button was released is switched
  on (`late` in `ParentSessions`), and a session stopped while the user is
  asked leaves it open. Press, release and press again before the user has
  answered, and two streams are opened: the second takes the place of the first
  in `talkStream`, so the release silences only the second (`overlapped`;
  `parentSession.ts:110`, 124).
- Foreground service. The provider says its service "is entirely owned here"
  (`ParentSessionsContext.tsx:95`), but the Monitor screen displays the same one
  for the microphone alone (`screens/Monitor.tsx:144`) and stops it when it is
  left (97), although sessions run. The provider's key still says that its own
  display is the last one, so it is not displayed again until its text or its
  types change (`foreign`; `ParentSessionsContext.tsx:133`).
- Watchdog. An error frame shows the session as failed without starting an
  attempt, so a timeout and beeps may follow at once while audio flows
  (`erred`). A beep decided during a read may sound just after the reconnect.
- Store. A callback of a session whose monitor was just removed puts the row
  back, and an event logged then, or a crash between the two deletions, leaves
  events of a monitor that is gone (`disturbed`). `beepsMuted` has no column.
- Relay URL. It is read once per run of the app (`ParentSessionsContext.tsx:273`):
  a first pairing that stores another one connects to the default until restart.
- Gate. A reading equal to the last does not reach the gate
  (`screens/Monitor.tsx:123`), which `ClosesForAReason` allows for.
- Firmware, invite mode. Its updates are "pure local bookkeeping, safe from any
  task" (`wewe_monitor.cpp:521`), but four tasks run `count++` and `count--`
  without a lock: one that loaded the count before an expiry and stores it after
  leaves invite mode open with no code, until the next expiry (`lost`); two that
  take the same holder out leave the count below 0, and then a tap shows a code
  while invite mode is closed, and the next holder is written before the list.
- Firmware, admission. A full list of authorized listeners, or a failure of NVS,
  admits without storing: the result is ignored (`wewe_monitor.cpp:511`). A
  failure to read it makes a stranger of everyone.
- Firmware, signalling. A code tapped before the network is up is wiped by the
  start (`wewe_signaling.c:222`) and never registered, against 160. A tap between
  `connected = true` and the join (152, 153) makes the relay close the socket. A
  failed first start is not tried again before the next boot: the component is
  marked failed, and a poll would find no client (`wewe_monitor.cpp:718`,
  `wewe_signaling.c:249`, 264). Two tasks in `set_alias` may mix their codes
  (`muddled`). A code that expired stays registered and is sent again (162).
- Firmware, the rest. One Listen flag serves all Parents, so anyone's stop ends
  it. The websocket task opens peers, although a comment says that only the pump
  task touches them, and the audio task may find one closed between
  `wewe_monitor.cpp:492` and 494.

## 4. What is proved

Everything below holds for any values of the constants that satisfy the
assumptions: any sets of sockets, names, codes, devices, monitors and calls, any
rate limit, table size, threshold and bound. Each module's argument is an
inductive invariant, a lemma per handler or group of handlers, and temporal
steps last. Every module's `TypeOK` is a theorem on the way.

`RelayProofs` proves `TypeOK`, `NoGhostMembers`, `RoomsAreOccupied` and
`LoneSideIsTimed`, together as `MembershipInv`, because none is inductive alone:
that a close event vacates the right room needs the closing socket to be a
member only where its own record says so (`NoGhostMembers`); that a vacated
room is dropped exactly when it is empty needs the registry to be exact before
(`RoomsAreOccupied`); and re-arming a timeout after a step needs the room it is
re-armed for to exist. `SupersededAreParents` is added for the close handler's
first guard. `AliasLivesOnItsTimer` is inductive beside `TypeOK`: two handlers
touch the aliases, and both move the alias and its timeout together.

`ViewsMatchRoom` needs two more facts, in `ViewsInv`. A connection that has not
joined was told of nobody (`FreshKnowNobody`), so a join starts from a clean
view; and every open Parent is the one its room holds for its deviceId
(`OpenParentsAreSeated`), so a close event that tells the Monitor "left" is that
of the Parent the Monitor knows. The same does not hold of Monitors: the close
event of an expired room's old Monitor removes a new one (section 3), which is
harmless to the views because the Parents are told. `SignalsAreAnswerable`
follows step by step: the sender is seated, so the Monitor was told of it.

`SignalingClientProofs` proves the refinement `ImplementsLink`, and with it that
`MonitorSession` may take its link from `SignalingLink`. Under the mapping
`LinkOf`, `Connect` is a `Restart`, a join acknowledged is an `Acknowledge` or,
on a socket being closed, a `Close`, a close event is a `Lose` or nothing, and
what happens to a socket in between is nothing. That needs `ClientInv`:
`Lifeline`, that a client in use hangs on one socket or one retry, without
which losing a socket need not take the link down; `Untouched`, that nothing
happened before `connect()`; and `JoinsWhenOpen`. `OneLifeline` follows from it.
`RejoinsItsRoom` has a small invariant of its own, that the client's room is
the one the relay last put it in once that is the Monitor's.
`JoinedShowsConnected` needs `ShownInv`: while "reconnecting" shows, the client
has joined before, so that the next 'joined' fires `onReconnected`.

`MonitorSessionProofs` has two independent invariants, and a third on the second. `InviteInv`, on the
pairing window, gives `InviteOpenHasCode`, `LiveCodeHasTimeout` and
`ScreenShowsLiveCode`: an expiry closes every hold on invite mode only because
the holders other than the Monitor's own screen are exactly the remote ones,
which is why that equation is part of `InviteOpenHasCode`; and only a re-arm
starts a code, always with its timeout. `AdmissionInv`, on the Parents, gives
`PeersAreAuthorized`; it needs `KnownAreAuthorized`, that what the store
answered before an await is still true after it, which holds since nothing
in the session removes a listener. `TypeOK` is the union of the two.
`LiveCodeResolvesAfterStart` adds, in `AliasInv`, that a session in its first
connection attempt has not armed a code yet, which is why it does not matter
that the first 'joined' registers nothing.

`MonitorImplementsGate` is the end-to-end statement these add up to, that
`MonitorSession` implements `InviteGate`. The window is open while there is a
code, the Parents that passed it are those whose authorization is being stored,
the members are the store's and the served those with a peer connection.
`AcceptNew` is a `Pass`, which takes `InviteOpenHasCode`: the code looks at
invite mode, the promise is about the code. `Stored` is a `LetIn`, allowed
although the code may have expired during the await; `AcceptKnown` is a
`Serve`, which takes `KnownAreAuthorized`; whatever tears peers down is a
`GiveUp`, and everything else turns the window or does nothing.

`ListenOverrideProofs` proves `HolderIsConnected`, `TrackFollowsDecision` and
`NetIffHeld` as `OverrideInv`, strengthened by `StoppedIsEmpty`: a stopped
session has no peer and no timeout left, which is what makes its next start
clean.

`NegotiationProofs` proves `CandidatesAwaitDescription`,
`TalkTrackOnConnection` and `SettledSidesArePaired`, for any number of drops and restarts. Connections are
numbered as they are made; `NumberedInOrder` says that the present connection
of a side is its last and that no call is of a later one, so a call either
works on the present connection or finds it closed. `DescribingKnown` says what
a call that sets a description may rely on while its connection is open: the
connection has noted the description, and the Parent sets one offer per
connection and nothing beside it. With these a flush that opens the queue is
always of a connection whose description is set, and a connection made while
the microphone is open has its track from the start.

`SettledSidesArePaired` rests on `PairInv`, which follows the Monitor's last
offer while no call outlives its connection and no answer is taken for another
offer (`Clean`; both are what the property excepts). Until the Monitor takes an
answer, its offer is `Asked`: it is on its way with no description behind it, or
the Parent is answering it and nothing else is on its way there, or the answer
is on its way and the Parent still has the connection that gave it, or none.
From then on the sides have `Agreed`: no other offer is on its way to the
Parent, and a Parent that has described anything has described it to the
connection the Monitor holds its description of. What makes this inductive is
the order of arrival (`InOrder`: descriptions reach the Monitor in the order of
the Parent's connections, which is why a later offer of push-to-talk cannot be
overtaken by an earlier one), that a side answers one offer at a time and makes
none meanwhile (`OneOffer`), the numbers of offers and connections (`Numbered`),
and that the Monitor has a connection only to make an offer with it
(`MonitorOffers`). Most steps change no description at all; they are dealt with
once, as a `PlainStep`, and the rest are `Offered`, `Answers` and `Took`.

`ParentSessionsProofs` proves `ServiceMatchesSessions`,
`EverySessionIsManaged` and `ReleasedIsSilent`. That the first effect and the
revision effect never both start a session rests on the queue of statements:
the invariant says that the settings come first, then the first list, and that
a revision effect's list is only ever queued behind it (`Started`, `Orderly`);
so when the first effect starts its sessions there are none, and the revision
effect sees all of them. `ServiceMatchesSessions` rests on the provider's key
(`Posted`): it is always that of the sessions there are, and what is shown has
it as long as nobody else writes, so that a display that is left out for its key
would have changed nothing. `ReleasedIsSilent` takes two facts per session:
`Quiet` relates the stream in `talkStream` to the button and the calls, and
`Overlaps` says that a call finds a stream it did not open only after two calls
awaited the microphone at once. `SettledSessionsMatchStore` says nothing of the states before the
database has run everything; `MatchInv` does: where a session and the stored
row disagree, the first list or a revision's list that was not cancelled is in
the queue (`Refreshing`), a revision is due (`bumped`), or the second half of a
removal is on its way, which announces one (`Purging`); and until the settings
are read, they are in the queue (`Unread`). A revision effect cancels the lists
before it and issues its own, so it never leaves the queue without one.

`AlertProofs` proves of `ConnectionWatch` `TimeoutMeasuresOutage`, `LostAlertOnce` and
`BeepsAreDue` from `WatchInv`: the shown state follows the actual one unless an
error frame came between, the age of an attempt is then at most that of the
outage (`AttemptIsOutage`), an alert is owed exactly while `wasConnected`
(`AlertIsOwed`), and the time since the last beep is counted from it, whichever
read decided it (`RepeatIsCounted`).

Of `CryAlert` the same module proves `LearnedNoiseStaysOut` and
`ClosesForAReason`, from `GateInv`. A gate that closed on a noise has its floor
at least at the lower edge of that noise (`BandOK`), and the noise is no wider
than `stationaryRangeDb`, which is less than the margin that opens the gate:
none of its levels can open it, wherever between the floor and a quiet reading
the moving average takes the floor. That the gate closes for a reason relates
its counters to the readings themselves: each of the last `activeAge` readings
was quiet or repeated the one before it (`HeardQuiet`), the readings of the
streak lie within its bounds (`HeardSteady`), and the history keeps enough of
them for either hold time. `CryAssumption` asks for a range below the margin
(3 against 12 dB) and a stationary hold no shorter than the close hold (15
against 3 s); nobody passes other options (`noiseGate.ts:49`, `noise_gate.c`).

`FirmwareMonitorProofs` proves the invariants of its run and the refinement
`FirmwareImplementsGate`, for any number of Parents, table sizes and holders.
`InviteOpenHasCode` is inductive beside `Places`, which task is ever at which
step: a hold that is stored is followed by an arming in the same task, and an
expiry is over only once it has loaded a count of 0. In between the count may be
wrong, which takes a store over a count that changed since its load, and that is
what `lost` records. `LiveCodeResolves` follows from `AliasInv`: a live code is
kept for the next connection (`CodeIsKept`), which the websocket task sends after
its join, and only two tasks in `set_alias` at once, of which the websocket task
and the main loop are the only ones ever there (`OneSets`), can put something
else in its place. `OneReconnects` says that a started client has its own task
or is marked for the main loop, never neither. `CondemnedAreSeen` comes down to
which slot has no peer yet, that of the Parent the websocket task is admitting
(`OneSlotIsOpening`, `SenderIsKnown`).

The refinement maps the three steps of an admission to three of `InviteGate`. A
stranger that is decided on is a `Pass`, which takes `InviteOpenHasCode`: the
code looks at the count, the promise is about the window. Storing it is a
`LetIn`, whatever has become of the window since; if it is not stored, giving it
a slot is. The members are the listed Parents and those with a slot, and of the
latter one that was not stored is forgotten with its slot, a `GiveUp`. The window
of the mapping (`WindowOpen`) is open while there is a code, while a task is
between taking a hold and arming the code or between withdrawing the code and
giving up the holds, and while an overwritten count keeps invite mode open.

The assumptions are those the modules state on their constants, named
`RelayAssumption`, `ClientAssumption`, `MonitorAssumption`,
`ListenAssumption`, `NegotiationAssumption`, `ParentSessionsAssumption`,
`NoSessionAssumption`, `WatchAssumption`, `CryAssumption` and
`FirmwareAssumption`: codes are names, absent values are
not members of the sets they stand beside, sets that are counted are finite,
bounds are positive.

Every safety property of the runs is a theorem. Only model-checked is liveness,
which TLAPS does not prove: `Rejoins`, `ConnectSettles`,
`OverrideEndsUnlessForeignStop`, `NegotiationCompletes`, `PairedGetsSession`,
`StuckIsNoticed`.

## 5. Not modelled, and what could come next

Left out for good: rendering, mDNS discovery, notifications, sound and
microphone capture (I/O with no state of their own), the SQLite drivers, A-law
companding and the power chip of the firmware.

Left out of modelled components: `renameSelf`, and `stop()` between the awaits
of `start()`, of MonitorSession; `stop()` of a ParentSession during
`getUserMedia`; what the Parent screen shows of codes and names; concurrent
creation of the stored ids and the migration when the store is opened; the
Listen flag and the audio task of the firmware, and descriptions and candidates,
which it hands to `esp_peer`.

What would add most, in this order:

1. `Pairing`, the composition of `Relay` and `MonitorSession` in which an alias
   resolves to the right room.
2. `start()` of MonitorSession as steps, and `renameSelf`.
