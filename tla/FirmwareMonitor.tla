--------------------------- MODULE FirmwareMonitor --------------------------
(***************************************************************************)
(* The ESP32 Monitor (src/firmware/wewe_monitor/wewe_monitor): the shared  *)
(* state of wewe_monitor.cpp under its tasks, the invite mode and the list *)
(* of authorized listeners it calls, and the signalling client of          *)
(* wewe_signaling.c.                                                       *)
(*                                                                         *)
(* The tasks run concurrently and take no locks: the websocket task runs   *)
(* the callbacks of the relay, the pump task owns the esp_peers, the timer *)
(* task expires the code, the main loop takes taps and restarts the        *)
(* client.  "doing" is where each of them stands.  A step reads or writes  *)
(* one shared object; the count of holders, which all four update, is      *)
(* loaded in one step and stored in another, and the update of another     *)
(* task in between may be overwritten.                                     *)
(*                                                                         *)
(* Who the holders are is left out: a name may or may not be found in a    *)
(* list that is not empty.  The relay and the Parents are environment:     *)
(* events come in order, a Monitor that joins is told of the Parents       *)
(* present, and a Parent closes its connection when it stops and when it   *)
(* is told that the Monitor left.                                          *)
(***************************************************************************)
EXTENDS Integers, Sequences, FiniteSets

CONSTANTS
  Device,          \* deviceIds of Parents
  Requester,       \* the Parents whose invite requests are followed
  None,
  MaxListeners,    \* WEWE_MAX_LISTENERS
  MaxAuthorized,   \* MAX_AUTHORIZED
  MaxHolders,      \* WEWE_INVITE_MODE_MAX_HOLDERS
  MaxBelow,        \* bound on how far the count may fall below 0
  MaxInbox         \* bound on the events of the relay on their way

Task == {"ws", "main", "timer", "pump"}

\* A slot in use: its esp_peer, its mark for the pump task, and what the Parent
\* made of the connection.
Listener == [peer : {"none", "open", "closed"}, needsTeardown : BOOLEAN,
             media : {"new", "connected", "dead"}]

ASSUME FirmwareAssumption ==
  /\ IsFiniteSet(Device) /\ Requester \subseteq Device
  /\ None \notin Device \cup Listener
  /\ MaxListeners \in Nat \ {0} /\ MaxAuthorized \in Nat \ {0} /\ MaxHolders \in Nat \ {0}
  /\ MaxBelow \in Nat /\ MaxInbox \in Nat \ {0}

VARIABLES
  present,       \* the Parents in the room
  inbox,         \* events of the relay not yet handled
  listener,      \* the slot in use for each deviceId, or None
  authorized,    \* deviceIds in NVS
  doing,         \* where each task stands
  sender,        \* the Parent whose message the websocket task handles
  count,         \* invite_mode.count
  seen,          \* the count as a task loaded it
  lost,          \* history: an update of the count was overwritten since it was last 0
  code,          \* current_code is not empty
  socket,        \* what the relay makes of the socket; "none" is ~g_sig.connected
  started,       \* whether start_signaling_ has run, and how it ended
  clientTask,    \* the client's own task is alive and reconnects by itself
  needsRestart,
  alias,         \* current_alias is the live code
  registered,    \* the live code is the alias the relay has for this socket
  muddled        \* history: two tasks were in set_alias at once since the live code was
                 \* armed, or the client was started after it

roomVars == <<present, inbox>>
listenerVars == <<listener, authorized>>
holderVars == <<count, seen, lost>>
clientVars == <<started, clientTask, needsRestart>>
aliasVars == <<alias, registered, muddled>>
signalingVars == <<socket, clientVars, aliasVars>>
vars == <<roomVars, listenerVars, doing, sender, holderVars, code, signalingVars>>

\* A slot just allocated, its peer not opened.
NewListener == [peer |-> "none", needsTeardown |-> FALSE, media |-> "new"]

Event(kind, d) == [kind |-> kind, device |-> d]

Listening == {d \in Device : listener[d] # None}

\* Task t goes on to a step.
Goes(t, step) == doing' = [doing EXCEPT ![t] = step]

Init ==
  /\ present = {} /\ inbox = <<>>
  /\ listener = [d \in Device |-> None]
  /\ authorized = {}
  /\ doing = [t \in Task |-> "idle"] /\ sender = None
  /\ count = 0 /\ seen = [t \in Task |-> 0] /\ lost = FALSE
  /\ code = FALSE
  /\ socket = "none" /\ started = "no" /\ clientTask = FALSE
  /\ needsRestart = FALSE
  /\ alias = FALSE /\ registered = FALSE /\ muddled = FALSE

-----------------------------------------------------------------------------
(* The room.                                                               *)

Told(event) ==
  IF socket = "joined" THEN Len(inbox) < MaxInbox /\ inbox' = Append(inbox, event)
                       ELSE UNCHANGED inbox

ParentJoins(d) ==
  /\ d \notin present
  /\ present' = present \cup {d}
  /\ Told(Event("joined", d))
  /\ UNCHANGED <<listenerVars, doing, sender, holderVars, code, signalingVars>>

\* The connection of d is gone at its end.
Dead(d) == [listener EXCEPT ![d] = IF @ = None THEN None ELSE [@ EXCEPT !.media = "dead"]]

\* A Parent loses its socket, or stops and closes its connection.
ParentLeaves(d, stops) ==
  /\ d \in present
  /\ present' = present \ {d}
  /\ Told(Event("left", d))
  /\ listener' = IF stops THEN Dead(d) ELSE listener
  /\ UNCHANGED <<authorized, doing, sender, holderVars, code, signalingVars>>

\* A Parent restarts and joins before the relay saw it leave: its old socket
\* is superseded, its old connection gone, and the Monitor told of neither.
ParentSupersedes(d) ==
  /\ d \in present
  /\ listener[d] # None
  /\ listener' = Dead(d)
  /\ UNCHANGED <<roomVars, authorized, doing, sender, holderVars, code, signalingVars>>

-----------------------------------------------------------------------------
(* wewe_signaling.c                                                        *)

\* start_signaling_, once the network is up: what was set before is wiped, and
\* a failed start is not tried again.
Start(ok) ==
  /\ doing["main"] = "idle"
  /\ started = "no"
  /\ started' = IF ok THEN "yes" ELSE "failed"
  /\ clientTask' = ok
  /\ alias' = FALSE
  /\ muddled' = code
  /\ UNCHANGED <<roomVars, listenerVars, doing, sender, holderVars, code, socket,
                 needsRestart, registered>>

\* Whether what set_alias reads is the live code; with two tasks in it, one's
\* text may be taken for the other's, or mixed with it.
Texts(isCode) == IF muddled THEN {isCode, FALSE} ELSE {isCode}

\* wewe_signaling_set_alias: kept for the next connection, and sent if
\* connected.  The relay closes a socket that has not joined, and a socket that
\* is dead or refused takes the text nowhere.
SetAlias(isCode) ==
  /\ alias' \in Texts(isCode)
  /\ registered' \in IF socket = "joined" THEN Texts(isCode) ELSE {registered}
  /\ socket' = IF socket = "open" THEN "refused" ELSE socket
  /\ UNCHANGED muddled

\* WEBSOCKET_EVENT_CONNECTED, its first statement.
SocketConnects ==
  /\ doing["ws"] = "idle"
  /\ clientTask /\ socket = "none"
  /\ socket' = "open"
  /\ Goes("ws", "join")
  /\ UNCHANGED <<roomVars, listenerVars, sender, holderVars, code, clientVars, aliasVars>>

\* The orders in which the relay may announce these Parents.
Announced(parents) ==
  {s \in [1..Cardinality(parents) -> {Event("joined", d) : d \in parents}] :
     \A i, j \in DOMAIN s : s[i] = s[j] => i = j}

\* send_join: the relay seats the Monitor and tells it of the Parents in the
\* room; or it refuses, the role taken or too many joins, and will close.
SocketJoins(accepted) ==
  /\ doing["ws"] = "join"
  /\ socket' = IF socket # "open" THEN socket ELSE IF accepted THEN "joined" ELSE "refused"
  /\ IF socket' = "joined" THEN inbox' \in Announced(present) ELSE UNCHANGED inbox
  /\ Goes("ws", "resend")
  /\ muddled' = (muddled \/ doing["main"] = "alias")
  /\ UNCHANGED <<present, listenerVars, sender, holderVars, code, clientVars, alias,
                 registered>>

\* A mutant: the alias is not sent again.
ResendAlias_Never ==
  /\ doing["ws"] = "resend"
  /\ Goes("ws", "idle")
  /\ UNCHANGED <<roomVars, listenerVars, sender, holderVars, code, socket, clientVars,
                 aliasVars>>

\* On CONNECTED current_alias is sent again, if there is one, its code live or not.
ResendAlias ==
  /\ doing["ws"] = "resend"
  /\ SetAlias(alias)
  /\ Goes("ws", "idle")
  /\ UNCHANGED <<roomVars, listenerVars, sender, holderVars, code, clientVars>>

\* The network is gone, and no close frame comes: unnoticed until the pongs stay
\* out (pingpong_timeout_sec).
SocketDies ==
  /\ socket \notin {"none", "dead"}
  /\ socket' = "dead"
  /\ UNCHANGED <<roomVars, listenerVars, doing, sender, holderVars, code, clientVars,
                 aliasVars>>

\* The relay tells the Parents that the Monitor left: they close their
\* connections.
SocketGone ==
  /\ doing["ws"] = "idle"
  /\ socket' = "none"
  /\ inbox' = <<>>
  /\ registered' = FALSE
  /\ listener' = [d \in Device |-> IF d \in present THEN Dead(d)[d] ELSE listener[d]]
  /\ UNCHANGED <<present, authorized, doing, sender, holderVars, code, started, alias,
                 muddled>>

\* WEBSOCKET_EVENT_DISCONNECTED, WEBSOCKET_EVENT_ERROR: the client's task goes on.
SocketDrops ==
  /\ socket # "none"
  /\ SocketGone
  /\ UNCHANGED <<clientTask, needsRestart>>

\* A mutant: a clean close is taken like a disconnect.
SocketCloses_NoRestart ==
  /\ socket \notin {"none", "dead"}
  /\ SocketGone
  /\ clientTask' = FALSE
  /\ UNCHANGED needsRestart

\* WEBSOCKET_EVENT_CLOSED: the far end closed, and the client's task ends.
SocketCloses ==
  /\ socket \notin {"none", "dead"}
  /\ SocketGone
  /\ clientTask' = FALSE
  /\ needsRestart' = TRUE

\* wewe_signaling_poll: stop, then start, which may fail.
Poll(starts) ==
  /\ doing["main"] = "idle"
  /\ needsRestart
  /\ needsRestart' = ~starts
  /\ clientTask' = starts
  /\ UNCHANGED <<roomVars, listenerVars, doing, sender, holderVars, code, socket, started,
                 aliasVars>>

-----------------------------------------------------------------------------
(* Invite mode.  The tasks open and close it for a holder, arm a code, and  *)
(* expire it.                                                              *)

\* wewe_invite_mode_open by task t, up to the write: the name is there, or the
\* list is full; or its place is that of the count as loaded.
OpenLoads(t) ==
  \/ count > 0 /\ Goes(t, "arm") /\ UNCHANGED seen
  \/ count < MaxHolders /\ Goes(t, "open") /\ seen' = [seen EXCEPT ![t] = count]

\* What t stores over the count, n more than it was: n more than it loaded, or,
\* if the build loads it again, than it is.
Stores(t, n) ==
  \E old \in {seen[t], count} :
    /\ old + n \in (-MaxBelow)..MaxHolders
    /\ count' = old + n
    /\ lost' = (lost \/ old # count)
    /\ seen' = [seen EXCEPT ![t] = 0]

\* wewe_invite_mode_open, count++.
OpenStores(t) ==
  /\ doing[t] = "open"
  /\ Stores(t, 1)
  /\ Goes(t, "arm")
  /\ UNCHANGED <<roomVars, listenerVars, sender, code, signalingVars>>

\* wewe_invite_mode_close by task t, up to the swap: the name is not there, or it is.
CloseLoads(t) ==
  \/ UNCHANGED <<doing, seen>>
  \/ count > 0 /\ Goes(t, "close") /\ seen' = [seen EXCEPT ![t] = count]

\* wewe_invite_mode_close, count--.  An expiry goes on with its loop.
CloseStores(t) ==
  /\ doing[t] = "close"
  /\ Stores(t, -1)
  /\ Goes(t, IF t = "ws" THEN "idle" ELSE "expire")
  /\ UNCHANGED <<roomVars, listenerVars, sender, code, signalingVars>>

\* arm_invite, the new code; the own screen's always, a Parent's unless a code
\* is live, which it is sent instead.
ArmCode(t) ==
  /\ doing[t] = "arm"
  /\ IF t = "ws" /\ code
       THEN Goes(t, "idle") /\ UNCHANGED <<code, aliasVars>>
       ELSE /\ Goes(t, "alias")
            /\ code' = TRUE
            /\ alias' = FALSE /\ registered' = FALSE
            /\ muddled' = \E u \in Task \ {t} : doing[u] \in {"alias", "resend"}
  /\ UNCHANGED <<roomVars, listenerVars, sender, holderVars, socket, clientVars>>

\* arm_invite, its second half: set_alias, and the timer is restarted.
ArmAlias(t) ==
  /\ doing[t] = "alias"
  /\ SetAlias(code)
  /\ Goes(t, "idle")
  /\ UNCHANGED <<roomVars, listenerVars, sender, holderVars, code, clientVars>>

\* on_pair_tapped past its debounce: rearm_invite opens for the own screen.
Tap ==
  /\ doing["main"] = "idle"
  /\ OpenLoads("main")
  /\ UNCHANGED <<roomVars, listenerVars, sender, count, lost, code, signalingVars>>

\* expire_invite by task t, up to its loop: the code is gone, its alias stays
\* registered.
ExpireCode(t) ==
  /\ Goes(t, "expire")
  /\ code' = FALSE
  /\ alias' = FALSE /\ registered' = FALSE
  /\ UNCHANGED <<holderVars, muddled>>

\* invite_timer_cb
InviteTimerFires ==
  /\ doing["timer"] = "idle"
  /\ ExpireCode("timer")
  /\ UNCHANGED <<roomVars, listenerVars, sender, socket, clientVars>>

\* expire_invite, its loop: a holder is closed while there is one.
ExpireLoads(t) ==
  /\ doing[t] = "expire"
  /\ count > 0
  /\ Goes(t, "close")
  /\ seen' = [seen EXCEPT ![t] = count]
  /\ UNCHANGED <<roomVars, listenerVars, sender, count, lost, code, signalingVars>>

\* A mutant: only the own screen's hold is given up.
ExpireEnds_LocalOnly(t) ==
  /\ doing[t] = "expire"
  /\ Goes(t, "idle")
  /\ UNCHANGED <<roomVars, listenerVars, sender, holderVars, code, signalingVars>>

\* The loop ends: invite mode is closed for everyone, and nobody is left to tell.
ExpireEnds(t) ==
  /\ doing[t] = "expire"
  /\ count <= 0
  /\ Goes(t, "idle")
  /\ lost' = FALSE
  /\ UNCHANGED <<roomVars, listenerVars, sender, count, seen, code, signalingVars>>

-----------------------------------------------------------------------------
(* The websocket task.                                                     *)

Receives(kind) == doing["ws"] = "idle" /\ inbox # <<>> /\ Head(inbox).kind = kind

\* A mutant: a stranger is admitted whether or not invite mode is open.
InviteModeIsOpen_Always == TRUE

\* wewe_invite_mode_is_open
InviteModeIsOpen == count > 0

\* on_peer_joined, the decision; a list that cannot be read makes a stranger of
\* everyone.
PeerJoined(reads) ==
  /\ Receives("joined")
  /\ inbox' = Tail(inbox)
  /\ LET d == Head(inbox).device
         step == IF reads /\ d \in authorized THEN "admit"
                 ELSE IF InviteModeIsOpen THEN "store" ELSE "idle"
     IN  Goes("ws", step) /\ sender' = IF step = "idle" THEN None ELSE d
  /\ UNCHANGED <<present, listenerVars, holderVars, code, signalingVars>>

\* wewe_storage_authorize_listener: a full list refuses, and NVS may fail; the
\* Parent is admitted all the same.
StoreListener(ok) ==
  /\ doing["ws"] = "store"
  /\ ok => sender \in authorized \/ Cardinality(authorized) < MaxAuthorized
  /\ authorized' = IF ok THEN authorized \cup {sender} ELSE authorized
  /\ Goes("ws", "admit")
  /\ UNCHANGED <<roomVars, listener, sender, holderVars, code, signalingVars>>

\* A listener whose connection is gone, or about to be.
Doomed(l) == l.needsTeardown \/ l.media = "dead"

\* create_peer_for, up to alloc_listener: a slot in use passes for a connection,
\* and without a free slot the Parent is dropped.
AllocListener ==
  /\ doing["ws"] = "admit"
  /\ LET new == listener[sender] = None /\ Cardinality(Listening) < MaxListeners
     IN  /\ listener' = IF new THEN [listener EXCEPT ![sender] = NewListener] ELSE listener
         /\ Goes("ws", IF new THEN "peer" ELSE "idle")
         /\ sender' = IF new THEN sender ELSE None
  /\ UNCHANGED <<roomVars, authorized, holderVars, code, signalingVars>>

\* create_peer_for, its second half: esp_peer_open, and an offer; or it fails.
PeerOpens(ok) ==
  /\ doing["ws"] = "peer"
  /\ Goes("ws", "idle")
  /\ listener' = [listener EXCEPT ![sender] = IF ok THEN [@ EXCEPT !.peer = "open"] ELSE None]
  /\ sender' = None
  /\ UNCHANGED <<roomVars, authorized, holderVars, code, signalingVars>>

\* on_peer_left: the pump task will tear it down, and its hold is closed.
PeerLeft ==
  /\ Receives("left")
  /\ inbox' = Tail(inbox)
  /\ listener' = [listener EXCEPT ![Head(inbox).device] =
                    IF @ = None THEN None ELSE [@ EXCEPT !.needsTeardown = TRUE]]
  /\ CloseLoads("ws")
  /\ UNCHANGED <<present, authorized, sender, count, lost, code, signalingVars>>

\* A signal of d reaches on_signal, past what the relay sent before it.
Signals(d) ==
  /\ doing["ws"] = "idle"
  /\ socket = "joined"
  /\ d \in present
  /\ \A i \in DOMAIN inbox : inbox[i].device # d
  /\ listener[d] # None

\* on_signal, inviteMode: open, the first step of ensure_invite_armed; or closed.
InviteRequest(d, open) ==
  /\ Signals(d)
  /\ IF open THEN OpenLoads("ws") ELSE CloseLoads("ws")
  /\ UNCHANGED <<roomVars, listenerVars, sender, count, lost, code, signalingVars>>

-----------------------------------------------------------------------------
(* The pump task.                                                          *)

\* It is between two slots, and looks at that of d.
Pumps(d) ==
  /\ doing["pump"] = "idle"
  /\ \A e \in Listening : listener[e].peer # "closed"
  /\ listener[d] # None
  /\ listener[d].peer = "open"

\* esp_peer_main_loop reports CONNECTED: a live code is expired, its timer left.
PeerConnects(d) ==
  /\ Pumps(d)
  /\ ~listener[d].needsTeardown
  /\ listener[d].media = "new"
  /\ listener' = [listener EXCEPT ![d].media = "connected"]
  /\ IF code THEN ExpireCode("pump") ELSE UNCHANGED <<doing, code, holderVars, aliasVars>>
  /\ UNCHANGED <<roomVars, authorized, sender, socket, clientVars>>

\* esp_peer_main_loop reports DISCONNECTED or CONNECT_FAILED.
PeerFails(d) ==
  /\ Pumps(d)
  /\ ~listener[d].needsTeardown
  /\ listener' = [listener EXCEPT ![d].needsTeardown = TRUE]
  /\ UNCHANGED <<roomVars, authorized, doing, sender, holderVars, code, signalingVars>>

\* teardown_peer: esp_peer_close, which waits for the peer's own task.
TeardownCloses(d) ==
  /\ Pumps(d)
  /\ listener[d].needsTeardown
  /\ listener' = [listener EXCEPT ![d].peer = "closed"]
  /\ UNCHANGED <<roomVars, authorized, doing, sender, holderVars, code, signalingVars>>

\* A mutant: the slot stays in use.
TeardownFrees_StaysInUse(d) ==
  /\ listener[d] # None
  /\ listener[d].peer = "closed"
  /\ listener' = [listener EXCEPT ![d].peer = "none"]
  /\ UNCHANGED <<roomVars, authorized, doing, sender, holderVars, code, signalingVars>>

\* teardown_peer: the slot is free.
TeardownFrees(d) ==
  /\ listener[d] # None
  /\ listener[d].peer = "closed"
  /\ listener' = [listener EXCEPT ![d] = None]
  /\ UNCHANGED <<roomVars, authorized, doing, sender, holderVars, code, signalingVars>>

-----------------------------------------------------------------------------
\* Power lost and back: only NVS is left.  The Parents stay in the room.
Reboot ==
  /\ inbox' = <<>>
  /\ listener' = [d \in Device |-> None]
  /\ doing' = [t \in Task |-> "idle"] /\ sender' = None
  /\ count' = 0 /\ seen' = [t \in Task |-> 0] /\ lost' = FALSE
  /\ code' = FALSE
  /\ socket' = "none" /\ started' = "no" /\ clientTask' = FALSE
  /\ needsRestart' = FALSE
  /\ alias' = FALSE /\ registered' = FALSE /\ muddled' = FALSE
  /\ UNCHANGED <<present, authorized>>

Arms(t) == OpenStores(t) \/ ArmCode(t) \/ ArmAlias(t)

Expires(t) == ExpireLoads(t) \/ CloseStores(t) \/ ExpireEnds(t)

WebsocketTask ==
  \/ \E yes \in BOOLEAN : SocketJoins(yes) \/ PeerJoined(yes) \/ StoreListener(yes)
                            \/ PeerOpens(yes)
  \/ ResendAlias \/ AllocListener \/ PeerLeft
  \/ Arms("ws") \/ CloseStores("ws")

PumpTask ==
  \/ \E d \in Device : TeardownCloses(d) \/ TeardownFrees(d)
  \/ Expires("pump")

Next ==
  \/ \E d \in Device :
       \/ ParentJoins(d)
       \/ ParentSupersedes(d)
       \/ PeerConnects(d)
       \/ PeerFails(d)
       \/ \E stops \in BOOLEAN : ParentLeaves(d, stops)
  \/ \E d \in Requester, open \in BOOLEAN : InviteRequest(d, open)
  \/ WebsocketTask
  \/ PumpTask
  \/ SocketConnects \/ SocketDies \/ SocketDrops \/ SocketCloses
  \/ \E ok \in BOOLEAN : Start(ok) \/ Poll(ok)
  \/ Tap \/ Arms("main")
  \/ InviteTimerFires \/ Expires("timer")
  \/ Reboot

\* The tasks are scheduled, time passes, the network comes back, and a
\* connection whose other end is gone is noticed.
Fairness ==
  /\ WF_vars(WebsocketTask) /\ WF_vars(PumpTask)
  /\ WF_vars(Arms("main")) /\ WF_vars(Expires("timer"))
  /\ WF_vars(\E ok \in BOOLEAN : Start(ok))
  /\ SF_vars(Poll(TRUE)) /\ WF_vars(SocketConnects)
  /\ WF_vars(socket \in {"refused", "dead"} /\ (SocketDrops \/ SocketCloses))
  /\ \A d \in Device : SF_vars(listener[d] # None /\ listener[d].media = "dead" /\ PeerFails(d))

Spec == Init /\ [][Next]_vars /\ Fairness

-----------------------------------------------------------------------------
(* Properties.                                                             *)

Step == {"idle", "join", "resend", "store", "admit", "peer", "open", "arm", "alias", "close",
         "expire"}

\* Every variable keeps its type.
TypeOK ==
  /\ present \subseteq Device /\ authorized \subseteq Device
  /\ inbox \in Seq([kind : {"joined", "left"}, device : Device])
  /\ listener \in [Device -> Listener \cup {None}]
  /\ doing \in [Task -> Step] /\ sender \in Device \cup {None}
  /\ count \in Int /\ seen \in [Task -> Int] /\ lost \in BOOLEAN
  /\ code \in BOOLEAN
  /\ socket \in {"none", "open", "joined", "refused", "dead"}
  /\ started \in {"no", "yes", "failed"} /\ clientTask \in BOOLEAN
  /\ needsRestart \in BOOLEAN
  /\ alias \in BOOLEAN /\ registered \in BOOLEAN
  /\ muddled \in BOOLEAN

\* A task has taken a hold and not armed the code yet, or withdrawn the code and
\* not given up the holds yet.
TurningWindow ==
  \/ \E t \in {"ws", "main"} : doing[t] \in {"open", "arm"}
  \/ \E t \in {"timer", "pump"} : doing[t] \in {"expire", "close"}

\* Invite mode is open only under a live code, or while a task is in the middle
\* of opening or expiring it, although four tasks change both without a lock:
\* unless one of them overwrote another's update of the count.
InviteOpenHasCode == count > 0 /\ ~lost => code \/ TurningWindow

\* The window a stranger may pass: what InviteOpenHasCode allows, or the holders
\* that an overwritten update left behind, until the next expiry.
WindowOpen == code \/ TurningWindow \/ (lost /\ count > 0)

\* The stranger the websocket task has decided to let in.
Passed == IF doing["ws"] \in {"store", "admit"} THEN {sender} \ authorized ELSE {}

Gate == INSTANCE InviteGate
  WITH window <- WindowOpen, passed <- Passed, members <- authorized \cup Listening,
       served <- Listening

\* A stranger is stored or served only if the window was open when it was decided
\* on, whatever the other tasks do to the window until it is stored and has its
\* slot, and whether or not it can be stored (wewe_monitor.cpp, on_peer_joined).
ImplementsGate == Gate!Spec

\* Once the relay has accepted the join, and as long as the connection lives, a
\* live code is the one it has registered, whether it was armed before, during or
\* after the handshake; unless two tasks were in set_alias at once, or the client
\* was started after the code was armed.
LiveCodeResolves ==
  socket = "joined" /\ code /\ ~muddled /\ (\A t \in Task : doing[t] \notin {"alias", "resend"})
    => registered

\* Whenever a client that was started is without a socket, somebody is to bring it
\* back: its own task, or the main loop after a clean close, which that task does
\* not survive.
SomeoneReconnects == started = "yes" /\ socket = "none" => clientTask \/ needsRestart

\* A listener marked for teardown is one the pump task looks at, so no slot is
\* stuck in use without a peer, and its Parent locked out by it.
CondemnedAreSeen == \A d \in Listening : listener[d].needsTeardown => listener[d].peer # "none"

\* A Parent announced while the connection in its slot is gone, or about to be.
TakenForConnected(d) ==
  doing["ws"] = "admit" /\ sender = d /\ listener[d] # None /\ Doomed(listener[d])

\* Violated: a Parent announced while its slot is in use is connected ("already
\* connected (e.g. a signaling-level reconnect)"), or gets its offer yet, unless it
\* or the Monitor leaves.
AnnouncedGetsOffer ==
  \A d \in Device : TakenForConnected(d) ~>
    (doing["ws"] = "peer" /\ sender = d) \/ d \notin present \/ socket # "joined"
=============================================================================
