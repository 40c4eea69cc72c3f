--------------------------- MODULE SignalingClient ---------------------------
(***************************************************************************)
(* The app's half of the room protocol: src/webrtc/signalingClient.ts and  *)
(* the Backoff of src/domain/backoff.ts.  It joins a room, reconnects      *)
(* after an unexpected close, and remembers the room an alias resolved to. *)
(*                                                                         *)
(* The WebSocket and the relay are environment.  A closed socket runs its  *)
(* onclose later, and frames on their way may still be handled after       *)
(* close().  React Native reports a failure as onerror and onclose in one  *)
(* go.  The app makes one connect() call on each client.                   *)
(***************************************************************************)
EXTENDS Integers, FiniteSets, FiniteSetsExt

CONSTANTS
  Socket,        \* names of WebSockets
  NoSocket,
  MaxAttempt     \* attempts are counted up to here; later delays are all equal

ASSUME ClientAssumption == NoSocket \notin Socket /\ MaxAttempt \in Nat \ {0}

VARIABLES
  started,           \* connect() was called
  explicitlyClosed,
  hasConnectedOnce,
  room,              \* "alias" until the relay says what it resolved to
  sockets,           \* readyState and join of each socket
  socket,            \* this.socket
  reconnectTimer,    \* number of retry timeouts pending
  reconnectAttempt,
  attempt,           \* Backoff.attempt
  delayMs,           \* the delay of the last retry
  promise,           \* what connect() returned
  reconnecting,      \* what onReconnecting and onReconnected told the session
  \* the environment, and what it has seen
  serving,           \* the relay is reachable and takes this client's joins
  aliasLive,         \* the relay resolves the alias
  placed,            \* the room the relay last put this client in
  firstTryFailed,    \* history: a connection was lost before the first join
  quietClose         \* history: one of them without onerror

clientVars == <<started, explicitlyClosed, hasConnectedOnce, room, sockets, socket,
                reconnectTimer, reconnectAttempt, attempt, delayMs, promise, reconnecting>>
relayVars  == <<serving, aliasLive, placed>>
vars == <<clientVars, relayVars, firstTryFailed, quietClose>>

\* A socket: "dying" once the other end has gone, "closing" after close().
\* first marks the one whose promise connect() returned.
Unused == [at |-> "none", join |-> "unsent", first |-> FALSE]
Opening(first) == [at |-> "connecting", join |-> "unsent", first |-> first]
Live == {s \in Socket : sockets[s].at # "none"}

Init ==
  /\ started = FALSE
  /\ explicitlyClosed = FALSE
  /\ hasConnectedOnce = FALSE
  /\ room \in {"alias", "home"}
  /\ sockets = [s \in Socket |-> Unused]
  /\ socket = NoSocket
  /\ reconnectTimer = 0
  /\ reconnectAttempt = 0
  /\ attempt = 0
  /\ delayMs = 0
  /\ promise = "none"
  /\ reconnecting = FALSE
  /\ serving \in BOOLEAN
  /\ aliasLive \in BOOLEAN
  /\ placed = "nowhere"
  /\ firstTryFailed = FALSE
  /\ quietClose = FALSE

-----------------------------------------------------------------------------
(* The client.                                                             *)

\* attemptConnect: a new socket becomes this.socket.
AttemptConnect(first) ==
  \E s \in Socket \ Live :
    /\ sockets' = [sockets EXCEPT ![s] = Opening(first)]
    /\ socket' = s

Connect ==
  /\ ~started
  /\ started' = TRUE
  /\ explicitlyClosed' = FALSE
  /\ promise' = "pending"
  /\ AttemptConnect(TRUE)
  /\ UNCHANGED <<hasConnectedOnce, room, reconnectTimer, reconnectAttempt, attempt, delayMs,
                 reconnecting, relayVars, firstTryFailed, quietClose>>

\* onopen: the join is sent.
Opened(s) ==
  /\ sockets[s].at = "connecting" /\ serving
  /\ sockets' = [sockets EXCEPT ![s].at = "open", ![s].join = "sent"]
  /\ UNCHANGED <<started, explicitlyClosed, hasConnectedOnce, room, socket, reconnectTimer,
                 reconnectAttempt, attempt, delayMs, promise, reconnecting, relayVars,
                 firstTryFailed, quietClose>>

\* A mutant: the room an alias resolved to is not remembered.
Resolved_Forgotten(said) == room

\* A Parent is told which room it joined, and asks for that one ever after.
Resolved(said) == said

ResetBackoff == attempt' = 0

\* A mutant: hasConnectedOnce is never set.
OnReconnected_Never ==
  /\ reconnecting' = (reconnecting /\ ~hasConnectedOnce)
  /\ hasConnectedOnce' = hasConnectedOnce

\* A mutant: onReconnected is not fired.
OnReconnected_Silent ==
  /\ reconnecting' = reconnecting
  /\ hasConnectedOnce' = TRUE

\* onReconnected, if this client had joined before.
OnReconnected ==
  /\ reconnecting' = (reconnecting /\ ~hasConnectedOnce)
  /\ hasConnectedOnce' = TRUE

\* 'joined', also on a socket that is being closed.  The relay resolves the name
\* in the join; that a Monitor is not told its room makes no difference to it.
Joined(s) ==
  LET to == IF room = "alias" /\ ~aliasLive THEN "alias" ELSE "home"
  IN  /\ sockets[s].join = "sent" /\ sockets[s].at \in {"open", "closing"}
      /\ sockets' = [sockets EXCEPT ![s].join = "joined"]
      /\ ResetBackoff
      /\ reconnectAttempt' = 0
      /\ room' = Resolved(to)
      /\ placed' = to
      /\ OnReconnected
      /\ promise' = IF sockets[s].first THEN "resolved" ELSE promise
      /\ UNCHANGED <<started, explicitlyClosed, socket, reconnectTimer, delayMs, serving,
                     aliasLive, firstTryFailed, quietClose>>

\* A mutant: an error frame or a socket error leaves connect() unanswered.
Rejected_Never(s) == promise

\* reject(), which counts only for the first attempt, and only once.
Rejected(s) ==
  IF sockets[s].first /\ sockets[s].join # "joined" /\ promise = "pending"
  THEN "rejected" ELSE promise

\* An 'error' frame, after which the relay closes the socket.
ErrorFrame(s) ==
  /\ ~serving
  /\ sockets[s].at = "open"
  /\ sockets' = [sockets EXCEPT ![s].at = "dying"]
  /\ promise' = Rejected(s)
  /\ UNCHANGED <<started, explicitlyClosed, hasConnectedOnce, room, socket, reconnectTimer,
                 reconnectAttempt, attempt, delayMs, reconnecting, relayVars, firstTryFailed,
                 quietClose>>

InitialDelayMs == 500
MaxDelayMs == 30000
Multiplier == 2

\* nextDelayMs.
NextDelayMs(n) == Min({InitialDelayMs * Multiplier ^ n, MaxDelayMs})

Count(n) == IF n < MaxAttempt THEN n + 1 ELSE n

\* A mutant: only a connection that had joined is retried.
ScheduleReconnect_IfJoined ==
  IF ~hasConnectedOnce
  THEN UNCHANGED <<reconnectTimer, reconnectAttempt, attempt, delayMs, reconnecting>>
  ELSE /\ reconnectAttempt' = Count(reconnectAttempt)
       /\ delayMs' = NextDelayMs(attempt)
       /\ attempt' = Count(attempt)
       /\ reconnecting' = TRUE
       /\ reconnectTimer' = reconnectTimer + 1

ScheduleReconnect ==
  /\ reconnectAttempt' = Count(reconnectAttempt)
  /\ delayMs' = NextDelayMs(attempt)
  /\ attempt' = Count(attempt)
  /\ reconnecting' = TRUE
  /\ reconnectTimer' = reconnectTimer + 1

\* onclose.
OnClose ==
  IF explicitlyClosed
  THEN UNCHANGED <<reconnectTimer, reconnectAttempt, attempt, delayMs, reconnecting>>
  ELSE ScheduleReconnect

\* The socket is gone: onclose, with an onerror before it if it failed.
Closed(s, failed) ==
  /\ sockets[s].at \in {"dying", "closing"}
  /\ sockets' = [sockets EXCEPT ![s] = Unused]
  /\ promise' = IF failed THEN Rejected(s) ELSE promise
  /\ OnClose
  /\ firstTryFailed' = (firstTryFailed \/ (~hasConnectedOnce /\ ~explicitlyClosed))
  /\ quietClose' = (quietClose \/ (~hasConnectedOnce /\ ~failed))
  /\ UNCHANGED <<started, explicitlyClosed, hasConnectedOnce, room, socket, relayVars>>

\* The retry timeout fires.
RetryFires ==
  /\ reconnectTimer > 0
  /\ reconnectTimer' = reconnectTimer - 1
  /\ AttemptConnect(FALSE)
  /\ UNCHANGED <<started, explicitlyClosed, hasConnectedOnce, room, reconnectAttempt, attempt,
                 delayMs, promise, reconnecting, relayVars, firstTryFailed, quietClose>>

\* A mutant: the pending retry is not cancelled.
CancelRetry_Never == reconnectTimer' = reconnectTimer

CancelRetry == reconnectTimer' = 0

\* close(); a session may be stopped before it got to connect().
Close ==
  /\ ~explicitlyClosed
  /\ explicitlyClosed' = TRUE
  /\ CancelRetry
  /\ sockets' = [s \in Socket |->
                   IF s = socket /\ s \in Live THEN [sockets[s] EXCEPT !.at = "closing"]
                   ELSE sockets[s]]
  /\ socket' = NoSocket
  /\ UNCHANGED <<started, hasConnectedOnce, room, reconnectAttempt, attempt, delayMs, promise,
                 reconnecting, relayVars, firstTryFailed, quietClose>>

-----------------------------------------------------------------------------
(* The network and the relay.                                              *)

ServingChanges ==
  /\ serving' = ~serving
  /\ UNCHANGED <<clientVars, aliasLive, placed, firstTryFailed, quietClose>>

\* The other end of a connection is lost; the client has yet to hear of it.
Cut(s) ==
  /\ ~serving
  /\ sockets[s].at \in {"connecting", "open"}
  /\ sockets' = [sockets EXCEPT ![s].at = "dying"]
  /\ UNCHANGED <<started, explicitlyClosed, hasConnectedOnce, room, socket, reconnectTimer,
                 reconnectAttempt, attempt, delayMs, promise, reconnecting, relayVars,
                 firstTryFailed, quietClose>>

\* The alias expires at the relay, or its Monitor registers it again.
AliasChanges ==
  /\ aliasLive' = ~aliasLive
  /\ UNCHANGED <<clientVars, serving, placed, firstTryFailed, quietClose>>

-----------------------------------------------------------------------------
OnSocket(s) ==
  \/ Opened(s) \/ Joined(s) \/ ErrorFrame(s) \/ Cut(s)
  \/ \E failed \in BOOLEAN : Closed(s, failed)

Next ==
  \/ Connect \/ RetryFires \/ Close
  \/ \E s \in Socket : OnSocket(s)
  \/ ServingChanges \/ AliasChanges

Spec == Init /\ [][Next]_vars

\* A retry timeout fires, a reachable relay answers, and the platform reports a
\* connection that is gone.
FairSpec ==
  /\ Spec
  /\ WF_vars(RetryFires)
  /\ \A s \in Socket :
       /\ WF_vars(Opened(s))
       /\ WF_vars(Joined(s))
       /\ WF_vars(\E failed \in BOOLEAN : Closed(s, failed))

-----------------------------------------------------------------------------
(* Properties.                                                             *)

TypeOK ==
  /\ started \in BOOLEAN
  /\ explicitlyClosed \in BOOLEAN
  /\ hasConnectedOnce \in BOOLEAN
  /\ room \in {"alias", "home"}
  /\ sockets \in [Socket -> [at : {"none", "connecting", "open", "dying", "closing"},
                             join : {"unsent", "sent", "joined"}, first : BOOLEAN]]
  /\ socket \in Socket \cup {NoSocket}
  /\ reconnectTimer \in {0, 1}
  /\ reconnectAttempt \in 0 .. MaxAttempt
  /\ attempt \in 0 .. MaxAttempt
  /\ delayMs \in 0 .. MaxDelayMs
  /\ promise \in {"none", "pending", "resolved", "rejected"}
  /\ reconnecting \in BOOLEAN
  /\ serving \in BOOLEAN
  /\ aliasLive \in BOOLEAN
  /\ placed \in {"nowhere", "alias", "home"}
  /\ firstTryFailed \in BOOLEAN
  /\ quietClose \in BOOLEAN

\* A client in use hangs on exactly one thing, a socket or a pending retry: it
\* never gives up by losing both, and never joins its room twice by having two.
\* A closed one has no retry pending and no socket left open.
OneLifeline ==
  IF started /\ ~explicitlyClosed
  THEN Cardinality(Live) + reconnectTimer = 1 /\ Live \subseteq {socket}
  ELSE reconnectTimer = 0 /\ \A s \in Live : sockets[s].at = "closing"

\* The session of a joined client does not show "reconnecting", provided the
\* first connection attempt succeeded; after a failed first one onReconnected
\* does not fire (hasConnectedOnce).
JoinedShowsConnected ==
  ~firstTryFailed /\ ~explicitlyClosed /\ (\E s \in Live : sockets[s].join = "joined"
                                                           /\ sockets[s].at = "open")
    => ~reconnecting

\* A client the relay put in its Monitor's room is in that room after every
\* reconnect, although the code it paired with has expired by then.
RejoinsItsRoom == [][placed = "home" => placed' = "home"]_vars

IsJoined == \E s \in Live : sockets[s].join = "joined"

\* A client in use is joined again once the relay stays reachable.
Rejoins == <>[]serving => [](started => <>(explicitlyClosed \/ IsJoined))

\* connect()'s promise is settled, unless the first connection closes without an
\* onerror before the join is acknowledged.
ConnectSettles ==
  <>[]serving => [](promise = "pending" => <>(promise # "pending" \/ quietClose
                                              \/ explicitlyClosed))

\* The link a session sees.
LinkOf ==
  IF ~started \/ explicitlyClosed THEN "stopped"
  ELSE IF IsJoined THEN "joined"
  ELSE IF Live # {} THEN "connecting" ELSE "down"

LinkView == INSTANCE SignalingLink WITH link <- LinkOf, everJoined <- hasConnectedOnce

\* The client implements the link that MonitorSession is built on.
ImplementsLink == LinkView!Spec
=============================================================================
