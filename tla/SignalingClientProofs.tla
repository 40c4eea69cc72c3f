------------------------ MODULE SignalingClientProofs ------------------------
(***************************************************************************)
(* For any set of sockets, SignalingClient implements SignalingLink, keeps *)
(* exactly one lifeline, and never leaves the room it was put in.          *)
(***************************************************************************)
EXTENDS SignalingClient, FiniteSetTheorems, TLAPS

Record == [at : {"none", "connecting", "open", "dying", "closing"},
           join : {"unsent", "sent", "joined"}, first : BOOLEAN]

\* A client in use hangs on one retry or on one socket, a closed one on none;
\* OneLifeline without counting.
Lifeline ==
  IF started /\ ~explicitlyClosed
  THEN \/ reconnectTimer = 1 /\ Live = {}
       \/ reconnectTimer = 0 /\ socket \in Socket /\ Live = {socket}
  ELSE reconnectTimer = 0 /\ \A s \in Live : sockets[s].at = "closing"

\* Nothing has happened to a client before connect().
Untouched == ~started => Live = {} /\ ~hasConnectedOnce /\ ~firstTryFailed

\* A socket that is not in use has no past.
NoRemains == \A s \in Socket \ Live : sockets[s] = Unused

\* A socket joins only once it is open.
JoinsWhenOpen == \A s \in Live : sockets[s].at = "connecting" => sockets[s].join = "unsent"

ClientInv ==
  /\ started \in BOOLEAN /\ explicitlyClosed \in BOOLEAN /\ hasConnectedOnce \in BOOLEAN
  /\ firstTryFailed \in BOOLEAN
  /\ sockets \in [Socket -> Record]
  /\ reconnectTimer \in {0, 1}
  /\ Lifeline
  /\ Untouched
  /\ NoRemains
  /\ JoinsWhenOpen

USE DEF ClientInv, Lifeline, Untouched, NoRemains, JoinsWhenOpen

LEMMA ClientInit == Init => ClientInv
<1> SUFFICES ASSUME Init PROVE ClientInv
  OBVIOUS
<1>1. Unused \in Record /\ Unused.at = "none"
  BY DEF Unused, Record
<1>2. sockets = [s \in Socket |-> Unused]
  BY DEF Init
<1>3. Live = {} /\ sockets \in [Socket -> Record]
  BY <1>1, <1>2 DEF Live
<1> QED
  BY <1>2, <1>3 DEF Init

\* A step that changes one socket in use, and nothing the link depends on.
LEMMA SocketStep ==
  ASSUME ClientInv, NEW s \in Live, NEW r \in Record, r.at # "none",
         sockets' = [sockets EXCEPT ![s] = r],
         sockets[s].at = "closing" => r.at = "closing",
         r.at = "connecting" => r.join = "unsent",
         started' = started, explicitlyClosed' = explicitlyClosed, socket' = socket,
         reconnectTimer' = reconnectTimer, firstTryFailed' = firstTryFailed,
         hasConnectedOnce' \in BOOLEAN, ~started => hasConnectedOnce' = hasConnectedOnce
  PROVE  ClientInv' /\ Live' = Live
<1>1. s \in Socket /\ sockets[s].at # "none"
  BY DEF Live
<1>2. \A u \in Socket : sockets'[u] = IF u = s THEN r ELSE sockets[u]
  BY <1>1
<1>3. Live' = Live
  BY <1>1, <1>2 DEF Live
<1>4. sockets' \in [Socket -> Record]
  BY <1>1
<1>5. Lifeline'
  BY <1>1, <1>2, <1>3 DEF Live
<1>6. NoRemains' /\ JoinsWhenOpen'
  BY <1>1, <1>2, <1>3 DEF Live
<1> QED
  BY <1>3, <1>4, <1>5, <1>6

\* A new socket, when none is in use.
LEMMA AttemptStep ==
  ASSUME ClientInv, NEW first \in BOOLEAN, AttemptConnect(first), Live = {},
         started', ~explicitlyClosed', reconnectTimer' = 0,
         hasConnectedOnce' \in BOOLEAN, firstTryFailed' \in BOOLEAN,
         started' \in BOOLEAN, explicitlyClosed' \in BOOLEAN
  PROVE  ClientInv' /\ LinkOf' = "connecting"
<1>1. PICK s \in Socket : /\ sockets' = [sockets EXCEPT ![s] = Opening(first)]
                          /\ socket' = s
  BY DEF AttemptConnect
<1>2. /\ Opening(first) \in Record
      /\ Opening(first).at = "connecting" /\ Opening(first).join = "unsent"
  BY DEF Opening, Record
<1>3. \A u \in Socket : sockets'[u] = IF u = s THEN Opening(first) ELSE sockets[u]
  BY <1>1
<1>4. Live' = {s}
  BY <1>2, <1>3 DEF Live
<1>5. sockets' \in [Socket -> Record]
  BY <1>1, <1>2
<1>6. NoRemains' /\ JoinsWhenOpen'
  BY <1>2, <1>3, <1>4
<1>7. ~IsJoined'
  BY <1>2, <1>3, <1>4 DEF IsJoined
<1> QED
  BY <1>1, <1>4, <1>5, <1>6, <1>7 DEF LinkOf

\* A socket in use goes away.
LEMMA GoneStep ==
  ASSUME ClientInv, NEW s \in Live, sockets' = [sockets EXCEPT ![s] = Unused]
  PROVE  /\ Live' = Live \ {s}
         /\ sockets' \in [Socket -> Record]
         /\ NoRemains' /\ JoinsWhenOpen'
         /\ \A u \in Live' : sockets'[u] = sockets[u]
<1>1. s \in Socket /\ sockets[s].at # "none"
  BY DEF Live
<1>2. Unused \in Record /\ Unused.at = "none"
  BY DEF Unused, Record
<1>3. \A u \in Socket : sockets'[u] = IF u = s THEN Unused ELSE sockets[u]
  BY <1>1
<1>4. Live' = Live \ {s}
  BY <1>1, <1>2, <1>3 DEF Live
<1> QED
  BY <1>1, <1>2, <1>3, <1>4 DEF Live

\* A step of the detailed link is a step of the abstract one, or none.
LinkStep == LinkView!Next \/ UNCHANGED LinkView!linkVars

USE DEF LinkStep, LinkView!Next, LinkView!linkVars

\* Opened, ErrorFrame and Cut change a socket and leave the link as it is.
LEMMA SocketLink ==
  ASSUME ClientInv, NEW s \in Live, NEW r \in Record,
         sockets' = [sockets EXCEPT ![s] = r], Live' = Live,
         (r.join = "joined") <=> (sockets[s].join = "joined"),
         started' = started, explicitlyClosed' = explicitlyClosed,
         hasConnectedOnce' = hasConnectedOnce, firstTryFailed' = firstTryFailed
  PROVE  LinkStep
<1>1. s \in Socket
  BY DEF Live
<1>2. \A u \in Live : u \in Socket /\ sockets'[u] = IF u = s THEN r ELSE sockets[u]
  BY <1>1 DEF Live
<1>3. IsJoined' <=> IsJoined
  BY <1>2 DEF IsJoined
<1> QED
  BY <1>3 DEF LinkOf

LEMMA ClientStep ==
  ASSUME ClientInv, [Next]_vars
  PROVE  ClientInv' /\ LinkStep
<1>1. ASSUME Connect PROVE ClientInv' /\ LinkStep
  <2>1. Live = {} /\ reconnectTimer = 0
    BY <1>1 DEF Connect
  <2>2. ClientInv' /\ LinkOf' = "connecting"
    BY <1>1, <2>1, AttemptStep DEF Connect
  <2>3. LinkView!Restart
    BY <1>1, <2>2 DEF Connect, LinkView!Restart
  <2> QED
    BY <2>2, <2>3
<1>2. ASSUME RetryFires PROVE ClientInv' /\ LinkStep
  <2>1. started /\ ~explicitlyClosed /\ Live = {} /\ reconnectTimer' = 0
    BY <1>2 DEF RetryFires
  <2>2. ClientInv' /\ LinkOf' = "connecting"
    BY <1>2, <2>1, AttemptStep DEF RetryFires
  <2>3. LinkOf = "down"
    BY <2>1 DEF LinkOf, IsJoined
  <2>4. LinkView!Retry
    BY <1>2, <2>2, <2>3 DEF RetryFires, LinkView!Retry
  <2> QED
    BY <2>2, <2>4
<1>3. ASSUME Close PROVE ClientInv' /\ LinkStep
  <2>1. \A u \in Socket : sockets'[u] = IF u = socket /\ u \in Live
                                       THEN [sockets[u] EXCEPT !.at = "closing"]
                                       ELSE sockets[u]
    BY <1>3 DEF Close
  <2>2. \A u \in Socket : [sockets[u] EXCEPT !.at = "closing"] \in Record
    BY DEF Record
  <2>3. \A u \in Socket : [sockets[u] EXCEPT !.at = "closing"].at = "closing"
    BY DEF Record
  <2>4. sockets' \in [Socket -> Record]
    BY <1>3, <2>2 DEF Close
  <2>5. Live' = Live
    BY <2>1, <2>3 DEF Live
  <2>6. Live \subseteq {socket}
    BY <1>3 DEF Close
  <2>7. NoRemains' /\ JoinsWhenOpen' /\ \A u \in Live' : sockets'[u].at = "closing"
    BY <2>1, <2>3, <2>5, <2>6 DEF Live
  <2>8. ClientInv'
    BY <1>3, <2>4, <2>5, <2>7 DEF Close, CancelRetry
  <2>9. LinkView!Close
    BY <1>3 DEF Close, LinkView!Close, LinkOf
  <2> QED
    BY <2>8, <2>9
<1>4. ASSUME NEW s \in Socket, Opened(s) PROVE ClientInv' /\ LinkStep
  <2> DEFINE r == [sockets[s] EXCEPT !.at = "open", !.join = "sent"]
  <2>1. s \in Live /\ sockets[s].join = "unsent"
    BY <1>4 DEF Opened, Live
  <2>2. r \in Record /\ r.at = "open" /\ r.join = "sent"
    BY DEF Record
  <2>3. sockets' = [sockets EXCEPT ![s] = r]
    BY <1>4 DEF Opened
  <2> HIDE DEF r
  <2>4. ClientInv' /\ Live' = Live
    BY <1>4, <2>1, <2>2, <2>3, SocketStep DEF Opened
  <2>5. LinkStep
    BY <1>4, <2>1, <2>2, <2>3, <2>4, SocketLink DEF Opened
  <2> QED
    BY <2>4, <2>5
<1>5. ASSUME NEW s \in Socket, ErrorFrame(s) \/ Cut(s) PROVE ClientInv' /\ LinkStep
  <2> DEFINE r == [sockets[s] EXCEPT !.at = "dying"]
  <2>1. s \in Live /\ sockets[s].at # "closing"
    BY <1>5 DEF ErrorFrame, Cut, Live
  <2>2. r \in Record /\ r.at = "dying" /\ r.join = sockets[s].join
    BY DEF Record
  <2>3. sockets' = [sockets EXCEPT ![s] = r]
    BY <1>5 DEF ErrorFrame, Cut
  <2> HIDE DEF r
  <2>4. ClientInv' /\ Live' = Live
    BY <1>5, <2>1, <2>2, <2>3, SocketStep DEF ErrorFrame, Cut
  <2>5. LinkStep
    BY <1>5, <2>1, <2>2, <2>3, <2>4, SocketLink DEF ErrorFrame, Cut
  <2> QED
    BY <2>4, <2>5
<1>6. ASSUME NEW s \in Socket, Joined(s) PROVE ClientInv' /\ LinkStep
  <2> DEFINE r == [sockets[s] EXCEPT !.join = "joined"]
  <2>1. s \in Live /\ sockets[s].join = "sent" /\ sockets[s].at \in {"open", "closing"}
    BY <1>6 DEF Joined, Live
  <2>2. r \in Record /\ r.at = sockets[s].at /\ r.join = "joined"
    BY DEF Record
  <2>3. sockets' = [sockets EXCEPT ![s] = r]
    BY <1>6 DEF Joined
  <2> HIDE DEF r
  <2>4. started
    BY <2>1
  <2>5. /\ hasConnectedOnce' = TRUE
        /\ started' = started /\ explicitlyClosed' = explicitlyClosed /\ socket' = socket
        /\ reconnectTimer' = reconnectTimer /\ firstTryFailed' = firstTryFailed
    BY <1>6 DEF Joined, OnReconnected
  <2>6. ClientInv' /\ Live' = Live
    BY <2>1, <2>2, <2>3, <2>4, <2>5, SocketStep
  <2>7. CASE explicitlyClosed
    <3>1. LinkView!Close
      BY <2>5, <2>7 DEF LinkView!Close, LinkOf
    <3> QED
      BY <2>6, <3>1
  <2>8. CASE ~explicitlyClosed
    <3>1. Live = {s} /\ sockets'[s] = r
      BY <2>1, <2>3, <2>4, <2>8 DEF Live
    <3>2. ~IsJoined /\ IsJoined'
      BY <2>1, <2>2, <2>6, <3>1 DEF IsJoined
    <3>3. LinkOf = "connecting" /\ LinkOf' = "joined"
      BY <2>4, <2>5, <2>8, <3>1, <3>2 DEF LinkOf
    <3>4. LinkView!Acknowledge
      BY <2>5, <3>3 DEF LinkView!Acknowledge
    <3> QED
      BY <2>6, <3>4
  <2> QED
    BY <2>7, <2>8
<1>7. ASSUME NEW s \in Socket, NEW failed \in BOOLEAN, Closed(s, failed)
      PROVE ClientInv' /\ LinkStep
  <2>1. s \in Live /\ started
    BY <1>7 DEF Closed, Live
  <2>2. /\ sockets' = [sockets EXCEPT ![s] = Unused]
        /\ started' = started /\ explicitlyClosed' = explicitlyClosed
        /\ hasConnectedOnce' = hasConnectedOnce /\ socket' = socket
        /\ firstTryFailed' = (firstTryFailed \/ (~hasConnectedOnce /\ ~explicitlyClosed))
    BY <1>7 DEF Closed
  <2>3. /\ Live' = Live \ {s} /\ sockets' \in [Socket -> Record]
        /\ NoRemains' /\ JoinsWhenOpen'
        /\ \A u \in Live' : sockets'[u] = sockets[u]
    BY <2>1, <2>2, GoneStep
  <2>4. CASE explicitlyClosed
    <3>1. reconnectTimer' = reconnectTimer
      BY <1>7, <2>4 DEF Closed, OnClose
    <3>2. ClientInv'
      BY <2>1, <2>2, <2>3, <2>4, <3>1
    <3>3. UNCHANGED LinkView!linkVars
      BY <2>2, <2>4 DEF LinkOf
    <3> QED
      BY <3>2, <3>3
  <2>5. CASE ~explicitlyClosed
    <3>1. reconnectTimer' = 1 /\ Live' = {}
      BY <1>7, <2>1, <2>3, <2>5 DEF Closed, OnClose, ScheduleReconnect
    <3>2. ClientInv'
      BY <2>1, <2>2, <2>3, <2>5, <3>1
    <3>3. LinkOf \in {"connecting", "joined"}
      BY <2>1, <2>5 DEF LinkOf
    <3>4. LinkOf' = "down"
      BY <2>1, <2>2, <2>5, <3>1 DEF LinkOf, IsJoined
    <3>5. LinkView!Lose
      BY <2>2, <2>5, <3>3, <3>4 DEF LinkView!Lose
    <3> QED
      BY <3>2, <3>5
  <2> QED
    BY <2>4, <2>5
<1>8. ASSUME ServingChanges \/ AliasChanges \/ UNCHANGED vars PROVE ClientInv' /\ LinkStep
  <2>1. UNCHANGED <<started, explicitlyClosed, hasConnectedOnce, sockets, socket,
                    reconnectTimer, firstTryFailed>>
    BY <1>8 DEF ServingChanges, AliasChanges, vars, clientVars
  <2>2. Live' = Live
    BY <2>1 DEF Live
  <2> QED
    BY <2>1, <2>2 DEF LinkOf, IsJoined
<1> QED
  BY <1>1, <1>2, <1>3, <1>4, <1>5, <1>6, <1>7, <1>8 DEF Next, OnSocket

\* SignalingClient (src/webrtc/signalingClient.ts) keeps the promise MonitorSession
\* is built on: the link goes down only by losing a connection, comes up only
\* through a retry and an acknowledged join, and a closed client stays closed.
THEOREM ClientImplementsLink == Spec => ImplementsLink
<1>1. Init => LinkView!Init
  BY DEF Init, LinkView!Init, LinkOf
<1>2. ClientInv /\ [Next]_vars => ClientInv'
  BY ClientStep
<1>3. ClientInv /\ [Next]_vars => [LinkView!Next]_(LinkView!linkVars)
  BY ClientStep
<1> QED
  BY <1>1, <1>2, <1>3, ClientInit, PTL DEF Spec, ImplementsLink, LinkView!Spec

\* A client in use hangs on exactly one socket or one retry, so it neither gives
\* up nor joins twice; a closed one has no retry and no socket left open
\* (onclose, scheduleReconnect and close of src/webrtc/signalingClient.ts).
THEOREM ClientOneLifeline == Spec => []OneLifeline
<1>1. ClientInv /\ [Next]_vars => ClientInv'
  BY ClientStep
<1>2. ClientInv => OneLifeline
  <2> SUFFICES ASSUME ClientInv, started, ~explicitlyClosed
               PROVE  Cardinality(Live) + reconnectTimer = 1 /\ Live \subseteq {socket}
    BY DEF OneLifeline
  <2>1. Cardinality({}) = 0 /\ Cardinality({socket}) = 1
    BY FS_EmptySet, FS_Singleton
  <2> QED
    BY <2>1
<1> QED
  BY <1>1, <1>2, ClientInit, PTL DEF Spec

\* What the client asks for is what the relay told it.
RoomInv ==
  /\ placed \in {"nowhere", "alias", "home"}
  /\ placed = "home" => room = "home"

\* A client that was once put in its Monitor's room joins that room after every
\* reconnect, for the alias it paired with is replaced by the room it resolved to
\* ('joined' of src/webrtc/signalingClient.ts).
THEOREM ClientRejoinsItsRoom == Spec => RejoinsItsRoom
<1>1. Init => RoomInv
  BY DEF Init, RoomInv
<1>2. ASSUME RoomInv, [Next]_vars
      PROVE  RoomInv' /\ (placed = "home" => placed' = "home")
  <2>1. ASSUME NEW s \in Socket, Joined(s)
        PROVE  RoomInv' /\ (placed = "home" => placed' = "home")
    BY <1>2, <2>1 DEF Joined, Resolved, RoomInv
  <2>2. ASSUME UNCHANGED <<room, placed>>
        PROVE  RoomInv' /\ (placed = "home" => placed' = "home")
    BY <1>2, <2>2 DEF RoomInv
  <2>3. CASE Connect \/ RetryFires \/ Close
    BY <2>2, <2>3 DEF Connect, RetryFires, Close, relayVars
  <2>4. ASSUME NEW s \in Socket, OnSocket(s)
        PROVE  RoomInv' /\ (placed = "home" => placed' = "home")
    BY <2>1, <2>2, <2>4 DEF OnSocket, Opened, ErrorFrame, Cut, Closed, relayVars
  <2>5. CASE ServingChanges \/ AliasChanges \/ UNCHANGED vars
    BY <2>2, <2>5 DEF ServingChanges, AliasChanges, vars, clientVars, relayVars
  <2> QED
    BY <1>2, <2>3, <2>4, <2>5 DEF Next
<1>3. RoomInv /\ [Next]_vars => RoomInv' /\ (placed = "home" => placed' = "home")
  BY <1>2
<1>4. RoomInv /\ [Next]_vars => RoomInv' /\ [placed = "home" => placed' = "home"]_vars
  BY <1>3
<1> QED
  BY <1>1, <1>4, PTL DEF Spec, RejoinsItsRoom

\* While "reconnecting" shows after a first attempt that succeeded, the next
\* 'joined' is yet to come and will fire onReconnected.
ShownInv ==
  /\ reconnecting \in BOOLEAN
  /\ ~started => ~reconnecting
  /\ reconnecting /\ ~firstTryFailed /\ ~explicitlyClosed =>
       hasConnectedOnce /\ \A s \in Live : sockets[s].join # "joined"

\* A new socket has not joined.
LEMMA FreshSocket ==
  ASSUME NEW first \in BOOLEAN, AttemptConnect(first), Live = {},
         sockets \in [Socket -> Record]
  PROVE  \A s \in Live' : sockets'[s].join # "joined"
<1>1. PICK u \in Socket : sockets' = [sockets EXCEPT ![u] = Opening(first)]
  BY DEF AttemptConnect
<1>2. \A s \in Socket : sockets'[s] = IF s = u THEN Opening(first) ELSE sockets[s]
  BY <1>1
<1> QED BY <1>2 DEF Live, Opening

LEMMA ShownStep ==
  ASSUME ClientInv, ShownInv, [Next]_vars
  PROVE  ShownInv'
<1> USE DEF ShownInv
<1>0. ClientInv'
  BY ClientStep
<1>1. CASE Connect
  <2>1. ~started /\ Live = {}
    BY <1>1 DEF Connect
  <2> QED BY <1>1, <2>1 DEF Connect
<1>7. CASE RetryFires
  <2>1. Live = {}
    BY <1>7 DEF RetryFires
  <2>2. \A s \in Live' : sockets'[s].join # "joined"
    BY <1>7, <2>1, FreshSocket DEF RetryFires
  <2> QED BY <1>7, <2>2 DEF RetryFires
<1>2. CASE Close
  BY <1>2, <1>0 DEF Close
<1>3. ASSUME NEW s \in Socket, Opened(s) \/ ErrorFrame(s) \/ Cut(s) PROVE ShownInv'
  <2>1. /\ \A u \in Socket : sockets'[u].join = "joined" => sockets[u].join = "joined"
        /\ Live' = Live
    BY <1>3 DEF Opened, ErrorFrame, Cut, Live, Record
  <2>2. Live \subseteq Socket
    BY DEF Live
  <2> QED BY <1>3, <2>1, <2>2 DEF Opened, ErrorFrame, Cut
<1>4. ASSUME NEW s \in Socket, Joined(s) PROVE ShownInv'
  BY <1>4 DEF Joined, OnReconnected, Live
<1>5. ASSUME NEW s \in Socket, NEW failed \in BOOLEAN, Closed(s, failed) PROVE ShownInv'
  <2>1. s \in Live /\ started
    BY <1>5 DEF Closed, Live
  <2>2. CASE explicitlyClosed
    BY <1>5, <2>1, <2>2 DEF Closed, OnClose
  <2>3. CASE ~explicitlyClosed
    <3>1. Live' = {}
      <4>1. Live = {s}
        BY <2>1, <2>3
      <4>2. Live' = Live \ {s}
        BY <1>5, <2>1, GoneStep DEF Closed
      <4> QED BY <4>1, <4>2
    <3>2. /\ reconnecting' = TRUE /\ started' = started
          /\ hasConnectedOnce' = hasConnectedOnce /\ (hasConnectedOnce \/ firstTryFailed')
      BY <1>5, <2>1, <2>3 DEF Closed, OnClose, ScheduleReconnect
    <3> QED BY <2>1, <3>1, <3>2
  <2> QED BY <2>2, <2>3
<1>6. ASSUME ServingChanges \/ AliasChanges \/ UNCHANGED vars PROVE ShownInv'
  BY <1>6 DEF ServingChanges, AliasChanges, vars, clientVars, Live
<1> QED
  BY <1>1, <1>2, <1>3, <1>4, <1>5, <1>6, <1>7 DEF Next, OnSocket

\* The session of a joined client does not go on showing "reconnecting", for
\* 'joined' fires onReconnected, once the first attempt has succeeded.
THEOREM ClientJoinedShowsConnected == Spec => []JoinedShowsConnected
<1>1. Init => ShownInv
  BY DEF Init, ShownInv
<1>2. ClientInv /\ ShownInv /\ [Next]_vars => (ClientInv /\ ShownInv)'
  BY ClientStep, ShownStep
<1>3. ShownInv => JoinedShowsConnected
  BY DEF ShownInv, JoinedShowsConnected
<1> QED
  BY <1>1, <1>2, <1>3, ClientInit, PTL DEF Spec
=============================================================================
