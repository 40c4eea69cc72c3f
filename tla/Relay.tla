------------------------------- MODULE Relay -------------------------------
(***************************************************************************)
(* The signalling relay: signal-server/src/server.ts.  It introduces one   *)
(* Monitor and any number of Parents that joined the same room, forwards   *)
(* their signalling frames, lets a Monitor register short-lived aliases    *)
(* (pairing codes) for its room, and tears down rooms one side abandoned.  *)
(*                                                                         *)
(* The server is one event loop, so each handler is one atomic step.  What *)
(* is concurrent is the order of the events: a client's frames, the close  *)
(* event of a socket (which trails close() by up to the closing handshake, *)
(* while frames already in flight are still handled), and three kinds of   *)
(* timers.                                                                 *)
(*                                                                         *)
(* An element of Socket names a connection.  After its close event a name  *)
(* may be taken by a new connection, so any number of them come and go;    *)
(* only the number alive at once is bounded by Cardinality(Socket).        *)
(***************************************************************************)
EXTENDS Integers, FiniteSets

CONSTANTS
  Socket,         \* names of connections
  Name,           \* room names a client may send
  Code,           \* the names a Monitor registers as aliases
  Device,         \* deviceIds of Parents
  Address,        \* remote addresses
  RemoteAddress,  \* the address each connection comes from
  RateLimit,      \* join attempts an address has per window
  MonitorPeer,    \* the one peer a Parent can be told about
  NoSocket, NoName, NoDevice, NoSignal

ASSUME RelayAssumption ==
  /\ Code \subseteq Name
  /\ RemoteAddress \in [Socket -> Address]
  /\ RateLimit \in Nat
  /\ MonitorPeer \notin Device
  /\ NoSocket \notin Socket
  /\ NoName \notin Name
  /\ NoDevice \notin Device
  /\ NoSignal \notin [from : Socket, to : Socket]

VARIABLES
  status,         \* readyState of each connection
  joined,         \* joinedRoom, joinedRole, joinedDeviceId of each connection
  superseded,     \* supersededSockets
  rooms,          \* the keys of rooms
  monitor,        \* room.monitor, per name
  parents,        \* room.parents, per name
  roomTimeouts,   \* room TTL timeouts pending, per name
  aliases,        \* the room each alias resolves to
  aliasTimeouts,  \* alias TTL timeouts pending, per alias
  attempts,       \* joins counted in the address's current window
  told,           \* peers each client was told have joined and not left
  relayed         \* the signal forwarded by the last step, if any

socketVars == <<status, joined, superseded>>
roomVars   == <<rooms, monitor, parents, roomTimeouts>>
aliasVars  == <<aliases, aliasTimeouts>>
vars == <<socketVars, roomVars, aliasVars, attempts, told, relayed>>

NotJoined == [room |-> NoName, role |-> "none", device |-> NoDevice]
AsMonitor(n) == [room |-> n, role |-> "monitor", device |-> NoDevice]
AsParent(n, d) == [room |-> n, role |-> "parent", device |-> d]

Membership == {NotJoined} \cup {AsMonitor(n) : n \in Name}
                          \cup {AsParent(n, d) : n \in Name, d \in Device}

NoParents == [d \in Device |-> NoSocket]

Init ==
  /\ status = [s \in Socket |-> "closed"]
  /\ joined = [s \in Socket |-> NotJoined]
  /\ superseded = {}
  /\ rooms = {}
  /\ monitor = [n \in Name |-> NoSocket]
  /\ parents = [n \in Name |-> NoParents]
  /\ roomTimeouts = [n \in Name |-> 0]
  /\ aliases = [c \in Code |-> NoName]
  /\ aliasTimeouts = [c \in Code |-> 0]
  /\ attempts = [a \in Address |-> 0]
  /\ told = [s \in Socket |-> {}]
  /\ relayed = NoSignal

-----------------------------------------------------------------------------
(* Helpers of the handlers.                                                *)

\* Frames are handled until the close event, in CLOSING too.
Receiving(s) == status[s] \in {"open", "closing"}

\* closeWithError and socket.close(): what the sockets in S become.
ClosingAll(S) ==
  [s \in Socket |-> IF s \in S /\ status[s] = "open" THEN "closing" ELSE status[s]]

DevicesIn(ps) == {d \in Device : ps[d] # NoSocket}
ParentSockets(ps) == {ps[d] : d \in DevicesIn(ps)}
Occupants(n) == ParentSockets(parents[n]) \cup ({monitor[n]} \ {NoSocket})

\* send(): a frame reaches a client only while its socket is OPEN.
Tell(t, view) == IF status[t] = "open" THEN view ELSE told[t]

\* A mutant: the Parents already in the room are not told of the Monitor.
IntroduceMonitor_OneWay(s, ps) ==
  [t \in Socket |-> IF t = s THEN Tell(t, told[t] \cup DevicesIn(ps)) ELSE told[t]]

\* peer-joined, both ways, when Monitor s joins a room whose Parents are ps.
IntroduceMonitor(s, ps) ==
  [t \in Socket |->
     IF t = s THEN Tell(t, told[t] \cup DevicesIn(ps))
     ELSE IF t \in ParentSockets(ps) THEN Tell(t, told[t] \cup {MonitorPeer})
     ELSE told[t]]

\* peer-joined when Parent s joins as device d: the Monitor m, if there is one,
\* is told only of a device that had no socket in the room.
IntroduceParent(s, d, m, isNew) ==
  IF m = NoSocket THEN told
  ELSE [t \in Socket |->
          IF t = s THEN Tell(t, told[t] \cup {MonitorPeer})
          ELSE IF t = m /\ isNew THEN Tell(t, told[t] \cup {d})
          ELSE told[t]]

\* A mutant: the tracked timer is replaced without clearTimeout.
Cleared_NoClearTimeout(pending) == pending

\* clearTimeout on the tracked timer, if one is armed.
Cleared(pending) == IF pending > 0 THEN pending - 1 ELSE pending

\* A mutant: armed for every room that is not empty, matched ones included.
RearmRoomTimer_WhenMatched(n, m, ps) ==
  [roomTimeouts EXCEPT ![n] =
     Cleared(@) + IF m = NoSocket /\ DevicesIn(ps) = {} THEN 0 ELSE 1]

\* rearmRoomTimer for a room whose occupants are m and ps: a timeout is armed
\* only when exactly one side is present.
RearmRoomTimer(n, m, ps) ==
  LET matchedOrEmpty == (m # NoSocket) <=> (DevicesIn(ps) # {})
  IN  [roomTimeouts EXCEPT ![n] = Cleared(@) + IF matchedOrEmpty THEN 0 ELSE 1]

\* JoinRateLimiter.attempt: the first attempt of a window always passes, and a
\* window runs from its first attempt however many follow.
Attempt(s) ==
  attempts' = [attempts EXCEPT ![RemoteAddress[s]] = IF @ > RateLimit THEN @ ELSE @ + 1]

WithinBudget(s) ==
  LET count == attempts[RemoteAddress[s]] IN count = 0 \/ count < RateLimit

-----------------------------------------------------------------------------
(* Connections and the frames they may send, in any order.                 *)

Connect(s) ==
  /\ status[s] = "closed"
  /\ status' = [status EXCEPT ![s] = "open"]
  /\ joined' = [joined EXCEPT ![s] = NotJoined]
  /\ superseded' = superseded \ {s}
  /\ told' = [told EXCEPT ![s] = {}]
  /\ relayed' = NoSignal
  /\ UNCHANGED <<roomVars, aliasVars, attempts>>

\* closeWithError for 'invalid-message' and 'must-join-first': a frame the
\* server cannot accept from this socket (malformed, a second join, a
\* set-alias or signal before joining, a Parent's set-alias, a Monitor's
\* signal without `to`).  Any socket may send one.
RejectFrame(s) ==
  /\ status[s] = "open"
  /\ status' = ClosingAll({s})
  /\ relayed' = NoSignal
  /\ UNCHANGED <<joined, superseded, roomVars, aliasVars, attempts, told>>

JoinRateLimited(s) ==
  /\ Receiving(s)
  /\ joined[s] = NotJoined
  /\ ~WithinBudget(s)
  /\ Attempt(s)
  /\ status' = ClosingAll({s})
  /\ relayed' = NoSignal
  /\ UNCHANGED <<joined, superseded, roomVars, aliasVars, told>>

\* A join that passed the rate limiter.
Admitted(s) ==
  /\ Receiving(s)
  /\ joined[s] = NotJoined
  /\ WithinBudget(s)
  /\ Attempt(s)
  /\ relayed' = NoSignal

JoinRoleTaken(s, n) ==
  /\ monitor[n] # NoSocket
  /\ Admitted(s)
  /\ status' = ClosingAll({s})
  /\ UNCHANGED <<joined, superseded, roomVars, aliasVars, told>>

\* A Monitor joins its own room name directly, never through an alias.
JoinMonitor(s, n) ==
  /\ monitor[n] = NoSocket
  /\ Admitted(s)
  /\ joined' = [joined EXCEPT ![s] = AsMonitor(n)]
  /\ rooms' = rooms \cup {n}
  /\ monitor' = [monitor EXCEPT ![n] = s]
  /\ roomTimeouts' = RearmRoomTimer(n, s, parents[n])
  /\ told' = IntroduceMonitor(s, parents[n])
  /\ UNCHANGED <<status, superseded, parents, aliasVars>>

Resolve(n) == IF n \in Code /\ aliases[n] # NoName THEN aliases[n] ELSE n

\* A mutant: joinedRoom is the name the Parent sent, not the one it resolved to.
JoinedAs_Unresolved(name, d) == AsParent(name, d)

JoinedAs(name, d) == AsParent(Resolve(name), d)

\* A mutant: the replaced socket is marked but not closed.
Supersede_LeftOpen(existing) ==
  /\ superseded' = superseded \cup ({existing} \ {NoSocket})
  /\ status' = status

\* A Parent's socket that this deviceId still held is marked and closed.
Supersede(existing) ==
  /\ superseded' = superseded \cup ({existing} \ {NoSocket})
  /\ status' = ClosingAll({existing} \ {NoSocket})

\* A Parent joins the room its code or room name resolves to.
JoinParent(s, name, d) ==
  LET n == Resolve(name)
      existing == parents[n][d]
      present == [parents[n] EXCEPT ![d] = s]
  IN  /\ Admitted(s)
      /\ Supersede(existing)
      /\ joined' = [joined EXCEPT ![s] = JoinedAs(name, d)]
      /\ rooms' = rooms \cup {n}
      /\ parents' = [parents EXCEPT ![n] = present]
      /\ roomTimeouts' = RearmRoomTimer(n, monitor[n], present)
      /\ told' = IntroduceParent(s, d, monitor[n], existing = NoSocket)
      /\ UNCHANGED <<monitor, aliasVars>>

\* A Monitor registers c for its room, restarting c's TTL.  An armed code also
\* restarts the TTL of the Monitor's room, if the room still exists.
SetAlias(s, c) ==
  LET n == joined[s].room
  IN  /\ Receiving(s)
      /\ joined[s].role = "monitor"
      /\ aliases' = [aliases EXCEPT ![c] = n]
      /\ aliasTimeouts' = [aliasTimeouts EXCEPT ![c] = Cleared(@) + 1]
      /\ roomTimeouts' = IF n \in rooms
                         THEN RearmRoomTimer(n, monitor[n], parents[n])
                         ELSE roomTimeouts
      /\ relayed' = NoSignal
      /\ UNCHANGED <<socketVars, rooms, monitor, parents, attempts, told>>

\* Forward a signalling frame; the frame is lost if t is not OPEN.
Forward(s, t) ==
  /\ relayed' = IF status[t] = "open" THEN [from |-> s, to |-> t] ELSE NoSignal
  /\ UNCHANGED <<socketVars, roomVars, aliasVars, attempts, told>>

\* A Monitor addresses one Parent of its room by deviceId.
SignalToParent(s, d) ==
  LET n == joined[s].room
  IN  /\ Receiving(s)
      /\ joined[s].role = "monitor"
      /\ n \in rooms
      /\ parents[n][d] # NoSocket
      /\ Forward(s, parents[n][d])

\* A Parent's frame goes to the Monitor of its room, labelled with its deviceId.
SignalToMonitor(s) ==
  LET n == joined[s].room
  IN  /\ Receiving(s)
      /\ joined[s].role = "parent"
      /\ n \in rooms
      /\ monitor[n] # NoSocket
      /\ Forward(s, monitor[n])

-----------------------------------------------------------------------------
(* The close event of a socket.                                            *)

Closed(s) ==
  /\ Receiving(s)
  /\ status' = [status EXCEPT ![s] = "closed"]
  /\ relayed' = NoSignal
  /\ UNCHANGED <<joined, superseded, aliasVars, attempts>>

\* Nothing to clean up: superseded, never joined, or its room is gone.
CloseIgnored(s) ==
  /\ s \in superseded \/ joined[s] = NotJoined \/ joined[s].room \notin rooms
  /\ Closed(s)
  /\ UNCHANGED <<roomVars, told>>

\* The end of the close handler: an empty room is deleted with its timer, any
\* other is rearmed.
Vacate(n, m, ps) ==
  /\ monitor' = [monitor EXCEPT ![n] = m]
  /\ parents' = [parents EXCEPT ![n] = ps]
  /\ IF m = NoSocket /\ DevicesIn(ps) = {}
     THEN /\ rooms' = rooms \ {n}
          /\ roomTimeouts' = [roomTimeouts EXCEPT ![n] = Cleared(@)]
     ELSE /\ rooms' = rooms
          /\ roomTimeouts' = RearmRoomTimer(n, m, ps)

\* room.monitor is deleted whichever socket it holds by now.
CloseMonitor(s) ==
  LET n == joined[s].room
  IN  /\ s \notin superseded
      /\ joined[s].role = "monitor"
      /\ n \in rooms
      /\ Closed(s)
      /\ Vacate(n, NoSocket, parents[n])
      /\ told' = [t \in Socket |-> IF t \in ParentSockets(parents[n])
                                   THEN Tell(t, told[t] \ {MonitorPeer}) ELSE told[t]]

\* The guard of a Parent's close: is s still the socket of its deviceId?
IsCurrent(s) == parents[joined[s].room][joined[s].device] = s

\* A Parent leaves only if it is still the socket of its deviceId.
CloseParent(s) ==
  LET n == joined[s].room
      d == joined[s].device
  IN  /\ s \notin superseded
      /\ joined[s].role = "parent"
      /\ n \in rooms
      /\ Closed(s)
      /\ Vacate(n, monitor[n],
                IF IsCurrent(s) THEN [parents[n] EXCEPT ![d] = NoSocket] ELSE parents[n])
      /\ told' = [t \in Socket |-> IF IsCurrent(s) /\ t = monitor[n]
                                   THEN Tell(t, told[t] \ {d}) ELSE told[t]]

-----------------------------------------------------------------------------
(* Timers.                                                                 *)

\* The room TTL: every occupant is closed and the room is gone at once, before
\* any of their close events.
RoomExpires(n) ==
  /\ roomTimeouts[n] > 0
  /\ roomTimeouts' = [roomTimeouts EXCEPT ![n] = @ - 1]
  /\ status' = ClosingAll(Occupants(n))
  /\ rooms' = rooms \ {n}
  /\ monitor' = [monitor EXCEPT ![n] = NoSocket]
  /\ parents' = [parents EXCEPT ![n] = NoParents]
  /\ relayed' = NoSignal
  /\ UNCHANGED <<joined, superseded, aliasVars, attempts, told>>

AliasExpires(c) ==
  /\ aliasTimeouts[c] > 0
  /\ aliasTimeouts' = [aliasTimeouts EXCEPT ![c] = @ - 1]
  /\ aliases' = [aliases EXCEPT ![c] = NoName]
  /\ relayed' = NoSignal
  /\ UNCHANGED <<socketVars, roomVars, attempts, told>>

\* windowMs has passed since the address's first counted attempt.
WindowElapses(a) ==
  /\ attempts[a] > 0
  /\ attempts' = [attempts EXCEPT ![a] = 0]
  /\ relayed' = NoSignal
  /\ UNCHANGED <<socketVars, roomVars, aliasVars, told>>

-----------------------------------------------------------------------------
Frame(s) ==
  \/ RejectFrame(s)
  \/ JoinRateLimited(s)
  \/ \E n \in Name : JoinRoleTaken(s, n) \/ JoinMonitor(s, n)
  \/ \E n \in Name, d \in Device : JoinParent(s, n, d)
  \/ \E c \in Code : SetAlias(s, c)
  \/ \E d \in Device : SignalToParent(s, d)
  \/ SignalToMonitor(s)

Close(s) == CloseIgnored(s) \/ CloseMonitor(s) \/ CloseParent(s)

Next ==
  \/ \E s \in Socket : Connect(s) \/ Frame(s) \/ Close(s)
  \/ \E n \in Name : RoomExpires(n)
  \/ \E c \in Code : AliasExpires(c)
  \/ \E a \in Address : WindowElapses(a)

Spec == Init /\ [][Next]_vars

-----------------------------------------------------------------------------
(* Properties.                                                             *)

\* Types.  At most one timeout is pending per room and per alias.
TypeOK ==
  /\ status \in [Socket -> {"closed", "open", "closing"}]
  /\ joined \in [Socket -> Membership]
  /\ superseded \subseteq Socket
  /\ rooms \subseteq Name
  /\ monitor \in [Name -> Socket \cup {NoSocket}]
  /\ parents \in [Name -> [Device -> Socket \cup {NoSocket}]]
  /\ roomTimeouts \in [Name -> 0 .. 1]
  /\ aliases \in [Code -> Name \cup {NoName}]
  /\ aliasTimeouts \in [Code -> 0 .. 1]
  /\ attempts \in [Address -> 0 .. RateLimit + 1]
  /\ told \in [Socket -> SUBSET (Device \cup {MonitorPeer})]
  /\ relayed \in [from : Socket, to : Socket] \cup {NoSignal}

\* Whoever a room holds joined that room in that role, was not superseded, and
\* has not had its close event: no close event can leave a dead socket behind
\* (a dead Monitor would keep its role taken, a dead Parent its deviceId).
NoGhostMembers ==
  \A n \in Name :
    /\ monitor[n] # NoSocket =>
         /\ status[monitor[n]] # "closed"
         /\ joined[monitor[n]] = AsMonitor(n)
    /\ \A d \in Device : parents[n][d] # NoSocket =>
         /\ status[parents[n][d]] # "closed"
         /\ joined[parents[n][d]] = AsParent(n, d)
         /\ parents[n][d] \notin superseded

\* A room entry exists exactly while somebody is in it, so a room that both
\* sides left never stays in memory, however its members left.
RoomsAreOccupied == \A n \in Name : n \in rooms <=> Occupants(n) # {}

\* A room with one side alone is always on a TTL, and no other room ever is: no
\* abandoned room without a timer, no timer that can tear down a matched pair.
LoneSideIsTimed ==
  \A n \in Name :
    roomTimeouts[n] = IF (monitor[n] # NoSocket) <=> (DevicesIn(parents[n]) # {})
                      THEN 0 ELSE 1

\* A code resolves exactly as long as its TTL timeout is pending.
AliasLivesOnItsTimer == \A c \in Code : aliases[c] # NoName <=> aliasTimeouts[c] = 1

\* What the clients in a room were told adds up to who is there: the Monitor
\* knows exactly the devices present, each Parent knows whether a Monitor is.
ViewsMatchRoom ==
  \A n \in Name :
    /\ monitor[n] # NoSocket /\ status[monitor[n]] = "open" =>
         told[monitor[n]] = DevicesIn(parents[n])
    /\ \A p \in ParentSockets(parents[n]) : status[p] = "open" =>
         told[p] = IF monitor[n] = NoSocket THEN {} ELSE {MonitorPeer}

\* A frame that an open Parent sent reaches a Monitor that knows its deviceId,
\* and an answer to that deviceId goes back to the same socket.
SignalsAreAnswerable ==
  relayed # NoSignal /\ joined[relayed.from].role = "parent"
                     /\ status[relayed.from] = "open" =>
    LET sender == joined[relayed.from]
    IN  /\ sender.device \in told[relayed.to]
        /\ parents[sender.room][sender.device] = relayed.from
        /\ joined[relayed.to] = AsMonitor(sender.room)
=============================================================================
