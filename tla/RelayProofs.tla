---------------------------- MODULE RelayProofs ----------------------------
(* Theorems about Relay, for any sockets, names, codes, devices and rate    *)
(* limit.                                                                   *)
EXTENDS Relay, TLAPS

\* Only Parents are superseded: a Monitor's socket is never marked.
SupersededAreParents == \A s \in superseded : joined[s].role = "parent"

\* The inductive invariant behind the membership theorems.
MembershipInv ==
  /\ TypeOK
  /\ NoGhostMembers
  /\ RoomsAreOccupied
  /\ LoneSideIsTimed
  /\ SupersededAreParents

-----------------------------------------------------------------------------
(* What the helpers return.                                                 *)

LEMMA ClosingAllType ==
  ASSUME TypeOK, NEW S
  PROVE  ClosingAll(S) \in [Socket -> {"closed", "open", "closing"}]
BY DEF TypeOK, ClosingAll

LEMMA RearmType ==
  ASSUME TypeOK, NEW n \in Name, NEW m, NEW ps
  PROVE  RearmRoomTimer(n, m, ps) \in [Name -> 0 .. 1]
BY DEF TypeOK, RearmRoomTimer, Cleared

LEMMA ToldType ==
  ASSUME TypeOK, NEW s \in Socket, NEW ps, NEW d \in Device, NEW m, NEW b \in BOOLEAN
  PROVE  /\ IntroduceMonitor(s, ps) \in [Socket -> SUBSET (Device \cup {MonitorPeer})]
         /\ IntroduceParent(s, d, m, b) \in [Socket -> SUBSET (Device \cup {MonitorPeer})]
BY DEF TypeOK, IntroduceMonitor, IntroduceParent, Tell, DevicesIn

LEMMA MembershipType ==
  ASSUME NEW n \in Name, NEW d \in Device
  PROVE  NotJoined \in Membership /\ AsMonitor(n) \in Membership /\ AsParent(n, d) \in Membership
BY DEF Membership

LEMMA JoinedRoom ==
  ASSUME TypeOK, NEW s \in Socket
  PROVE  /\ joined[s].role = "monitor" => /\ joined[s].room \in Name
                                          /\ joined[s] = AsMonitor(joined[s].room)
         /\ joined[s].role = "parent" => /\ joined[s].room \in Name
                                         /\ joined[s].device \in Device
                                         /\ joined[s] = AsParent(joined[s].room, joined[s].device)
BY DEF TypeOK, Membership, NotJoined, AsMonitor, AsParent

LEMMA ResolveType ==
  ASSUME TypeOK, NEW n \in Name
  PROVE  Resolve(n) \in Name
BY DEF TypeOK, Resolve

-----------------------------------------------------------------------------
LEMMA InitTypeOK == Init => TypeOK
BY RelayAssumption DEF Init, TypeOK, NoParents, Membership

LEMMA AttemptType ==
  ASSUME TypeOK, NEW s \in Socket, Attempt(s)
  PROVE  attempts' \in [Address -> 0 .. RateLimit + 1]
BY RelayAssumption DEF TypeOK, Attempt

LEMMA NextTypeOK == TypeOK /\ [Next]_vars => TypeOK'
<1> SUFFICES ASSUME TypeOK, [Next]_vars PROVE TypeOK'
  OBVIOUS
<1> USE DEF socketVars, roomVars, aliasVars
<1>1. ASSUME NEW s \in Socket, Connect(s) PROVE TypeOK'
  BY <1>1 DEF Connect, TypeOK, Membership
<1>2. ASSUME NEW s \in Socket, RejectFrame(s) PROVE TypeOK'
  BY <1>2, ClosingAllType DEF RejectFrame, TypeOK
<1>3. ASSUME NEW s \in Socket, JoinRateLimited(s) PROVE TypeOK'
  BY <1>3, ClosingAllType, AttemptType DEF JoinRateLimited, TypeOK
<1>4. ASSUME NEW s \in Socket, NEW n \in Name, JoinRoleTaken(s, n) PROVE TypeOK'
  BY <1>4, ClosingAllType, AttemptType DEF JoinRoleTaken, Admitted, TypeOK
<1>5. ASSUME NEW s \in Socket, NEW n \in Name, JoinMonitor(s, n) PROVE TypeOK'
  <2>1. /\ roomTimeouts' \in [Name -> 0 .. 1]
        /\ told' \in [Socket -> SUBSET (Device \cup {MonitorPeer})]
        /\ attempts' \in [Address -> 0 .. RateLimit + 1]
    <3>1. told' \in [Socket -> SUBSET (Device \cup {MonitorPeer})]
      BY <1>5 DEF JoinMonitor, TypeOK, IntroduceMonitor, Tell, DevicesIn
    <3> QED BY <1>5, <3>1, RearmType, AttemptType DEF JoinMonitor, Admitted
  <2>2. joined' \in [Socket -> Membership]
    BY <1>5 DEF JoinMonitor, TypeOK, Membership
  <2> QED BY <1>5, <2>1, <2>2 DEF JoinMonitor, Admitted, TypeOK
<1>6. ASSUME NEW s \in Socket, NEW name \in Name, NEW d \in Device, JoinParent(s, name, d)
      PROVE  TypeOK'
  <2> DEFINE n == Resolve(name)
             present == [parents[n] EXCEPT ![d] = s]
  <2>1. n \in Name
    BY ResolveType
  <2>2. joined' \in [Socket -> Membership]
    BY <1>6, <2>1 DEF JoinParent, JoinedAs, TypeOK, Membership
  <2>3. /\ status' \in [Socket -> {"closed", "open", "closing"}]
        /\ superseded' \subseteq Socket
    BY <1>6, <2>1, ClosingAllType DEF JoinParent, Supersede, TypeOK
  <2>4. /\ rooms' \subseteq Name
        /\ parents' \in [Name -> [Device -> Socket \cup {NoSocket}]]
    BY <1>6, <2>1 DEF JoinParent, TypeOK
  <2>5. /\ roomTimeouts' \in [Name -> 0 .. 1]
        /\ told' \in [Socket -> SUBSET (Device \cup {MonitorPeer})]
        /\ attempts' \in [Address -> 0 .. RateLimit + 1]
    BY <1>6, <2>1, RearmType, ToldType, AttemptType DEF JoinParent, Admitted
  <2> QED BY <1>6, <2>2, <2>3, <2>4, <2>5 DEF JoinParent, Admitted, TypeOK
<1>7. ASSUME NEW s \in Socket, NEW c \in Code, SetAlias(s, c) PROVE TypeOK'
  <2>1. joined[s].room \in Name
    BY <1>7, JoinedRoom DEF SetAlias
  <2>2. roomTimeouts' \in [Name -> 0 .. 1]
    BY <1>7, <2>1, RearmType DEF SetAlias, TypeOK
  <2>3. /\ aliases' \in [Code -> Name \cup {NoName}]
        /\ aliasTimeouts' \in [Code -> 0 .. 1]
    BY <1>7, <2>1 DEF SetAlias, TypeOK, Cleared
  <2> QED BY <1>7, <2>2, <2>3 DEF SetAlias, TypeOK
<1>8. ASSUME NEW s \in Socket, NEW d \in Device, SignalToParent(s, d) PROVE TypeOK'
  BY <1>8, JoinedRoom DEF SignalToParent, Forward, TypeOK
<1>9. ASSUME NEW s \in Socket, SignalToMonitor(s) PROVE TypeOK'
  BY <1>9, JoinedRoom DEF SignalToMonitor, Forward, TypeOK
<1>10. ASSUME NEW s \in Socket, CloseIgnored(s) PROVE TypeOK'
  BY <1>10 DEF CloseIgnored, Closed, TypeOK
<1>11. ASSUME NEW n \in Name, NEW m \in Socket \cup {NoSocket},
              NEW ps \in [Device -> Socket \cup {NoSocket}], Vacate(n, m, ps)
       PROVE  /\ monitor' \in [Name -> Socket \cup {NoSocket}]
              /\ parents' \in [Name -> [Device -> Socket \cup {NoSocket}]]
              /\ rooms' \subseteq Name
              /\ roomTimeouts' \in [Name -> 0 .. 1]
  <2>1. [roomTimeouts EXCEPT ![n] = Cleared(@)] \in [Name -> 0 .. 1]
    BY DEF TypeOK, Cleared
  <2> QED BY <1>11, <2>1, RearmType DEF Vacate, TypeOK
<1>12. ASSUME NEW s \in Socket, CloseMonitor(s) PROVE TypeOK'
  <2>1. joined[s].room \in Name
    BY <1>12, JoinedRoom DEF CloseMonitor
  <2>2. told' \in [Socket -> SUBSET (Device \cup {MonitorPeer})]
    BY <1>12 DEF CloseMonitor, Tell, TypeOK
  <2>3. parents[joined[s].room] \in [Device -> Socket \cup {NoSocket}]
    BY <2>1 DEF TypeOK
  <2> QED BY <1>12, <2>1, <2>2, <2>3, <1>11 DEF CloseMonitor, Closed, TypeOK
<1>13. ASSUME NEW s \in Socket, CloseParent(s) PROVE TypeOK'
  <2> DEFINE n == joined[s].room
             d == joined[s].device
             left == IF IsCurrent(s) THEN [parents[n] EXCEPT ![d] = NoSocket] ELSE parents[n]
  <2>1. n \in Name /\ d \in Device
    BY <1>13, JoinedRoom DEF CloseParent
  <2>2. told' \in [Socket -> SUBSET (Device \cup {MonitorPeer})]
    BY <1>13 DEF CloseParent, Tell, TypeOK
  <2>3. /\ left \in [Device -> Socket \cup {NoSocket}]
        /\ monitor[n] \in Socket \cup {NoSocket}
    BY <2>1 DEF TypeOK
  <2>4. Vacate(n, monitor[n], left) /\ Closed(s)
    BY <1>13 DEF CloseParent
  <2> HIDE DEF left
  <2> QED BY <2>1, <2>2, <2>3, <2>4, <1>11 DEF Closed, TypeOK
<1>14. ASSUME NEW n \in Name, RoomExpires(n) PROVE TypeOK'
  BY <1>14, ClosingAllType DEF RoomExpires, TypeOK, NoParents
<1>15. ASSUME NEW c \in Code, AliasExpires(c) PROVE TypeOK'
  BY <1>15 DEF AliasExpires, TypeOK
<1>16. ASSUME NEW a \in Address, WindowElapses(a) PROVE TypeOK'
  BY <1>16, RelayAssumption DEF WindowElapses, TypeOK
<1>17. CASE UNCHANGED vars
  BY <1>17 DEF vars, TypeOK
<1> QED
  BY <1>1, <1>2, <1>3, <1>4, <1>5, <1>6, <1>7, <1>8, <1>9, <1>10, <1>12, <1>13, <1>14,
     <1>15, <1>16, <1>17 DEF Next, Frame, Close

\* The type invariant, for every size of the relay.
THEOREM RelayTypeOK == Spec => []TypeOK
BY InitTypeOK, NextTypeOK, PTL DEF Spec

-----------------------------------------------------------------------------
(* Rooms and their timers.                                                  *)

LEMMA DevicesInEmpty ==
  ASSUME NEW ps
  PROVE  DevicesIn(ps) = {} <=> \A d \in Device : ps[d] = NoSocket
BY DEF DevicesIn

LEMMA OccupantsEmpty ==
  ASSUME NEW n
  PROVE  Occupants(n) = {} <=> monitor[n] = NoSocket /\ DevicesIn(parents[n]) = {}
BY DEF Occupants, ParentSockets, DevicesIn

\* A rearmed room carries a timeout exactly if one side is alone in it.
LEMMA RearmCounts ==
  ASSUME TypeOK, NEW n \in Name, NEW m, NEW ps
  PROVE  RearmRoomTimer(n, m, ps) =
           [roomTimeouts EXCEPT ![n] =
              IF (m # NoSocket) <=> (DevicesIn(ps) # {}) THEN 0 ELSE 1]
<1>1. roomTimeouts[n] \in 0 .. 1
  BY DEF TypeOK
<1>2. Cleared(roomTimeouts[n]) = 0
  BY <1>1 DEF Cleared
<1> QED BY <1>2 DEF RearmRoomTimer

\* A step that sets one room's occupants keeps the room table and its timers
\* exact, if it adds or deletes the room's entry and rearms as the handlers do.
LEMMA RoomStep ==
  ASSUME TypeOK, RoomsAreOccupied, LoneSideIsTimed,
         NEW n \in Name, NEW m \in Socket \cup {NoSocket},
         NEW ps \in [Device -> Socket \cup {NoSocket}],
         monitor' = [monitor EXCEPT ![n] = m],
         parents' = [parents EXCEPT ![n] = ps],
         rooms' = IF m = NoSocket /\ DevicesIn(ps) = {} THEN rooms \ {n} ELSE rooms \cup {n},
         roomTimeouts' = RearmRoomTimer(n, m, ps)
  PROVE  RoomsAreOccupied' /\ LoneSideIsTimed'
<1>1. ASSUME NEW k \in Name
      PROVE  /\ monitor'[k] = IF k = n THEN m ELSE monitor[k]
             /\ parents'[k] = IF k = n THEN ps ELSE parents[k]
  BY DEF TypeOK
<1>2. ASSUME NEW k \in Name
      PROVE  Occupants(k)' = {} <=> monitor'[k] = NoSocket /\ DevicesIn(parents'[k]) = {}
  BY DEF Occupants, ParentSockets, DevicesIn
<1>3. RoomsAreOccupied'
  <2> SUFFICES ASSUME NEW k \in Name PROVE (k \in rooms <=> Occupants(k) # {})'
    BY DEF RoomsAreOccupied
  <2>1. k \in rooms <=> ~(monitor[k] = NoSocket /\ DevicesIn(parents[k]) = {})
    BY OccupantsEmpty DEF RoomsAreOccupied
  <2> QED BY <1>1, <1>2, <2>1
<1>4. LoneSideIsTimed'
  BY <1>1, RearmCounts DEF LoneSideIsTimed, TypeOK, DevicesIn
<1> QED BY <1>3, <1>4

\* Vacate is such a step, when the room it empties or shrinks exists.
LEMMA VacateStep ==
  ASSUME TypeOK, RoomsAreOccupied, LoneSideIsTimed,
         NEW n \in rooms, NEW m \in Socket \cup {NoSocket},
         NEW ps \in [Device -> Socket \cup {NoSocket}], Vacate(n, m, ps)
  PROVE  RoomsAreOccupied' /\ LoneSideIsTimed'
<1>1. n \in Name
  BY DEF TypeOK
<1>2. roomTimeouts' = RearmRoomTimer(n, m, ps)
  <2>1. CASE m = NoSocket /\ DevicesIn(ps) = {}
    BY <1>1, <2>1 DEF Vacate, RearmRoomTimer, TypeOK, Cleared
  <2>2. CASE ~(m = NoSocket /\ DevicesIn(ps) = {})
    BY <2>2 DEF Vacate
  <2> QED BY <2>1, <2>2
<1>3. rooms' = IF m = NoSocket /\ DevicesIn(ps) = {} THEN rooms \ {n} ELSE rooms \cup {n}
  BY DEF Vacate
<1> QED BY <1>1, <1>2, <1>3, RoomStep DEF Vacate

-----------------------------------------------------------------------------
(* Membership.                                                              *)

LEMMA InitMembership == Init => MembershipInv
<1> SUFFICES ASSUME Init PROVE MembershipInv
  OBVIOUS
<1>1. ASSUME NEW n \in Name PROVE Occupants(n) = {}
  BY <1>1, OccupantsEmpty, DevicesInEmpty DEF Init, NoParents
<1>2. RoomsAreOccupied
  BY <1>1 DEF RoomsAreOccupied, Init
<1>3. LoneSideIsTimed
  BY DevicesInEmpty DEF Init, LoneSideIsTimed, NoParents
<1>4. NoGhostMembers /\ SupersededAreParents
  BY DEF Init, NoGhostMembers, SupersededAreParents, NoParents
<1> QED BY InitTypeOK, <1>2, <1>3, <1>4 DEF MembershipInv

\* Nobody who has not joined, was closed, or joined elsewhere is in a room.
LEMMA MembersJoined ==
  ASSUME TypeOK, NoGhostMembers, NEW s \in Socket, NEW n \in Name
  PROVE  /\ monitor[n] = s => /\ status[s] # "closed"
                              /\ joined[s] = AsMonitor(n)
                              /\ joined[s].role = "monitor"
                              /\ joined[s].room = n
                              /\ joined[s] # NotJoined
         /\ \A d \in Device : parents[n][d] = s => /\ status[s] # "closed"
                                                   /\ joined[s] = AsParent(n, d)
                                                   /\ joined[s].role = "parent"
                                                   /\ joined[s].room = n
                                                   /\ joined[s].device = d
                                                   /\ joined[s] # NotJoined
                                                   /\ s \notin superseded
BY RelayAssumption DEF NoGhostMembers, AsMonitor, AsParent, NotJoined

\* A step that leaves the rooms alone keeps them consistent, if no member is
\* closed, rejoins or is superseded in it.
LEMMA RoomsUntouched ==
  ASSUME MembershipInv, UNCHANGED <<rooms, monitor, parents>>,
         roomTimeouts' = roomTimeouts,
         \A s \in Socket, n \in Name :
           monitor[n] = s \/ (\E d \in Device : parents[n][d] = s) =>
             /\ status'[s] # "closed"
             /\ joined'[s] = joined[s]
             /\ s \in superseded' => s \in superseded,
         SupersededAreParents'
  PROVE  /\ NoGhostMembers'
         /\ RoomsAreOccupied'
         /\ LoneSideIsTimed'
<1>1. NoGhostMembers'
  BY DEF MembershipInv, TypeOK, NoGhostMembers, AsMonitor, AsParent
<1>2. RoomsAreOccupied'
  <2>1. \A n : Occupants(n)' = Occupants(n)
    BY DEF Occupants, ParentSockets, DevicesIn
  <2> QED BY <2>1 DEF MembershipInv, RoomsAreOccupied
<1>3. LoneSideIsTimed'
  BY DEF MembershipInv, LoneSideIsTimed, DevicesIn
<1> QED BY <1>1, <1>2, <1>3

LEMMA NextMembership == MembershipInv /\ [Next]_vars => MembershipInv'
<1> SUFFICES ASSUME MembershipInv, [Next]_vars
             PROVE  NoGhostMembers' /\ RoomsAreOccupied' /\ LoneSideIsTimed'
                      /\ SupersededAreParents'
  BY NextTypeOK DEF MembershipInv
<1> DEFINE Kept == NoGhostMembers' /\ RoomsAreOccupied' /\ LoneSideIsTimed'
                     /\ SupersededAreParents'
<1> USE DEF socketVars, roomVars, aliasVars
<1>0. TypeOK /\ NoGhostMembers /\ RoomsAreOccupied /\ LoneSideIsTimed
        /\ SupersededAreParents
  BY DEF MembershipInv
<1>1. ASSUME NEW s \in Socket, Connect(s) PROVE Kept
  <2>1. SupersededAreParents'
    BY <1>0, <1>1 DEF Connect, SupersededAreParents, TypeOK
  <2>2. \A t \in Socket, n \in Name :
          monitor[n] = t \/ (\E d \in Device : parents[n][d] = t) =>
            t # s /\ status'[t] # "closed" /\ joined'[t] = joined[t]
    BY <1>0, <1>1, MembersJoined DEF Connect, TypeOK
  <2> QED BY <1>1, <2>1, <2>2, RoomsUntouched DEF Connect
\* Steps that only make open sockets closing, or touch no socket at all.
<1>2. ASSUME UNCHANGED <<joined, superseded, roomVars>>,
             \A s \in Socket : status'[s] = "closed" => status[s] = "closed"
      PROVE  Kept
  <2>1. SupersededAreParents'
    BY <1>0, <1>2 DEF SupersededAreParents
  <2>2. \A s \in Socket, n \in Name :
          monitor[n] = s \/ (\E d \in Device : parents[n][d] = s) =>
            status'[s] # "closed" /\ joined'[s] = joined[s]
    BY <1>0, <1>2, MembersJoined
  <2> QED BY <1>2, <2>1, <2>2, RoomsUntouched
<1>3. \A S : \A s \in Socket : ClosingAll(S)[s] = "closed" => status[s] = "closed"
  BY DEF ClosingAll
<1>4. ASSUME NEW s \in Socket,
             \/ RejectFrame(s)
             \/ JoinRateLimited(s)
             \/ \E n \in Name : JoinRoleTaken(s, n)
             \/ \E d \in Device : SignalToParent(s, d)
             \/ SignalToMonitor(s)
      PROVE  Kept
  BY <1>4, <1>3, <1>2
     DEF RejectFrame, JoinRateLimited, JoinRoleTaken, SignalToParent, SignalToMonitor, Forward
<1>5. ASSUME NEW s \in Socket, NEW n \in Name, JoinMonitor(s, n) PROVE Kept
  <2>1. s \notin superseded
    BY <1>0, <1>5 DEF JoinMonitor, Admitted, SupersededAreParents, NotJoined
  <2>2. SupersededAreParents'
    BY <1>0, <1>5, <2>1 DEF JoinMonitor, SupersededAreParents, TypeOK
  <2>3. parents[n] \in [Device -> Socket \cup {NoSocket}]
    BY <1>0 DEF TypeOK
  <2>4. RoomsAreOccupied' /\ LoneSideIsTimed'
    <3>1. parents' = [parents EXCEPT ![n] = parents[n]]
      BY <1>0, <1>5 DEF JoinMonitor, TypeOK
    <3>2. rooms' = IF s = NoSocket /\ DevicesIn(parents[n]) = {} THEN rooms \ {n} ELSE rooms \cup {n}
      BY <1>5, RelayAssumption DEF JoinMonitor
    <3> QED BY <1>0, <1>5, <2>3, <3>1, <3>2, RoomStep DEF JoinMonitor
  <2>5. NoGhostMembers'
    <3> SUFFICES ASSUME NEW k \in Name
                 PROVE  /\ monitor'[k] # NoSocket =>
                             status'[monitor'[k]] # "closed" /\ joined'[monitor'[k]] = AsMonitor(k)
                        /\ \A d \in Device : parents'[k][d] # NoSocket =>
                             /\ status'[parents'[k][d]] # "closed"
                             /\ joined'[parents'[k][d]] = AsParent(k, d)
                             /\ parents'[k][d] \notin superseded'
      BY DEF NoGhostMembers, AsMonitor, AsParent
    <3>1. CASE k = n
      BY <1>0, <1>5, <3>1, MembersJoined
         DEF JoinMonitor, Admitted, Receiving, TypeOK, NoGhostMembers
    <3>2. CASE k # n
      BY <1>0, <1>5, <3>2, MembersJoined
         DEF JoinMonitor, Admitted, Receiving, TypeOK, NoGhostMembers
    <3> QED BY <3>1, <3>2
  <2> QED BY <2>2, <2>4, <2>5
<1>6. ASSUME NEW s \in Socket, NEW name \in Name, NEW d \in Device, JoinParent(s, name, d)
      PROVE  Kept
  <2> DEFINE n == Resolve(name)
             existing == parents[n][d]
             present == [parents[n] EXCEPT ![d] = s]
  <2>1. n \in Name /\ existing \in Socket \cup {NoSocket}
    BY <1>0, ResolveType DEF TypeOK
  <2>2. /\ joined' = [joined EXCEPT ![s] = AsParent(n, d)]
        /\ joined[s] = NotJoined
        /\ status[s] # "closed"
        /\ status' = ClosingAll({existing} \ {NoSocket})
        /\ superseded' = superseded \cup ({existing} \ {NoSocket})
        /\ monitor' = monitor
        /\ parents' = [parents EXCEPT ![n] = present]
        /\ rooms' = rooms \cup {n}
        /\ roomTimeouts' = RearmRoomTimer(n, monitor[n], present)
    BY <1>6 DEF JoinParent, JoinedAs, Admitted, Receiving, Supersede
  <2>3. present \in [Device -> Socket \cup {NoSocket}] /\ monitor[n] \in Socket \cup {NoSocket}
    BY <1>0, <2>1 DEF TypeOK
  <2>4. existing # NoSocket => /\ existing \in Socket
                               /\ joined[existing].role = "parent"
                               /\ joined[existing].room = n
                               /\ joined[existing].device = d
                               /\ existing # s
    BY <1>0, <2>1, <2>2, MembersJoined
  <2>5. s \notin superseded
    BY <1>0, <2>2 DEF SupersededAreParents, NotJoined
  <2>6. SupersededAreParents'
    BY <1>0, <2>2, <2>4, <2>5 DEF SupersededAreParents, TypeOK, AsParent
  <2>7. RoomsAreOccupied' /\ LoneSideIsTimed'
    <3>1. monitor' = [monitor EXCEPT ![n] = monitor[n]]
      BY <1>0, <2>2 DEF TypeOK
    <3>2. DevicesIn(present) # {}
      BY <1>0, <2>1, RelayAssumption DEF TypeOK, DevicesIn
    <3> QED BY <1>0, <2>1, <2>2, <2>3, <3>1, <3>2, RoomStep
  <2>8. NoGhostMembers'
    <3>1. ASSUME NEW t \in Socket, status[t] # "closed" PROVE status'[t] # "closed"
      BY <2>2, <1>3, <3>1
    <3>2. ASSUME NEW k \in Name, monitor'[k] # NoSocket
          PROVE  status'[monitor'[k]] # "closed" /\ joined'[monitor'[k]] = AsMonitor(k)
      <4>1. monitor'[k] = monitor[k] /\ monitor[k] \in Socket
        BY <1>0, <2>2, <3>2 DEF TypeOK
      <4>2. /\ status[monitor[k]] # "closed"
            /\ joined[monitor[k]] = AsMonitor(k)
            /\ monitor[k] # s
        BY <1>0, <2>2, <4>1, MembersJoined
      <4> QED BY <1>0, <2>2, <3>1, <4>1, <4>2 DEF TypeOK
    <3>3. ASSUME NEW k \in Name, NEW e \in Device, parents'[k][e] # NoSocket
          PROVE  /\ status'[parents'[k][e]] # "closed"
                 /\ joined'[parents'[k][e]] = AsParent(k, e)
                 /\ parents'[k][e] \notin superseded'
      <4>1. CASE k = n /\ e = d
        BY <1>0, <2>1, <2>2, <2>4, <2>5, <3>1, <4>1 DEF TypeOK
      <4>2. CASE ~(k = n /\ e = d)
        <5>1. parents'[k][e] = parents[k][e] /\ parents[k][e] \in Socket
          BY <1>0, <2>1, <2>2, <3>3, <4>2 DEF TypeOK
        <5>2. /\ status[parents[k][e]] # "closed"
              /\ joined[parents[k][e]] = AsParent(k, e)
              /\ joined[parents[k][e]] # NotJoined
              /\ joined[parents[k][e]].room = k
              /\ joined[parents[k][e]].device = e
              /\ parents[k][e] \notin superseded
          BY <1>0, <5>1, MembersJoined
        <5>3. parents[k][e] # s /\ parents[k][e] # existing
          BY <2>2, <2>4, <4>2, <5>1, <5>2, RelayAssumption
        <5>4. joined'[parents[k][e]] = joined[parents[k][e]]
          BY <1>0, <2>2, <5>1, <5>3 DEF TypeOK
        <5> HIDE DEF existing
        <5> QED BY <2>2, <3>1, <5>1, <5>2, <5>3, <5>4
      <4> QED BY <4>1, <4>2
    <3> QED BY <3>2, <3>3 DEF NoGhostMembers, AsMonitor, AsParent
  <2> QED BY <2>6, <2>7, <2>8
<1>7. ASSUME NEW s \in Socket, NEW c \in Code, SetAlias(s, c) PROVE Kept
  <2> DEFINE n == joined[s].room
  <2>1. roomTimeouts' = roomTimeouts
    <3>1. n \in Name
      BY <1>0, <1>7, JoinedRoom DEF SetAlias
    <3>2. CASE n \in rooms
      BY <1>0, <1>7, <3>1, <3>2, RearmCounts DEF SetAlias, LoneSideIsTimed, TypeOK
    <3> QED BY <1>7, <3>2 DEF SetAlias
  <2> QED BY <1>7, <2>1, <1>2 DEF SetAlias
<1>8. ASSUME NEW s \in Socket, Closed(s), UNCHANGED roomVars,
             \A n \in Name : monitor[n] # s /\ \A d \in Device : parents[n][d] # s
      PROVE  Kept
  <2>1. SupersededAreParents'
    BY <1>0, <1>8 DEF SupersededAreParents, Closed
  <2>2. \A t \in Socket, n \in Name :
          monitor[n] = t \/ (\E d \in Device : parents[n][d] = t) =>
            status'[t] # "closed" /\ joined'[t] = joined[t]
    <3> SUFFICES ASSUME NEW t \in Socket, NEW n \in Name,
                        monitor[n] = t \/ (\E d \in Device : parents[n][d] = t)
                 PROVE  status'[t] # "closed" /\ joined'[t] = joined[t]
      OBVIOUS
    <3>1. status[t] # "closed"
      BY <1>0, MembersJoined
    <3>2. t # s
      BY <1>8
    <3> QED BY <1>0, <1>8, <3>1, <3>2 DEF Closed, TypeOK
  <2> QED BY <1>8, <2>1, <2>2, RoomsUntouched DEF Closed
<1>9. ASSUME NEW s \in Socket, CloseIgnored(s) PROVE Kept
  <2>1. \A n \in Name : monitor[n] # s /\ \A d \in Device : parents[n][d] # s
    <3>1. ASSUME NEW n \in Name, monitor[n] = s \/ \E d \in Device : parents[n][d] = s
          PROVE  FALSE
      <4>1. n \in rooms
        BY <1>0, <3>1, OccupantsEmpty, DevicesInEmpty, RelayAssumption DEF RoomsAreOccupied
      <4> QED BY <1>0, <1>9, <3>1, <4>1, MembersJoined DEF CloseIgnored, SupersededAreParents
    <3> QED BY <3>1
  <2> QED BY <1>9, <2>1, <1>8 DEF CloseIgnored
\* Vacate(n, m, ps) by s, which holds none of the places that remain.
<1>10. ASSUME NEW s \in Socket, NEW n \in rooms, NEW m \in {monitor[n], NoSocket},
              NEW ps \in [Device -> Socket \cup {NoSocket}],
              \A d \in Device : ps[d] = parents[n][d] \/ ps[d] = NoSocket,
              Closed(s), Vacate(n, m, ps),
              m # s, \A d \in Device : ps[d] # s,
              \A k \in Name \ {n} : monitor[k] # s /\ \A d \in Device : parents[k][d] # s
       PROVE  Kept
  <2>1. SupersededAreParents'
    BY <1>0, <1>10 DEF SupersededAreParents, Closed
  <2>2. n \in Name /\ m \in Socket \cup {NoSocket}
    BY <1>0 DEF TypeOK
  <2>3. RoomsAreOccupied' /\ LoneSideIsTimed'
    BY <1>0, <1>10, <2>2, VacateStep
  <2>4. ASSUME NEW k \in Name
        PROVE  /\ monitor'[k] = IF k = n THEN m ELSE monitor[k]
               /\ parents'[k] = IF k = n THEN ps ELSE parents[k]
    BY <1>0, <1>10, <2>2 DEF Vacate, TypeOK
  <2>5. ASSUME NEW t \in Socket, t # s PROVE status'[t] = status[t]
    BY <1>0, <1>10, <2>5 DEF Closed, TypeOK
  <2>6. ASSUME NEW k \in Name, monitor'[k] # NoSocket
        PROVE  status'[monitor'[k]] # "closed" /\ joined'[monitor'[k]] = AsMonitor(k)
    <3>1. monitor'[k] = monitor[k] /\ monitor[k] \in Socket
      BY <1>0, <2>2, <2>4, <2>6 DEF TypeOK
    <3>2. /\ status[monitor[k]] # "closed"
          /\ joined[monitor[k]] = AsMonitor(k)
      BY <1>0, <3>1, MembersJoined
    <3>3. monitor[k] # s
      <4>1. CASE k = n
        BY <1>10, <2>4, <2>6, <3>1, <4>1
      <4>2. CASE k # n
        BY <1>10, <4>2
      <4> QED BY <4>1, <4>2
    <3> QED BY <1>10, <2>5, <3>1, <3>2, <3>3 DEF Closed
  <2>7. ASSUME NEW k \in Name, NEW e \in Device, parents'[k][e] # NoSocket
        PROVE  /\ status'[parents'[k][e]] # "closed"
               /\ joined'[parents'[k][e]] = AsParent(k, e)
               /\ parents'[k][e] \notin superseded'
    <3>1. parents'[k][e] = parents[k][e] /\ parents[k][e] \in Socket /\ parents[k][e] # s
      BY <1>0, <1>10, <2>2, <2>4, <2>7 DEF TypeOK
    <3> QED BY <1>0, <1>10, <2>5, <3>1, MembersJoined DEF Closed
  <2> QED BY <2>1, <2>3, <2>6, <2>7 DEF NoGhostMembers, AsMonitor, AsParent
<1>11. ASSUME NEW s \in Socket, CloseMonitor(s) PROVE Kept
  <2> DEFINE n == joined[s].room
  <2>1. n \in rooms /\ n \in Name /\ joined[s].role = "monitor"
    BY <1>0, <1>11, JoinedRoom DEF CloseMonitor
  <2>2. parents[n] \in [Device -> Socket \cup {NoSocket}]
    BY <1>0, <2>1 DEF TypeOK
  <2>3. \A k \in Name : (monitor[k] = s => k = n) /\ \A d \in Device : parents[k][d] # s
    BY <1>0, <2>1, MembersJoined
  <2> QED BY <1>11, <2>1, <2>2, <2>3, <1>10, RelayAssumption DEF CloseMonitor
<1>12. ASSUME NEW s \in Socket, CloseParent(s) PROVE Kept
  <2> DEFINE n == joined[s].room
             d == joined[s].device
             left == IF IsCurrent(s) THEN [parents[n] EXCEPT ![d] = NoSocket] ELSE parents[n]
  <2>1. n \in rooms /\ n \in Name /\ d \in Device /\ joined[s].role = "parent"
    BY <1>0, <1>12, JoinedRoom DEF CloseParent
  <2>2. /\ left \in [Device -> Socket \cup {NoSocket}]
        /\ \A e \in Device : left[e] = parents[n][e] \/ left[e] = NoSocket
    BY <1>0, <2>1 DEF TypeOK
  <2>3. \A k \in Name :
          monitor[k] # s /\ \A e \in Device : parents[k][e] = s => k = n /\ e = d
    BY <1>0, <2>1, MembersJoined
  <2>4. \A e \in Device : left[e] # s
    BY <1>0, <2>1, <2>3, RelayAssumption DEF IsCurrent, TypeOK
  <2>5. Closed(s) /\ Vacate(n, monitor[n], left)
    BY <1>12 DEF CloseParent
  <2> HIDE DEF left
  <2> QED BY <2>1, <2>2, <2>3, <2>4, <2>5, <1>10
<1>13. ASSUME NEW n \in Name, RoomExpires(n) PROVE Kept
  <2>1. SupersededAreParents'
    BY <1>0, <1>13 DEF SupersededAreParents, RoomExpires
  <2>2. \A k \in Name : /\ monitor'[k] = IF k = n THEN NoSocket ELSE monitor[k]
                        /\ parents'[k] = IF k = n THEN NoParents ELSE parents[k]
    BY <1>0, <1>13 DEF RoomExpires, TypeOK
  <2>3. \A s \in Socket : status'[s] = "closed" => status[s] = "closed"
    BY <1>13, <1>3 DEF RoomExpires
  <2>4. ASSUME NEW k \in Name, monitor'[k] # NoSocket
        PROVE  status'[monitor'[k]] # "closed" /\ joined'[monitor'[k]] = AsMonitor(k)
    BY <1>0, <1>13, <2>2, <2>3, <2>4, MembersJoined DEF RoomExpires, TypeOK
  <2>5. ASSUME NEW k \in Name, NEW e \in Device, parents'[k][e] # NoSocket
        PROVE  /\ status'[parents'[k][e]] # "closed"
               /\ joined'[parents'[k][e]] = AsParent(k, e)
               /\ parents'[k][e] \notin superseded'
    BY <1>0, <1>13, <2>2, <2>3, <2>5, MembersJoined DEF RoomExpires, TypeOK, NoParents
  <2>6. NoGhostMembers'
    BY <2>4, <2>5 DEF NoGhostMembers, AsMonitor, AsParent
  <2>7. RoomsAreOccupied'
    <3> SUFFICES ASSUME NEW k \in Name PROVE (k \in rooms <=> Occupants(k) # {})'
      BY DEF RoomsAreOccupied
    <3>1. Occupants(k)' = {} <=> monitor'[k] = NoSocket /\ DevicesIn(parents'[k]) = {}
      BY DEF Occupants, ParentSockets, DevicesIn
    <3>2. k \in rooms <=> ~(monitor[k] = NoSocket /\ DevicesIn(parents[k]) = {})
      BY <1>0, OccupantsEmpty DEF RoomsAreOccupied
    <3>3. DevicesIn(NoParents) = {}
      BY DEF DevicesIn, NoParents
    <3> QED BY <1>13, <2>2, <3>1, <3>2, <3>3 DEF RoomExpires
  <2>8. LoneSideIsTimed'
    <3>1. DevicesIn(NoParents) = {}
      BY DEF DevicesIn, NoParents
    <3>2. ASSUME NEW k \in Name
          PROVE  roomTimeouts'[k] = IF (monitor'[k] # NoSocket) <=> (DevicesIn(parents'[k]) # {})
                                    THEN 0 ELSE 1
      BY <1>0, <1>13, <2>2, <3>1 DEF RoomExpires, LoneSideIsTimed, TypeOK
    <3> QED BY <3>2 DEF LoneSideIsTimed, DevicesIn
  <2> QED BY <2>1, <2>6, <2>7, <2>8
<1>14. ASSUME NEW c \in Code, AliasExpires(c) PROVE Kept
  BY <1>14, <1>2 DEF AliasExpires
<1>15. ASSUME NEW a \in Address, WindowElapses(a) PROVE Kept
  BY <1>15, <1>2 DEF WindowElapses
<1>16. CASE UNCHANGED vars
  BY <1>16, <1>2 DEF vars
<1> QED
  BY <1>1, <1>4, <1>5, <1>6, <1>7, <1>9, <1>11, <1>12, <1>13, <1>14, <1>15, <1>16
     DEF Next, Frame, Close

LEMMA MembershipInvariant == Spec => []MembershipInv
BY InitMembership, NextMembership, PTL DEF Spec

\* No room ever holds a socket whose close event has been handled.
THEOREM RelayNoGhostMembers == Spec => []NoGhostMembers
BY MembershipInvariant, PTL DEF MembershipInv

\* Rooms are exactly the occupied ones.
THEOREM RelayRoomsAreOccupied == Spec => []RoomsAreOccupied
BY MembershipInvariant, PTL DEF MembershipInv

\* Exactly the rooms with one side alone are on a TTL.
THEOREM RelayLoneSideIsTimed == Spec => []LoneSideIsTimed
BY MembershipInvariant, PTL DEF MembershipInv

-----------------------------------------------------------------------------
(* What the clients were told.                                              *)

\* A client that has not joined was told of nobody.
FreshKnowNobody ==
  \A s \in Socket : status[s] = "open" /\ joined[s] = NotJoined => told[s] = {}

\* An open Parent is the socket its room holds for its deviceId.  (A Monitor
\* need not be: the close event of an older Monitor of the room removes it.)
OpenParentsAreSeated ==
  \A s \in Socket : status[s] = "open" /\ joined[s].role = "parent" =>
    parents[joined[s].room][joined[s].device] = s

\* The inductive invariant behind the two theorems about views.
ViewsInv == MembershipInv /\ ViewsMatchRoom /\ FreshKnowNobody /\ OpenParentsAreSeated

MonitorView(n) ==
  monitor[n] # NoSocket /\ status[monitor[n]] = "open" =>
    told[monitor[n]] = DevicesIn(parents[n])

ParentView(n, d) ==
  parents[n][d] # NoSocket /\ status[parents[n][d]] = "open" =>
    told[parents[n][d]] = IF monitor[n] = NoSocket THEN {} ELSE {MonitorPeer}

LEMMA ViewsByMember ==
  /\ ViewsMatchRoom <=> \A n \in Name : MonitorView(n) /\ \A d \in Device : ParentView(n, d)
  /\ ViewsMatchRoom' <=> \A n \in Name : MonitorView(n)' /\ \A d \in Device : ParentView(n, d)'
<1>1. ViewsMatchRoom <=> \A n \in Name : MonitorView(n) /\ \A d \in Device : ParentView(n, d)
  BY DEF ViewsMatchRoom, MonitorView, ParentView, ParentSockets, DevicesIn
<1>2. ViewsMatchRoom' <=> \A n \in Name : MonitorView(n)' /\ \A d \in Device : ParentView(n, d)'
  BY DEF ViewsMatchRoom, MonitorView, ParentView, ParentSockets, DevicesIn
<1> QED BY <1>1, <1>2

\* Steps that leave the rooms and what was told alone, and open no socket.
LEMMA ViewsUntouched ==
  ASSUME ViewsInv, UNCHANGED <<monitor, parents, told>>,
         \A s \in Socket : status'[s] = "open" => status[s] = "open" /\ joined'[s] = joined[s]
  PROVE  ViewsMatchRoom' /\ FreshKnowNobody' /\ OpenParentsAreSeated'
<1>1. TypeOK /\ ViewsMatchRoom /\ FreshKnowNobody /\ OpenParentsAreSeated
  BY DEF ViewsInv, MembershipInv
<1>2. FreshKnowNobody' /\ OpenParentsAreSeated'
  BY <1>1 DEF FreshKnowNobody, OpenParentsAreSeated
<1>3. ASSUME NEW n \in Name PROVE MonitorView(n)'
  BY <1>1, <1>3, ViewsByMember DEF MonitorView, TypeOK, DevicesIn
<1>4. ASSUME NEW n \in Name, NEW d \in Device PROVE ParentView(n, d)'
  <2>1. ParentView(n, d) /\ parents[n][d] \in Socket \cup {NoSocket}
    BY <1>1, ViewsByMember DEF TypeOK
  <2> QED BY <2>1 DEF ParentView
<1> QED BY <1>2, <1>3, <1>4, ViewsByMember

\* The Parents of a room, as a set of sockets.
LEMMA ParentSocketsJoined ==
  ASSUME TypeOK, NoGhostMembers, NEW n \in Name, NEW t \in ParentSockets(parents[n])
  PROVE  /\ t \in Socket
         /\ joined[t].role = "parent"
         /\ joined[t].room = n
         /\ joined[t] # NotJoined
         /\ \A k \in Name : monitor[k] # t
<1>1. PICK d \in Device : parents[n][d] = t /\ t # NoSocket
  BY DEF ParentSockets, DevicesIn
<1>2. t \in Socket
  BY <1>1 DEF TypeOK
<1> QED BY <1>1, <1>2, MembersJoined

LEMMA NextViews == ViewsInv /\ [Next]_vars => ViewsInv'
<1> SUFFICES ASSUME ViewsInv, [Next]_vars
             PROVE  ViewsMatchRoom' /\ FreshKnowNobody' /\ OpenParentsAreSeated'
  BY NextMembership DEF ViewsInv
<1> DEFINE Kept == ViewsMatchRoom' /\ FreshKnowNobody' /\ OpenParentsAreSeated'
<1> USE DEF socketVars, roomVars, aliasVars
<1>0. /\ TypeOK /\ NoGhostMembers /\ MembershipInv
      /\ ViewsMatchRoom /\ FreshKnowNobody /\ OpenParentsAreSeated
  BY DEF ViewsInv, MembershipInv
<1>1. ASSUME NEW n \in Name
      PROVE  /\ MonitorView(n)
             /\ \A d \in Device : ParentView(n, d)
             /\ monitor[n] \in Socket \cup {NoSocket}
             /\ \A d \in Device : parents[n][d] \in Socket \cup {NoSocket}
  BY <1>0, ViewsByMember DEF TypeOK
<1>2. ASSUME NEW s \in Socket, Connect(s) PROVE Kept
  <2>1. /\ \A t \in Socket : t # s => /\ status'[t] = status[t]
                                      /\ joined'[t] = joined[t]
                                      /\ told'[t] = told[t]
        /\ joined'[s] = NotJoined /\ told'[s] = {}
        /\ UNCHANGED <<monitor, parents>>
        /\ status[s] = "closed"
    BY <1>0, <1>2 DEF Connect, TypeOK
  <2>2. FreshKnowNobody' /\ OpenParentsAreSeated'
    BY <1>0, <2>1 DEF FreshKnowNobody, OpenParentsAreSeated, NotJoined
  <2>3. ASSUME NEW n \in Name PROVE MonitorView(n)'
    <3>1. monitor[n] # s
      BY <1>0, <2>1, MembersJoined
    <3> QED BY <1>1, <2>1, <3>1 DEF MonitorView, DevicesIn
  <2>4. ASSUME NEW n \in Name, NEW d \in Device PROVE ParentView(n, d)'
    <3>1. parents[n][d] # s
      BY <1>0, <2>1, MembersJoined
    <3> QED BY <1>1, <2>1, <3>1 DEF ParentView
  <2> QED BY <2>2, <2>3, <2>4, ViewsByMember
<1>3. ASSUME NEW S, status' = ClosingAll(S), UNCHANGED <<joined, monitor, parents, told>>
      PROVE  Kept
  <2>1. \A s \in Socket : status'[s] = "open" => status[s] = "open" /\ joined'[s] = joined[s]
    BY <1>3 DEF ClosingAll
  <2> QED BY <1>3, <2>1, ViewsUntouched
<1>4. ASSUME UNCHANGED <<status, joined, monitor, parents, told>> PROVE Kept
  BY <1>4, ViewsUntouched
<1>5. ASSUME NEW s \in Socket, NEW n \in Name, JoinMonitor(s, n) PROVE Kept
  <2>1. /\ monitor[n] = NoSocket /\ joined[s] = NotJoined /\ status[s] # "closed"
        /\ status' = status /\ parents' = parents
        /\ joined' = [joined EXCEPT ![s] = AsMonitor(n)]
        /\ monitor' = [monitor EXCEPT ![n] = s]
        /\ told' = IntroduceMonitor(s, parents[n])
    BY <1>5 DEF JoinMonitor, Admitted, Receiving
  <2>2. /\ \A t \in Socket : t # s => joined'[t] = joined[t]
        /\ joined'[s] = AsMonitor(n) /\ joined'[s].role = "monitor"
        /\ joined'[s] # NotJoined
        /\ \A k \in Name : monitor'[k] = IF k = n THEN s ELSE monitor[k]
    BY <1>0, <2>1 DEF TypeOK, AsMonitor, NotJoined
  <2>3. OpenParentsAreSeated'
    BY <1>0, <2>1, <2>2 DEF OpenParentsAreSeated
  <2>4. FreshKnowNobody'
    <3> SUFFICES ASSUME NEW t \in Socket, status[t] = "open", joined'[t] = NotJoined
                 PROVE  told'[t] = {}
      BY <2>1 DEF FreshKnowNobody
    <3>1. t # s /\ joined[t] = NotJoined
      BY <2>2
    <3>2. t \notin ParentSockets(parents[n])
      BY <1>0, <3>1, ParentSocketsJoined
    <3> QED BY <1>0, <2>1, <3>1, <3>2 DEF IntroduceMonitor, FreshKnowNobody
  <2>5. ASSUME NEW k \in Name PROVE MonitorView(k)'
    <3>1. CASE k = n
      BY <1>0, <2>1, <2>2, <3>1, RelayAssumption
         DEF MonitorView, IntroduceMonitor, Tell, FreshKnowNobody, DevicesIn
    <3>2. CASE k # n
      <4> SUFFICES ASSUME monitor[k] \in Socket, status[monitor[k]] = "open"
                   PROVE  told'[monitor[k]] = DevicesIn(parents[k])
        BY <1>1, <2>1, <2>2, <3>2 DEF MonitorView, DevicesIn
      <4>1. monitor[k] # s /\ monitor[k] \notin ParentSockets(parents[n])
        BY <1>0, <2>1, MembersJoined, ParentSocketsJoined
      <4> QED BY <1>1, <2>1, <4>1, RelayAssumption DEF MonitorView, IntroduceMonitor
    <3> QED BY <3>1, <3>2
  <2>6. ASSUME NEW k \in Name, NEW d \in Device PROVE ParentView(k, d)'
    <3> DEFINE p == parents[k][d]
    <3> SUFFICES ASSUME p \in Socket, status[p] = "open"
                 PROVE  told'[p] = IF monitor'[k] = NoSocket THEN {} ELSE {MonitorPeer}
      BY <1>1, <2>1 DEF ParentView
    <3>1. p # s
      BY <1>0, <2>1, MembersJoined
    <3>2. told[p] = IF monitor[k] = NoSocket THEN {} ELSE {MonitorPeer}
      BY <1>1, RelayAssumption DEF ParentView
    <3>3. p \in ParentSockets(parents[n]) <=> k = n
      <4>1. CASE k = n
        BY <4>1, RelayAssumption DEF ParentSockets, DevicesIn
      <4>2. CASE k # n
        BY <1>0, <4>2, MembersJoined, ParentSocketsJoined
      <4> QED BY <4>1, <4>2
    <3> HIDE DEF p
    <3>4. CASE k = n
      BY <2>1, <2>2, <3>1, <3>2, <3>3, <3>4, RelayAssumption DEF IntroduceMonitor, Tell
    <3>5. CASE k # n
      BY <2>1, <2>2, <3>1, <3>2, <3>3, <3>5 DEF IntroduceMonitor
    <3> QED BY <3>4, <3>5
  <2> QED BY <2>3, <2>4, <2>5, <2>6, ViewsByMember
<1>6. ASSUME NEW s \in Socket, NEW name \in Name, NEW d \in Device, JoinParent(s, name, d)
      PROVE  Kept
  <2> DEFINE n == Resolve(name)
             existing == parents[n][d]
             present == [parents[n] EXCEPT ![d] = s]
  <2>1. n \in Name /\ existing \in Socket \cup {NoSocket}
    BY <1>0, ResolveType DEF TypeOK
  <2>2. /\ joined[s] = NotJoined /\ status[s] # "closed"
        /\ joined' = [joined EXCEPT ![s] = AsParent(n, d)]
        /\ status' = ClosingAll({existing} \ {NoSocket})
        /\ monitor' = monitor
        /\ parents' = [parents EXCEPT ![n] = present]
        /\ told' = IntroduceParent(s, d, monitor[n], existing = NoSocket)
    BY <1>6 DEF JoinParent, JoinedAs, Admitted, Receiving, Supersede
  <2>3. /\ \A t \in Socket : t # s => joined'[t] = joined[t]
        /\ joined'[s].role = "parent" /\ joined'[s].room = n /\ joined'[s].device = d
        /\ joined'[s] # NotJoined
        /\ \A t \in Socket : status'[t] = "open" => status[t] = "open" /\ t # existing
        /\ \A k \in Name, e \in Device :
             parents'[k][e] = IF k = n /\ e = d THEN s ELSE parents[k][e]
    <3>1. /\ \A t \in Socket : t # s => joined'[t] = joined[t]
          /\ joined'[s] = AsParent(n, d)
      BY <1>0, <2>2 DEF TypeOK
    <3>2. /\ AsParent(n, d).role = "parent" /\ AsParent(n, d).room = n
          /\ AsParent(n, d).device = d /\ AsParent(n, d) # NotJoined
      BY DEF AsParent, NotJoined
    <3>3. \A t \in Socket : status'[t] = "open" => status[t] = "open" /\ t # existing
      BY <2>2, RelayAssumption DEF ClosingAll
    <3>4. \A k \in Name, e \in Device :
            parents'[k][e] = IF k = n /\ e = d THEN s ELSE parents[k][e]
      BY <1>0, <2>1, <2>2 DEF TypeOK
    <3> QED BY <3>1, <3>2, <3>3, <3>4
  <2>4. \A k \in Name : monitor[k] # s /\ \A e \in Device : parents[k][e] # s
    BY <1>0, <2>2, MembersJoined
  <2> HIDE DEF existing, present, n
  <2>5. OpenParentsAreSeated'
    <3> SUFFICES ASSUME NEW t \in Socket, status'[t] = "open", joined'[t].role = "parent"
                 PROVE  parents'[joined'[t].room][joined'[t].device] = t
      BY DEF OpenParentsAreSeated
    <3>1. CASE t = s
      BY <2>1, <2>3, <3>1
    <3>2. CASE t # s
      <4>1. /\ joined'[t] = joined[t]
            /\ joined[t].room \in Name /\ joined[t].device \in Device
            /\ parents[joined[t].room][joined[t].device] = t
        BY <1>0, <2>3, <3>2, JoinedRoom DEF OpenParentsAreSeated
      <4>2. ~(joined[t].room = n /\ joined[t].device = d)
        BY <2>3, <4>1 DEF existing
      <4> QED BY <2>3, <4>1, <4>2
    <3> QED BY <3>1, <3>2
  <2>6. FreshKnowNobody'
    <3> SUFFICES ASSUME NEW t \in Socket, status'[t] = "open", joined'[t] = NotJoined
                 PROVE  told'[t] = {}
      BY DEF FreshKnowNobody
    <3>1. t # s /\ joined[t] = NotJoined /\ status[t] = "open"
      BY <2>3
    <3>2. t # monitor[n]
      BY <1>0, <2>1, <3>1, MembersJoined
    <3> QED BY <1>0, <2>2, <3>1, <3>2 DEF IntroduceParent, FreshKnowNobody
  <2>7. ASSUME NEW k \in Name PROVE MonitorView(k)'
    <3> SUFFICES ASSUME monitor[k] \in Socket, status'[monitor[k]] = "open"
                 PROVE  told'[monitor[k]] = DevicesIn(parents'[k])
      BY <1>1, <2>2 DEF MonitorView, DevicesIn
    <3>1. status[monitor[k]] = "open" /\ monitor[k] # s
      BY <2>3, <2>4
    <3>2. told[monitor[k]] = DevicesIn(parents[k])
      BY <1>1, <3>1, RelayAssumption DEF MonitorView
    <3>3. CASE k = n
      <4>1. DevicesIn(parents'[k]) = DevicesIn(parents[k]) \cup {d}
        BY <2>3, <3>3, RelayAssumption DEF DevicesIn
      <4>2. existing # NoSocket => d \in DevicesIn(parents[k])
        BY <3>3 DEF existing, DevicesIn
      <4> QED BY <2>1, <2>2, <3>1, <3>2, <3>3, <4>1, <4>2, RelayAssumption
              DEF IntroduceParent, Tell
    <3>4. CASE k # n
      <4>1. DevicesIn(parents'[k]) = DevicesIn(parents[k])
        BY <2>3, <3>4 DEF DevicesIn
      <4>2. monitor[k] # monitor[n]
        BY <1>0, <2>1, <3>4, MembersJoined
      <4> QED BY <2>1, <2>2, <3>1, <3>2, <4>1, <4>2 DEF IntroduceParent
    <3> QED BY <3>3, <3>4
  <2>8. ASSUME NEW k \in Name, NEW e \in Device PROVE ParentView(k, e)'
    <3>1. CASE k = n /\ e = d
      <4> SUFFICES ASSUME status'[s] = "open"
                   PROVE  told'[s] = IF monitor[n] = NoSocket THEN {} ELSE {MonitorPeer}
        BY <2>2, <2>3, <3>1 DEF ParentView
      <4>1. told[s] = {} /\ status[s] = "open"
        BY <1>0, <2>2, <2>3 DEF FreshKnowNobody
      <4> QED BY <2>2, <4>1 DEF IntroduceParent, Tell
    <3>2. CASE ~(k = n /\ e = d)
      <4> DEFINE p == parents[k][e]
      <4> SUFFICES ASSUME p \in Socket, status'[p] = "open"
                   PROVE  told'[p] = IF monitor[k] = NoSocket THEN {} ELSE {MonitorPeer}
        BY <1>1, <2>2, <2>3, <3>2 DEF ParentView
      <4>1. p # s /\ p # monitor[n] /\ status[p] = "open"
        BY <1>0, <2>1, <2>3, <2>4, MembersJoined
      <4>2. told[p] = IF monitor[k] = NoSocket THEN {} ELSE {MonitorPeer}
        BY <1>1, <4>1, RelayAssumption DEF ParentView
      <4> HIDE DEF p
      <4> QED BY <2>2, <4>1, <4>2 DEF IntroduceParent
    <3> QED BY <3>1, <3>2
  <2> QED BY <2>5, <2>6, <2>7, <2>8, ViewsByMember
\* Steps in which sockets become closed or closing and nobody is told anything.
<1>7. ASSUME NEW s \in Socket, Closed(s), UNCHANGED <<monitor, parents, told>> PROVE Kept
  <2>1. \A t \in Socket : status'[t] = "open" => status[t] = "open" /\ joined'[t] = joined[t]
    BY <1>0, <1>7 DEF Closed, TypeOK
  <2> QED BY <1>7, <2>1, ViewsUntouched
<1>8. ASSUME NEW s \in Socket, CloseMonitor(s) PROVE Kept
  <2> DEFINE n == joined[s].room
  <2>1. /\ n \in Name /\ Closed(s)
        /\ monitor' = [monitor EXCEPT ![n] = NoSocket]
        /\ parents' = parents
        /\ told' = [t \in Socket |-> IF t \in ParentSockets(parents[n])
                                     THEN Tell(t, told[t] \ {MonitorPeer}) ELSE told[t]]
    BY <1>0, <1>8, JoinedRoom DEF CloseMonitor, Vacate, TypeOK
  <2>2. /\ joined' = joined
        /\ \A t \in Socket : status'[t] = "open" => status[t] = "open"
        /\ \A k \in Name : monitor'[k] = IF k = n THEN NoSocket ELSE monitor[k]
    BY <1>0, <2>1 DEF Closed, TypeOK
  <2> HIDE DEF n
  <2>3. OpenParentsAreSeated'
    BY <1>0, <2>1, <2>2 DEF OpenParentsAreSeated
  <2>4. FreshKnowNobody'
    BY <1>0, <2>1, <2>2, ParentSocketsJoined DEF FreshKnowNobody
  <2>5. ASSUME NEW k \in Name PROVE MonitorView(k)'
    <3> SUFFICES ASSUME k # n, monitor[k] \in Socket, status[monitor[k]] = "open"
                 PROVE  told'[monitor[k]] = DevicesIn(parents[k])
      BY <1>1, <2>1, <2>2 DEF MonitorView, DevicesIn
    <3>1. monitor[k] \notin ParentSockets(parents[n])
      BY <1>0, <2>1, ParentSocketsJoined
    <3> QED BY <1>1, <2>1, <3>1, RelayAssumption DEF MonitorView
  <2>6. ASSUME NEW k \in Name, NEW d \in Device PROVE ParentView(k, d)'
    <3> DEFINE p == parents[k][d]
    <3> SUFFICES ASSUME p \in Socket, status[p] = "open"
                 PROVE  told'[p] = IF monitor'[k] = NoSocket THEN {} ELSE {MonitorPeer}
      BY <1>1, <2>1, <2>2 DEF ParentView
    <3>1. told[p] = IF monitor[k] = NoSocket THEN {} ELSE {MonitorPeer}
      BY <1>1, RelayAssumption DEF ParentView
    <3>2. CASE k = n
      <4>1. p \in ParentSockets(parents[n])
        BY <3>2, RelayAssumption DEF ParentSockets, DevicesIn
      <4> HIDE DEF p
      <4> QED BY <2>1, <2>2, <3>1, <3>2, <4>1 DEF Tell
    <3>3. CASE k # n
      <4>1. p \notin ParentSockets(parents[n])
        BY <1>0, <2>1, <3>3, MembersJoined, ParentSocketsJoined
      <4> HIDE DEF p
      <4> QED BY <2>1, <2>2, <3>1, <3>3, <4>1
    <3> QED BY <3>2, <3>3
  <2> QED BY <2>3, <2>4, <2>5, <2>6, ViewsByMember
<1>9. ASSUME NEW s \in Socket, CloseParent(s) PROVE Kept
  <2> DEFINE n == joined[s].room
             d == joined[s].device
  <2>1. /\ n \in Name /\ d \in Device /\ Closed(s)
        /\ Vacate(n, monitor[n],
                  IF IsCurrent(s) THEN [parents[n] EXCEPT ![d] = NoSocket] ELSE parents[n])
        /\ told' = [t \in Socket |-> IF IsCurrent(s) /\ t = monitor[n]
                                     THEN Tell(t, told[t] \ {d}) ELSE told[t]]
    BY <1>0, <1>9, JoinedRoom DEF CloseParent
  <2>2. /\ joined' = joined
        /\ \A t \in Socket : status'[t] = "open" => status[t] = "open" /\ t # s
        /\ monitor' = monitor
    BY <1>0, <2>1 DEF Closed, Vacate, TypeOK
  <2>3. CASE ~IsCurrent(s)
    <3>1. parents' = parents /\ told' = told
      BY <1>0, <2>1, <2>3 DEF Vacate, TypeOK
    <3> QED BY <2>1, <2>2, <3>1, <1>7
  <2>4. CASE IsCurrent(s)
    <3>1. /\ parents[n][d] = s
          /\ \A k \in Name, e \in Device :
               parents'[k][e] = IF k = n /\ e = d THEN NoSocket ELSE parents[k][e]
      BY <1>0, <2>1, <2>4 DEF IsCurrent, Vacate, TypeOK
    <3> HIDE DEF n, d
    <3>2. OpenParentsAreSeated'
      <4> SUFFICES ASSUME NEW t \in Socket, status'[t] = "open", joined[t].role = "parent"
                   PROVE  parents'[joined[t].room][joined[t].device] = t
        BY <2>2 DEF OpenParentsAreSeated
      <4>1. /\ joined[t].room \in Name /\ joined[t].device \in Device
            /\ parents[joined[t].room][joined[t].device] = t
        BY <1>0, <2>2, JoinedRoom DEF OpenParentsAreSeated
      <4> QED BY <2>2, <3>1, <4>1
    <3>3. FreshKnowNobody'
      <4> SUFFICES ASSUME NEW t \in Socket, status'[t] = "open", joined[t] = NotJoined
                   PROVE  told'[t] = {}
        BY <2>2 DEF FreshKnowNobody
      <4>1. t # monitor[n] /\ told[t] = {}
        BY <1>0, <2>1, <2>2, MembersJoined DEF FreshKnowNobody
      <4> QED BY <2>1, <4>1
    <3>4. ASSUME NEW k \in Name PROVE MonitorView(k)'
      <4> SUFFICES ASSUME monitor[k] \in Socket, status'[monitor[k]] = "open"
                   PROVE  told'[monitor[k]] = DevicesIn(parents'[k])
        BY <1>1, <2>2 DEF MonitorView, DevicesIn
      <4>1. status[monitor[k]] = "open" /\ told[monitor[k]] = DevicesIn(parents[k])
        BY <1>1, <2>2, RelayAssumption DEF MonitorView
      <4>2. CASE k = n
        <5>1. DevicesIn(parents'[k]) = DevicesIn(parents[k]) \ {d}
          BY <2>1, <3>1, <4>2 DEF DevicesIn
        <5> QED BY <2>1, <2>4, <4>1, <4>2, <5>1 DEF Tell
      <4>3. CASE k # n
        <5>1. DevicesIn(parents'[k]) = DevicesIn(parents[k])
          BY <3>1, <4>3 DEF DevicesIn
        <5>2. monitor[k] # monitor[n]
          BY <1>0, <2>1, <4>3, MembersJoined
        <5> QED BY <2>1, <4>1, <5>1, <5>2
      <4> QED BY <4>2, <4>3
    <3>5. ASSUME NEW k \in Name, NEW e \in Device PROVE ParentView(k, e)'
      <4> DEFINE p == parents[k][e]
      <4> SUFFICES ASSUME ~(k = n /\ e = d), p \in Socket, status'[p] = "open"
                   PROVE  told'[p] = IF monitor[k] = NoSocket THEN {} ELSE {MonitorPeer}
        BY <1>1, <2>2, <3>1 DEF ParentView
      <4>1. p # monitor[n] /\ status[p] = "open"
        BY <1>0, <2>1, <2>2, MembersJoined
      <4>2. told[p] = IF monitor[k] = NoSocket THEN {} ELSE {MonitorPeer}
        BY <1>1, <4>1, RelayAssumption DEF ParentView
      <4> HIDE DEF p
      <4> QED BY <2>1, <4>1, <4>2
    <3> QED BY <3>2, <3>3, <3>4, <3>5, ViewsByMember
  <2> QED BY <2>3, <2>4
<1>10. ASSUME NEW n \in Name, RoomExpires(n) PROVE Kept
  <2>1. /\ status' = ClosingAll(Occupants(n))
        /\ UNCHANGED <<joined, told>>
        /\ \A k \in Name : /\ monitor'[k] = IF k = n THEN NoSocket ELSE monitor[k]
                           /\ parents'[k] = IF k = n THEN NoParents ELSE parents[k]
    BY <1>0, <1>10 DEF RoomExpires, TypeOK
  <2>2. \A t \in Socket : status'[t] = "open" => status[t] = "open" /\ t \notin Occupants(n)
    BY <2>1 DEF ClosingAll
  <2>3. FreshKnowNobody'
    BY <1>0, <2>1, <2>2 DEF FreshKnowNobody
  <2>4. OpenParentsAreSeated'
    <3> SUFFICES ASSUME NEW t \in Socket, status'[t] = "open", joined[t].role = "parent"
                 PROVE  parents'[joined[t].room][joined[t].device] = t
      BY <2>1 DEF OpenParentsAreSeated
    <3>1. /\ joined[t].room \in Name /\ joined[t].device \in Device
          /\ parents[joined[t].room][joined[t].device] = t
      BY <1>0, <2>2, JoinedRoom DEF OpenParentsAreSeated
    <3>2. joined[t].room # n
      BY <2>2, <3>1, RelayAssumption DEF Occupants, ParentSockets, DevicesIn
    <3> QED BY <2>1, <3>1, <3>2
  <2>5. ASSUME NEW k \in Name PROVE MonitorView(k)'
    BY <1>1, <2>1, <2>2 DEF MonitorView, DevicesIn
  <2>6. ASSUME NEW k \in Name, NEW e \in Device PROVE ParentView(k, e)'
    <3>1. CASE k = n
      BY <2>1, <3>1 DEF ParentView, NoParents
    <3>2. CASE k # n
      <4>1. ParentView(k, e) /\ parents[k][e] \in Socket \cup {NoSocket}
        BY <1>1
      <4> QED BY <2>1, <2>2, <3>2, <4>1 DEF ParentView
    <3> QED BY <3>1, <3>2
  <2> QED BY <2>3, <2>4, <2>5, <2>6, ViewsByMember
<1>11. ASSUME NEW s \in Socket, RejectFrame(s) \/ JoinRateLimited(s) PROVE Kept
  BY <1>3, <1>11 DEF RejectFrame, JoinRateLimited
<1>12. ASSUME NEW s \in Socket, NEW n \in Name, JoinRoleTaken(s, n) PROVE Kept
  BY <1>3, <1>12 DEF JoinRoleTaken
<1>13. ASSUME NEW s \in Socket, NEW c \in Code, SetAlias(s, c) PROVE Kept
  BY <1>4, <1>13 DEF SetAlias
<1>14. ASSUME NEW s \in Socket, NEW d \in Device, SignalToParent(s, d) PROVE Kept
  BY <1>4, <1>14 DEF SignalToParent, Forward
<1>15. ASSUME NEW s \in Socket, SignalToMonitor(s) PROVE Kept
  BY <1>4, <1>15 DEF SignalToMonitor, Forward
<1>16. ASSUME NEW s \in Socket, CloseIgnored(s) PROVE Kept
  BY <1>7, <1>16 DEF CloseIgnored
<1>17. ASSUME NEW c \in Code, AliasExpires(c) PROVE Kept
  BY <1>4, <1>17 DEF AliasExpires
<1>18. ASSUME NEW a \in Address, WindowElapses(a) PROVE Kept
  BY <1>4, <1>18 DEF WindowElapses
<1>19. CASE UNCHANGED vars
  BY <1>4, <1>19 DEF vars
<1> QED
  BY <1>2, <1>5, <1>6, <1>8, <1>9, <1>10, <1>11, <1>12, <1>13, <1>14, <1>15, <1>16, <1>17,
     <1>18, <1>19 DEF Next, Frame, Close

LEMMA ViewsInvariant == Spec => []ViewsInv
<1>1. Init => ViewsInv
  <2> SUFFICES ASSUME Init PROVE ViewsMatchRoom /\ FreshKnowNobody /\ OpenParentsAreSeated
    BY InitMembership DEF ViewsInv
  <2> QED BY DEF Init, NoParents, ViewsMatchRoom, FreshKnowNobody, OpenParentsAreSeated,
                 ParentSockets, DevicesIn
<1> QED BY <1>1, NextViews, PTL DEF Spec

\* What the clients in a room were told adds up to who is in it.
THEOREM RelayViewsMatchRoom == Spec => []ViewsMatchRoom
BY ViewsInvariant, PTL DEF ViewsInv

-----------------------------------------------------------------------------
(* Signals.                                                                 *)

\* Only the two Signal actions leave a relayed frame behind, and both leave the
\* rooms as they are.
LEMMA OnlySignalsRelay ==
  ASSUME [Next]_vars, relayed' # NoSignal
  PROVE  \/ UNCHANGED vars
         \/ \E s \in Socket : SignalToMonitor(s) \/ \E d \in Device : SignalToParent(s, d)
<1> USE DEF socketVars, roomVars, aliasVars
<1>1. ASSUME NEW s \in Socket, Connect(s) \/ Close(s) PROVE FALSE
  BY <1>1 DEF Connect, Close, CloseIgnored, CloseMonitor, CloseParent, Closed
<1>2. ASSUME NEW s \in Socket, Frame(s)
      PROVE  SignalToMonitor(s) \/ \E d \in Device : SignalToParent(s, d)
  BY <1>2 DEF Frame, RejectFrame, JoinRateLimited, JoinRoleTaken, JoinMonitor, JoinParent,
              Admitted, SetAlias
<1>3. /\ ~\E n \in Name : RoomExpires(n)
      /\ ~\E c \in Code : AliasExpires(c)
      /\ ~\E a \in Address : WindowElapses(a)
  BY DEF RoomExpires, AliasExpires, WindowElapses
<1> QED BY <1>1, <1>2, <1>3 DEF Next

LEMMA NextSignals ==
  ASSUME ViewsInv, SignalsAreAnswerable, [Next]_vars
  PROVE  SignalsAreAnswerable'
<1> USE DEF socketVars, roomVars, aliasVars
<1> SUFFICES ASSUME relayed' # NoSignal, joined'[relayed'.from].role = "parent",
                    status'[relayed'.from] = "open"
             PROVE  LET sender == joined'[relayed'.from]
                    IN  /\ sender.device \in told'[relayed'.to]
                        /\ parents'[sender.room][sender.device] = relayed'.from
                        /\ joined'[relayed'.to] = AsMonitor(sender.room)
  BY DEF SignalsAreAnswerable, AsMonitor
<1>1. CASE UNCHANGED vars
  BY <1>1 DEF SignalsAreAnswerable, vars
<1>2. ASSUME NEW s \in Socket, SignalToMonitor(s)
      PROVE  LET sender == joined'[relayed'.from]
             IN  /\ sender.device \in told'[relayed'.to]
                 /\ parents'[sender.room][sender.device] = relayed'.from
                 /\ joined'[relayed'.to] = AsMonitor(sender.room)
  <2> DEFINE n == joined[s].room
             m == monitor[n]
  <2>1. TypeOK /\ NoGhostMembers /\ ViewsMatchRoom /\ OpenParentsAreSeated
    BY DEF ViewsInv, MembershipInv
  <2>2. /\ joined[s].role = "parent" /\ n \in rooms /\ m # NoSocket /\ status[m] = "open"
        /\ relayed' = [from |-> s, to |-> m]
        /\ UNCHANGED <<status, joined, monitor, parents, told>>
    BY <1>2 DEF SignalToMonitor, Forward
  <2>3. n \in Name /\ joined[s].device \in Device
    BY <2>1, <2>2, JoinedRoom
  <2>4. /\ parents[n][joined[s].device] = s /\ s # NoSocket
        /\ told[m] = DevicesIn(parents[n])
        /\ joined[m] = AsMonitor(n)
    <3>1. relayed'.from = s
      BY <2>2
    <3>2. parents[n][joined[s].device] = s
      BY <2>1, <2>2, <3>1 DEF OpenParentsAreSeated
    <3>3. told[m] = DevicesIn(parents[n])
      BY <2>1, <2>2, <2>3 DEF ViewsMatchRoom
    <3>4. joined[m] = AsMonitor(n)
      BY <2>1, <2>2, <2>3 DEF NoGhostMembers, AsMonitor
    <3> QED BY <3>2, <3>3, <3>4, RelayAssumption
  <2>5. joined[s].device \in told[m]
    BY <2>3, <2>4 DEF DevicesIn
  <2> HIDE DEF m
  <2> QED BY <2>2, <2>4, <2>5 DEF AsMonitor
\* A frame to a Parent comes from a Monitor.
<1>3. ASSUME NEW s \in Socket, NEW d \in Device, SignalToParent(s, d) PROVE FALSE
  BY <1>3 DEF SignalToParent, Forward
<1> QED BY <1>1, <1>2, <1>3, OnlySignalsRelay

\* A frame that an open Parent sent is answerable: the Monitor it reaches knows
\* the deviceId, which leads back to the same socket.
THEOREM RelaySignalsAreAnswerable == Spec => []SignalsAreAnswerable
<1>1. Init => SignalsAreAnswerable
  BY DEF Init, SignalsAreAnswerable
<1>2. SignalsAreAnswerable /\ ViewsInv /\ [Next]_vars => SignalsAreAnswerable'
  BY NextSignals
<1> QED BY <1>1, <1>2, ViewsInvariant, PTL DEF Spec

-----------------------------------------------------------------------------
(* Aliases: SetAlias and AliasExpires are the only steps that touch them.  *)

AliasInv == TypeOK /\ AliasLivesOnItsTimer

LEMMA NextAlias == AliasInv /\ [Next]_vars => AliasInv'
<1> SUFFICES ASSUME AliasInv, [Next]_vars PROVE AliasInv'
  OBVIOUS
<1>1. TypeOK /\ AliasLivesOnItsTimer /\ TypeOK'
  BY NextTypeOK DEF AliasInv
<1>2. ASSUME UNCHANGED aliasVars PROVE AliasLivesOnItsTimer'
  BY <1>1, <1>2 DEF AliasLivesOnItsTimer, aliasVars
<1>3. ASSUME NEW s \in Socket, NEW c \in Code, SetAlias(s, c)
      PROVE  AliasLivesOnItsTimer'
  <2>1. joined[s].room \in Name /\ joined[s].room # NoName
    BY <1>1, <1>3, JoinedRoom, RelayAssumption DEF SetAlias
  <2>2. aliasTimeouts[c] \in 0 .. 1 /\ Cleared(aliasTimeouts[c]) = 0
    BY <1>1 DEF TypeOK, Cleared
  <2>3. \A k \in Code : /\ aliases'[k] = IF k = c THEN joined[s].room ELSE aliases[k]
                        /\ aliasTimeouts'[k] = IF k = c THEN 1 ELSE aliasTimeouts[k]
    BY <1>1, <1>3, <2>2 DEF SetAlias, TypeOK
  <2> QED BY <1>1, <2>1, <2>3 DEF AliasLivesOnItsTimer
<1>4. ASSUME NEW c \in Code, AliasExpires(c) PROVE AliasLivesOnItsTimer'
  <2>1. \A k \in Code : /\ aliases'[k] = IF k = c THEN NoName ELSE aliases[k]
                        /\ aliasTimeouts'[k] = IF k = c THEN 0 ELSE aliasTimeouts[k]
    BY <1>1, <1>4 DEF AliasExpires, TypeOK
  <2> QED BY <1>1, <2>1 DEF AliasLivesOnItsTimer
<1>5. ASSUME NEW s \in Socket, Frame(s), ~\E c \in Code : SetAlias(s, c)
      PROVE  UNCHANGED aliasVars
  BY <1>5 DEF Frame, RejectFrame, JoinRateLimited, JoinRoleTaken, JoinMonitor, JoinParent,
              SignalToParent, SignalToMonitor, Forward
<1>6. ASSUME NEW s \in Socket, Connect(s) \/ Close(s) PROVE UNCHANGED aliasVars
  BY <1>6 DEF Connect, Close, CloseIgnored, CloseMonitor, CloseParent, Closed
<1>7. ASSUME NEW n \in Name, RoomExpires(n) PROVE UNCHANGED aliasVars
  BY <1>7 DEF RoomExpires, aliasVars
<1>8. ASSUME NEW a \in Address, WindowElapses(a) PROVE UNCHANGED aliasVars
  BY <1>8 DEF WindowElapses, aliasVars
<1>9. CASE UNCHANGED vars
  BY <1>1, <1>2, <1>9 DEF vars, aliasVars, AliasInv
<1> QED
  BY <1>1, <1>2, <1>3, <1>4, <1>5, <1>6, <1>7, <1>8, <1>9 DEF Next, AliasInv

\* A code resolves exactly as long as its TTL timeout is pending.
THEOREM RelayAliasLivesOnItsTimer == Spec => []AliasLivesOnItsTimer
<1>1. Init => AliasInv
  BY InitTypeOK, RelayAssumption DEF Init, AliasInv, AliasLivesOnItsTimer
<1> QED BY <1>1, NextAlias, PTL DEF Spec, AliasInv
=============================================================================
