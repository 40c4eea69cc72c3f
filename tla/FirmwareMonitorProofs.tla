------------------------ MODULE FirmwareMonitorProofs -----------------------
(***************************************************************************)
(* Invariants of FirmwareMonitor for any set of Parents and any capacity   *)
(* of its slots, its list of authorized listeners and its list of holders, *)
(* and that it implements InviteGate.                                      *)
(***************************************************************************)
EXTENDS FirmwareMonitor, FiniteSetTheorems, SequenceTheorems, TLAPS

\* The types of the room, the slots, the invite, and the signalling client.
RoomTypes ==
  /\ present \subseteq Device
  /\ inbox \in Seq([kind : {"joined", "left"}, device : Device])

SlotTypes ==
  /\ authorized \subseteq Device
  /\ listener \in [Device -> Listener \cup {None}]
  /\ sender \in Device \cup {None}

InviteTypes ==
  /\ doing \in [Task -> Step]
  /\ count \in Int /\ seen \in [Task -> Int] /\ lost \in BOOLEAN
  /\ code \in BOOLEAN

ClientTypes ==
  /\ socket \in {"none", "open", "joined", "refused", "dead"}
  /\ started \in {"no", "yes", "failed"}
  /\ clientTask \in BOOLEAN /\ needsRestart \in BOOLEAN

AliasTypes == alias \in BOOLEAN /\ registered \in BOOLEAN /\ muddled \in BOOLEAN

LEMMA TypesSplit ==
  TypeOK <=> RoomTypes /\ SlotTypes /\ InviteTypes /\ ClientTypes /\ AliasTypes
BY DEF TypeOK, RoomTypes, SlotTypes, InviteTypes, ClientTypes, AliasTypes

-----------------------------------------------------------------------------
(* The signalling client.                                                  *)

\* A client that was started has its task, or the main loop is to restart it; and
\* there is no socket without that task.
OneReconnects ==
  /\ clientTask <=> started = "yes" /\ ~needsRestart
  /\ needsRestart => started = "yes"
  /\ socket # "none" => clientTask

ClientInv == ClientTypes /\ OneReconnects

LEMMA ClientInit == Init => ClientInv
BY DEF Init, ClientInv, ClientTypes, OneReconnects

\* Between two sockets the client's variables keep still.
LEMMA SocketGoesOn ==
  ASSUME ClientInv, UNCHANGED clientVars, socket' \in {"none", "open", "joined", "refused", "dead"},
         socket' # "none" => clientTask
  PROVE  ClientInv'
BY DEF ClientInv, ClientTypes, OneReconnects, clientVars

LEMMA ClientStep ==
  ASSUME ClientInv, [Next]_vars
  PROVE  ClientInv'
<1>1. CASE UNCHANGED <<socket, clientVars>>
  BY <1>1, SocketGoesOn DEF ClientInv, ClientTypes, OneReconnects
<1>2. CASE SocketConnects \/ SocketDies
  BY <1>2, SocketGoesOn DEF SocketConnects, SocketDies, ClientInv, OneReconnects
<1>3. ASSUME NEW accepted \in BOOLEAN, SocketJoins(accepted)
      PROVE  ClientInv'
  BY <1>3, SocketGoesOn DEF SocketJoins, ClientInv, ClientTypes, OneReconnects
<1>4. CASE ResendAlias \/ \E t \in Task : ArmAlias(t)
  <2>1. UNCHANGED clientVars /\ socket' \in {socket, "refused"} /\ (socket' # socket => socket = "open")
    BY <1>4 DEF ResendAlias, ArmAlias, SetAlias
  <2> QED
    BY <2>1, SocketGoesOn DEF ClientInv, ClientTypes, OneReconnects
<1>5. CASE SocketDrops
  BY <1>5, SocketGoesOn DEF SocketDrops, SocketGone, clientVars
<1>6. CASE SocketCloses
  <2>1. /\ socket # "none" /\ socket' = "none" /\ started' = started
        /\ clientTask' = FALSE /\ needsRestart' = TRUE
    BY <1>6 DEF SocketCloses, SocketGone
  <2> QED
    BY <2>1 DEF ClientInv, ClientTypes, OneReconnects
<1>7. ASSUME NEW ok \in BOOLEAN, Start(ok)
      PROVE  ClientInv'
  <2>1. /\ started = "no" /\ started' = IF ok THEN "yes" ELSE "failed"
        /\ clientTask' = ok /\ UNCHANGED <<socket, needsRestart>>
    BY <1>7 DEF Start
  <2> QED
    BY <2>1 DEF ClientInv, ClientTypes, OneReconnects
<1>8. ASSUME NEW ok \in BOOLEAN, Poll(ok)
      PROVE  ClientInv'
  <2>1. needsRestart /\ needsRestart' = ~ok /\ clientTask' = ok /\ UNCHANGED <<socket, started>>
    BY <1>8 DEF Poll
  <2> QED
    BY <2>1 DEF ClientInv, ClientTypes, OneReconnects
<1>9. CASE Reboot
  BY <1>9 DEF Reboot, ClientInv, ClientTypes, OneReconnects
<1>10. ASSUME NEW d \in Device,
              \/ ParentJoins(d) \/ ParentSupersedes(d) \/ PeerConnects(d) \/ PeerFails(d)
              \/ TeardownCloses(d) \/ TeardownFrees(d)
              \/ \E yes \in BOOLEAN : ParentLeaves(d, yes) \/ InviteRequest(d, yes)
       PROVE  UNCHANGED <<socket, clientVars>>
  BY <1>10 DEF ParentJoins, ParentSupersedes, PeerConnects, PeerFails, TeardownCloses,
               TeardownFrees, ParentLeaves, InviteRequest, signalingVars
<1>11. ASSUME \/ \E yes \in BOOLEAN : PeerJoined(yes) \/ StoreListener(yes) \/ PeerOpens(yes)
              \/ AllocListener \/ PeerLeft \/ Tap \/ InviteTimerFires
              \/ \E t \in Task : \/ OpenStores(t) \/ ArmCode(t)
                                 \/ CloseStores(t) \/ ExpireLoads(t) \/ ExpireEnds(t)
       PROVE  UNCHANGED <<socket, clientVars>>
  BY <1>11 DEF PeerJoined, StoreListener, PeerOpens, AllocListener, PeerLeft, Tap,
               InviteTimerFires, OpenStores, ArmCode, CloseStores, ExpireLoads, ExpireEnds,
               signalingVars
<1>12. CASE UNCHANGED vars
  BY <1>1, <1>12 DEF vars, signalingVars
<1> QED
  BY <1>1, <1>2, <1>3, <1>4, <1>5, <1>6, <1>7, <1>8, <1>9, <1>10, <1>11, <1>12,
     FirmwareAssumption
  DEF Next, WebsocketTask, PumpTask, Arms, Expires, Task

-----------------------------------------------------------------------------
(* Invite mode.                                                            *)

\* Who is where: only the timer and the pump task expire, only the others arm.
Places ==
  /\ doing["main"] \in {"idle", "open", "arm", "alias"}
  /\ doing["timer"] \in {"idle", "expire", "close"}
  /\ doing["pump"] \in {"idle", "expire", "close"}
  /\ doing["ws"] # "expire"

InviteInv == InviteTypes /\ Places /\ InviteOpenHasCode

\* What Init and Reboot make of it.
LEMMA InviteFromRest ==
  ASSUME doing = [t \in Task |-> "idle"], count = 0, seen = [t \in Task |-> 0], lost = FALSE,
         code = FALSE
  PROVE  InviteInv
<1>1. "idle" \in Step
  BY DEF Step
<1>2. InviteTypes
  <2>1. doing \in [Task -> Step]
    BY <1>1
  <2>2. seen \in [Task -> Int]
    OBVIOUS
  <2>3. count \in Int
    OBVIOUS
  <2>4. lost \in BOOLEAN /\ code \in BOOLEAN
    BY Zenon
  <2> QED
    BY <2>1, <2>2, <2>3, <2>4 DEF InviteTypes
<1>3. \A t \in Task : doing[t] = "idle"
  OBVIOUS
<1>4. Places
  BY <1>3 DEF Places, Task
<1>5. InviteOpenHasCode
  BY DEF InviteOpenHasCode
<1> QED
  BY <1>2, <1>4, <1>5 DEF InviteInv

LEMMA InviteInit == Init => InviteInv
BY InviteFromRest DEF Init

\* The steps at which a task is not opening or expiring the window.
Apart == {"idle", "join", "resend", "store", "admit", "peer", "alias"}

\* The websocket task goes from one such step to another, or starts to open the
\* window, or closes it for one holder.
LEMMA WebsocketGoesOn ==
  ASSUME InviteInv, UNCHANGED <<count, lost, code>>, seen' \in [Task -> Int],
         doing["ws"] \in Apart,
         NEW step \in Apart \cup {"open", "arm", "close"}, Goes("ws", step)
  PROVE  InviteInv'
<1>1. InviteTypes' /\ Places'
  BY DEF InviteInv, InviteTypes, Places, Goes, Apart, Step, Task
<1>2. TurningWindow => TurningWindow'
  BY DEF InviteInv, InviteTypes, Goes, Apart, TurningWindow, Task
<1> QED
  BY <1>1, <1>2 DEF InviteInv, InviteOpenHasCode

LEMMA StoresKeeps ==
  ASSUME InviteTypes, NEW t \in Task, NEW n \in {1, -1}, Stores(t, n)
  PROVE  /\ count' \in Int /\ seen' \in [Task -> Int] /\ lost' \in BOOLEAN
         /\ ~lost' => ~lost /\ count' = count + n
<1>1. PICK old \in {seen[t], count} :
        count' = old + n /\ lost' = (lost \/ old # count) /\ seen' = [seen EXCEPT ![t] = 0]
  BY DEF Stores
<1>2. old \in Int /\ old + n \in Int
  BY <1>1 DEF InviteTypes
<1>3. lost' \in BOOLEAN /\ (~lost' => ~lost /\ old = count)
  BY <1>1 DEF InviteTypes
<1> QED
  BY <1>1, <1>2, <1>3 DEF InviteTypes

LEMMA InviteStep ==
  ASSUME InviteInv, [Next]_vars
  PROVE  InviteInv'
<1>0. InviteTypes /\ Places /\ InviteOpenHasCode
  BY DEF InviteInv
<1>1. CASE UNCHANGED <<doing, holderVars, code>>
  BY <1>0, <1>1 DEF InviteInv, InviteTypes, Places, InviteOpenHasCode, TurningWindow, holderVars
<1>2. ASSUME NEW t \in {"ws", "main"}, OpenStores(t)
      PROVE  InviteInv'
  <2>1. Goes(t, "arm") /\ Stores(t, 1) /\ code' = code /\ t \in Task
    BY <1>2 DEF OpenStores, Task
  <2>2. count' \in Int /\ seen' \in [Task -> Int] /\ lost' \in BOOLEAN
    BY <1>0, <2>1, StoresKeeps
  <2>3. InviteTypes' /\ Places'
    BY <1>0, <2>1, <2>2 DEF InviteTypes, Places, Goes, Step, Task
  <2>4. TurningWindow'
    BY <1>0, <2>1 DEF InviteTypes, Goes, TurningWindow
  <2> QED
    BY <2>3, <2>4 DEF InviteInv, InviteOpenHasCode
<1>3. ASSUME NEW t \in {"ws", "main"}, ArmCode(t)
      PROVE  InviteInv'
  <2>1. code' = TRUE /\ UNCHANGED holderVars /\ t \in Task
    BY <1>3 DEF ArmCode, Task
  <2>2. Goes(t, "idle") \/ Goes(t, "alias")
    BY <1>3 DEF ArmCode
  <2> QED
    BY <1>0, <2>1, <2>2
    DEF InviteInv, InviteTypes, Places, InviteOpenHasCode, Goes, Step, Task, holderVars
<1>4. ASSUME NEW t \in {"ws", "main"}, ArmAlias(t)
      PROVE  InviteInv'
  <2>1. doing[t] = "alias" /\ Goes(t, "idle") /\ UNCHANGED <<holderVars, code>> /\ t \in Task
    BY <1>4 DEF ArmAlias, Task
  <2>2. InviteTypes' /\ Places'
    BY <1>0, <2>1 DEF InviteTypes, Places, Goes, Step, Task, holderVars
  <2>3. TurningWindow => TurningWindow'
    BY <1>0, <2>1 DEF InviteTypes, Goes, TurningWindow, Task
  <2> QED
    BY <1>0, <2>1, <2>2, <2>3 DEF InviteInv, InviteOpenHasCode, holderVars
<1>5. CASE Tap
  <2>1. /\ UNCHANGED <<count, lost, code>>
        /\ \/ Goes("main", "arm") /\ seen' = seen
           \/ Goes("main", "open") /\ seen' = [seen EXCEPT !["main"] = count]
    BY <1>5 DEF Tap, OpenLoads
  <2>2. InviteTypes' /\ Places'
    BY <1>0, <2>1 DEF InviteTypes, Places, Goes, Step, Task
  <2>3. TurningWindow'
    BY <1>0, <2>1 DEF InviteTypes, Goes, TurningWindow, Task
  <2> QED
    BY <2>2, <2>3 DEF InviteInv, InviteOpenHasCode
<1>6. ASSUME NEW t \in {"timer", "pump"}, ExpireCode(t)
      PROVE  InviteInv'
  <2>1. Goes(t, "expire") /\ code' = FALSE /\ UNCHANGED holderVars
    BY <1>6 DEF ExpireCode
  <2>2. InviteTypes' /\ Places'
    BY <1>0, <2>1 DEF InviteTypes, Places, Goes, Step, Task, holderVars
  <2>3. TurningWindow'
    BY <1>0, <2>1 DEF InviteTypes, Goes, TurningWindow, Task
  <2> QED
    BY <2>2, <2>3 DEF InviteInv, InviteOpenHasCode
<1>7. ASSUME NEW t \in {"timer", "pump"}, ExpireLoads(t)
      PROVE  InviteInv'
  <2>1. /\ Goes(t, "close") /\ seen' = [seen EXCEPT ![t] = count]
        /\ UNCHANGED <<count, lost, code>>
    BY <1>7 DEF ExpireLoads
  <2>2. InviteTypes' /\ Places'
    BY <1>0, <2>1 DEF InviteTypes, Places, Goes, Step, Task
  <2>3. TurningWindow'
    BY <1>0, <2>1 DEF InviteTypes, Goes, TurningWindow, Task
  <2> QED
    BY <2>2, <2>3 DEF InviteInv, InviteOpenHasCode
<1>8. ASSUME NEW t \in {"timer", "pump"}, CloseStores(t)
      PROVE  InviteInv'
  <2>1. Goes(t, "expire") /\ Stores(t, -1) /\ code' = code /\ t \in Task
    BY <1>8 DEF CloseStores, Task
  <2>2. count' \in Int /\ seen' \in [Task -> Int] /\ lost' \in BOOLEAN
    BY <1>0, <2>1, StoresKeeps
  <2>3. InviteTypes' /\ Places'
    BY <1>0, <2>1, <2>2 DEF InviteTypes, Places, Goes, Step, Task
  <2>4. TurningWindow'
    BY <1>0, <2>1 DEF InviteTypes, Goes, TurningWindow
  <2> QED
    BY <2>3, <2>4 DEF InviteInv, InviteOpenHasCode
<1>9. CASE CloseStores("ws")
  <2>1. doing["ws"] = "close" /\ Goes("ws", "idle") /\ Stores("ws", -1) /\ code' = code
    BY <1>9 DEF CloseStores
  <2>2. /\ count' \in Int /\ seen' \in [Task -> Int] /\ lost' \in BOOLEAN
        /\ ~lost' => ~lost /\ count' = count + (-1)
    <3>1. "ws" \in Task
      BY DEF Task
    <3> QED
      BY <1>0, <2>1, <3>1, StoresKeeps
  <2>3. InviteTypes' /\ Places'
    BY <1>0, <2>1, <2>2 DEF InviteTypes, Places, Goes, Step, Task
  <2>4. TurningWindow => TurningWindow'
    BY <1>0, <2>1 DEF InviteTypes, Goes, TurningWindow, Task
  <2>5. ~lost' /\ count' > 0 => ~lost /\ count > 0
    BY <1>0, <2>2 DEF InviteTypes
  <2> QED
    BY <1>0, <2>1, <2>3, <2>4, <2>5 DEF InviteInv, InviteOpenHasCode
<1>10. ASSUME NEW t \in {"timer", "pump"}, ExpireEnds(t)
       PROVE  InviteInv'
  <2>1. Goes(t, "idle") /\ count <= 0 /\ lost' = FALSE /\ UNCHANGED <<count, seen, code>>
    BY <1>10 DEF ExpireEnds
  <2>2. InviteTypes' /\ Places'
    BY <1>0, <2>1 DEF InviteTypes, Places, Goes, Step, Task
  <2>3. ~(count' > 0)
    BY <1>0, <2>1 DEF InviteTypes
  <2> QED
    BY <2>2, <2>3 DEF InviteInv, InviteOpenHasCode
<1>11. CASE Reboot
  <2>1. /\ doing' = [t \in Task |-> "idle"] /\ count' = 0 /\ seen' = [t \in Task |-> 0]
        /\ lost' = FALSE /\ code' = FALSE
    BY <1>11 DEF Reboot
  <2>2. InviteTypes'
    <3>1. "idle" \in Step
      BY DEF Step
    <3>2. doing' \in [Task -> Step]
      BY <2>1, <3>1
    <3>3. seen' \in [Task -> Int]
      BY <2>1
    <3>4. count' \in Int
      BY <2>1
    <3>5. lost' \in BOOLEAN /\ code' \in BOOLEAN
      BY <2>1, Zenon
    <3> QED
      BY <3>2, <3>3, <3>4, <3>5 DEF InviteTypes
  <2>3. \A t \in Task : doing'[t] = "idle"
    BY <2>1
  <2>4. Places'
    BY <2>3 DEF Places, Task
  <2> QED
    BY <2>1, <2>2, <2>4 DEF InviteInv, InviteOpenHasCode
<1>12. ASSUME NEW d \in Device, NEW open \in BOOLEAN, InviteRequest(d, open)
       PROVE  InviteInv'
  <2>1. /\ doing["ws"] = "idle" /\ UNCHANGED <<count, lost, code>>
        /\ OpenLoads("ws") \/ CloseLoads("ws")
    BY <1>12 DEF InviteRequest, Signals
  <2>2. \/ UNCHANGED <<doing, seen>>
        \/ /\ seen' \in [Task -> Int]
           /\ \E step \in {"arm", "open", "close"} : Goes("ws", step)
    BY <1>0, <2>1 DEF OpenLoads, CloseLoads, InviteTypes
  <2>3. CASE UNCHANGED <<doing, seen>>
    BY <1>1, <2>1, <2>3 DEF holderVars
  <2> QED
    BY <2>1, <2>2, <2>3, WebsocketGoesOn DEF Apart
<1>13. CASE PeerLeft
  <2>1. doing["ws"] = "idle" /\ UNCHANGED <<count, lost, code>> /\ CloseLoads("ws")
    BY <1>13 DEF PeerLeft, Receives
  <2>2. CASE UNCHANGED <<doing, seen>>
    BY <1>1, <2>1, <2>2 DEF holderVars
  <2>3. CASE Goes("ws", "close") /\ seen' = [seen EXCEPT !["ws"] = count]
    <3>1. seen' \in [Task -> Int]
      BY <1>0, <2>3 DEF InviteTypes
    <3> QED
      BY <2>1, <2>3, <3>1, WebsocketGoesOn DEF Apart
  <2> QED
    BY <2>1, <2>2, <2>3 DEF CloseLoads
<1>14. ASSUME NEW yes \in BOOLEAN,
              \/ SocketConnects \/ SocketJoins(yes) \/ ResendAlias
              \/ PeerJoined(yes) \/ StoreListener(yes) \/ AllocListener \/ PeerOpens(yes)
       PROVE  InviteInv'
  <2>1. UNCHANGED <<holderVars, code>> /\ doing["ws"] \in Apart
    BY <1>14 DEF SocketConnects, SocketJoins, ResendAlias, PeerJoined, Receives, StoreListener,
                 AllocListener, PeerOpens, Apart
  <2>2. \E step \in Apart : Goes("ws", step)
    BY <1>14 DEF SocketConnects, SocketJoins, ResendAlias, PeerJoined, StoreListener,
                 AllocListener, PeerOpens, Apart
  <2>3. seen' \in [Task -> Int]
    BY <1>0, <2>1 DEF InviteTypes, holderVars
  <2> QED
    BY <2>1, <2>2, <2>3, WebsocketGoesOn DEF holderVars
<1>15. ASSUME NEW d \in Device,
              \/ ParentJoins(d) \/ ParentSupersedes(d) \/ PeerFails(d)
              \/ TeardownCloses(d) \/ TeardownFrees(d)
              \/ \E stops \in BOOLEAN : ParentLeaves(d, stops)
       PROVE  UNCHANGED <<doing, holderVars, code>>
  BY <1>15 DEF ParentJoins, ParentSupersedes, PeerFails, TeardownCloses, TeardownFrees,
               ParentLeaves
<1>16. ASSUME SocketDies \/ SocketDrops \/ SocketCloses \/ \E ok \in BOOLEAN : Start(ok) \/ Poll(ok)
       PROVE  UNCHANGED <<doing, holderVars, code>>
  BY <1>16 DEF SocketDies, SocketDrops, SocketCloses, SocketGone, Start, Poll
<1>17. ASSUME NEW d \in Device, PeerConnects(d)
       PROVE  InviteInv'
  BY <1>1, <1>6, <1>17 DEF PeerConnects
<1>18. CASE InviteTimerFires
  BY <1>6, <1>18 DEF InviteTimerFires
<1>19. CASE UNCHANGED vars
  BY <1>1, <1>19 DEF vars
<1> QED
  BY <1>1, <1>2, <1>3, <1>4, <1>5, <1>7, <1>8, <1>9, <1>10, <1>11, <1>12, <1>13, <1>14, <1>15,
     <1>16, <1>17, <1>18, <1>19, FirmwareAssumption
  DEF Next, WebsocketTask, PumpTask, Arms, Expires

-----------------------------------------------------------------------------
(* The alias of the live code.                                             *)

\* Nobody is in set_alias; it is on its way to it after connecting, or in it.
Settled == \A t \in Task : doing[t] # "alias"
WebsocketSets == doing["ws"] \in {"alias", "resend"}

\* A live code is kept for the next connection, unless it was mixed with another;
\* which takes two tasks in set_alias.
CodeIsKept == code /\ ~muddled /\ Settled => alias
OneSets == ~muddled => ~(WebsocketSets /\ doing["main"] = "alias")

\* What LiveCodeResolves says, with "resend" a step of the websocket task only.
Resolves ==
  socket = "joined" /\ code /\ ~muddled /\ Settled /\ ~WebsocketSets => registered

AliasInv == AliasTypes /\ CodeIsKept /\ OneSets /\ Resolves

LEMMA AliasInit == Init => AliasInv
<1> SUFFICES ASSUME Init PROVE AliasInv
  OBVIOUS
<1>1. AliasTypes
  BY Zenon DEF Init, AliasTypes
<1>2. code = FALSE /\ "main" \in Task /\ doing = [t \in Task |-> "idle"]
  BY DEF Init, Task
<1> QED
  BY <1>1, <1>2 DEF AliasInv, CodeIsKept, OneSets, Resolves

\* Nothing happens to the alias or to who is setting it; the socket may be lost.
LEMMA AliasGoesOn ==
  ASSUME AliasInv, UNCHANGED <<code, alias, muddled>>,
         UNCHANGED registered \/ (socket' = "none" /\ registered' = FALSE),
         socket' = "joined" => socket = "joined",
         Settled' <=> Settled, WebsocketSets' <=> WebsocketSets,
         doing'["main"] = "alias" <=> doing["main"] = "alias"
  PROVE  AliasInv'
<1>1. AliasTypes'
  BY DEF AliasInv, AliasTypes
<1>2. CodeIsKept' /\ OneSets'
  BY DEF AliasInv, CodeIsKept, OneSets
<1>3. Resolves'
  BY DEF AliasInv, Resolves
<1> QED
  BY <1>1, <1>2, <1>3 DEF AliasInv

\* So it is when a task goes from one step to another, neither of them a part of
\* set_alias.
LEMMA TaskGoesOn ==
  ASSUME InviteTypes, NEW t \in Task, NEW step, Goes(t, step),
         doing[t] \notin {"alias", "resend"}, step \notin {"alias", "resend"}
  PROVE  /\ Settled' <=> Settled
         /\ WebsocketSets' <=> WebsocketSets
         /\ doing'["main"] = "alias" <=> doing["main"] = "alias"
BY DEF InviteTypes, Goes, Settled, WebsocketSets, Task

LEMMA AliasStep ==
  ASSUME InviteInv, AliasInv, [Next]_vars
  PROVE  AliasInv'
<1>0. /\ InviteTypes /\ Places
      /\ AliasTypes /\ CodeIsKept /\ OneSets /\ Resolves
  BY DEF InviteInv, AliasInv
<1>1. ASSUME NEW t \in {"ws", "main"}, ArmCode(t)
      PROVE  AliasInv'
  <2>1. CASE t = "ws" /\ code
    <3>1. doing[t] = "arm" /\ Goes(t, "idle") /\ t \in Task /\ UNCHANGED <<socket, code, aliasVars>>
      BY <1>1, <2>1 DEF ArmCode, Task
    <3> QED
      BY <1>0, <3>1, TaskGoesOn, AliasGoesOn DEF aliasVars
  <2>2. CASE ~(t = "ws" /\ code)
    <3>1. /\ Goes(t, "alias") /\ alias' = FALSE /\ registered' = FALSE
          /\ muddled' = \E u \in Task \ {t} : doing[u] \in {"alias", "resend"}
      BY <1>1, <2>2 DEF ArmCode
    <3>2. doing'[t] = "alias" /\ ~Settled' /\ t \in Task
      BY <1>0, <3>1 DEF InviteTypes, Goes, Settled, Task
    <3>3. OneSets'
      <4>1. CASE t = "ws"
        BY <1>0, <3>1, <4>1 DEF InviteTypes, Goes, OneSets, Task
      <4>2. CASE t = "main"
        BY <1>0, <3>1, <4>2 DEF InviteTypes, Goes, OneSets, WebsocketSets, Task
      <4> QED
        BY <4>1, <4>2
    <3>4. AliasTypes'
      <4>1. alias' \in BOOLEAN /\ registered' \in BOOLEAN
        BY <3>1, Zenon
      <4>2. muddled' \in BOOLEAN
        BY <3>1
      <4> QED
        BY <4>1, <4>2 DEF AliasTypes
    <3> QED
      BY <3>2, <3>3, <3>4 DEF AliasInv, CodeIsKept, Resolves
  <2> QED
    BY <2>1, <2>2
<1>2. ASSUME NEW t \in {"ws", "main"}, ArmAlias(t)
      PROVE  AliasInv'
  <2>1. /\ doing[t] = "alias" /\ Goes(t, "idle") /\ t \in Task /\ code' = code
        /\ alias' \in Texts(code) /\ muddled' = muddled
        /\ registered' \in IF socket = "joined" THEN Texts(code) ELSE {registered}
        /\ socket' = IF socket = "open" THEN "refused" ELSE socket
    BY <1>2 DEF ArmAlias, SetAlias, Task
  <2>2. AliasTypes'
    BY <1>0, <2>1 DEF AliasTypes, InviteTypes, Texts
  <2>3. ~muddled => alias' = code /\ (socket = "joined" => registered' = code)
    BY <2>1 DEF Texts
  <2>4. CodeIsKept'
    BY <2>1, <2>3 DEF CodeIsKept
  <2>5. OneSets'
    BY <1>0, <2>1 DEF InviteTypes, Goes, OneSets, WebsocketSets
  <2>6. Resolves'
    BY <2>1, <2>3 DEF Resolves
  <2> QED
    BY <2>2, <2>4, <2>5, <2>6 DEF AliasInv
<1>3. CASE ResendAlias
  <2>1. /\ doing["ws"] = "resend" /\ Goes("ws", "idle") /\ code' = code
        /\ alias' \in Texts(alias) /\ muddled' = muddled
        /\ registered' \in IF socket = "joined" THEN Texts(alias) ELSE {registered}
        /\ socket' = IF socket = "open" THEN "refused" ELSE socket
    BY <1>3 DEF ResendAlias, SetAlias
  <2>2. AliasTypes'
    BY <1>0, <2>1 DEF AliasTypes, Texts
  <2>3. ~muddled => alias' = alias /\ (socket = "joined" => registered' = alias)
    BY <2>1 DEF Texts
  <2>4. Settled' => Settled
    BY <1>0, <2>1 DEF InviteTypes, Goes, Settled, Task
  <2>5. CodeIsKept'
    BY <1>0, <2>1, <2>3, <2>4 DEF CodeIsKept
  <2>6. OneSets'
    BY <1>0, <2>1 DEF InviteTypes, Goes, OneSets, WebsocketSets, Task
  <2>7. Resolves'
    BY <1>0, <2>1, <2>3, <2>4 DEF Resolves, CodeIsKept
  <2> QED
    BY <2>2, <2>5, <2>6, <2>7 DEF AliasInv
<1>4. ASSUME NEW accepted \in BOOLEAN, SocketJoins(accepted)
      PROVE  AliasInv'
  <2>1. /\ doing["ws"] = "join" /\ Goes("ws", "resend")
        /\ UNCHANGED <<code, alias, registered>>
        /\ muddled' = (muddled \/ doing["main"] = "alias")
    BY <1>4 DEF SocketJoins
  <2>2. doing'["ws"] = "resend" /\ (Settled' => Settled) /\ doing'["main"] = doing["main"]
    BY <1>0, <2>1 DEF InviteTypes, Goes, Settled, Task
  <2>3. AliasTypes'
    <3>1. muddled' \in BOOLEAN
      BY <2>1
    <3> QED
      BY <1>0, <2>1, <3>1 DEF AliasTypes
  <2>4. CodeIsKept' /\ OneSets' /\ Resolves'
    BY <1>0, <2>1, <2>2 DEF CodeIsKept, OneSets, Resolves, WebsocketSets
  <2> QED
    BY <2>3, <2>4 DEF AliasInv
<1>5. ASSUME NEW t \in {"timer", "pump"}, ExpireCode(t)
      PROVE  AliasInv'
  <2>1. /\ Goes(t, "expire") /\ code' = FALSE /\ alias' = FALSE /\ registered' = FALSE
        /\ muddled' = muddled
    BY <1>5 DEF ExpireCode
  <2>2. doing'["ws"] = doing["ws"] /\ doing'["main"] = doing["main"]
    BY <1>0, <2>1 DEF InviteTypes, Goes, Task
  <2>3. AliasTypes'
    <3>1. alias' \in BOOLEAN /\ registered' \in BOOLEAN
      BY <2>1, Zenon
    <3> QED
      BY <1>0, <2>1, <3>1 DEF AliasTypes
  <2> QED
    BY <1>0, <2>1, <2>2, <2>3 DEF AliasInv, CodeIsKept, OneSets, Resolves, WebsocketSets
<1>6. ASSUME NEW ok \in BOOLEAN, Start(ok)
      PROVE  AliasInv'
  <2>1. /\ doing["main"] = "idle" /\ alias' = FALSE /\ muddled' = code
        /\ UNCHANGED <<doing, code, socket, registered>>
    BY <1>6 DEF Start
  <2>2. AliasTypes'
    <3>1. alias' \in BOOLEAN
      BY <2>1, Zenon
    <3> QED
      BY <1>0, <2>1, <3>1 DEF AliasTypes, InviteTypes
  <2> QED
    BY <1>0, <2>1, <2>2 DEF AliasInv, CodeIsKept, OneSets, Resolves, WebsocketSets
<1>7. CASE Reboot
  <2>1. /\ alias' = FALSE /\ registered' = FALSE /\ muddled' = FALSE
        /\ code' = FALSE /\ doing' = [t \in Task |-> "idle"] /\ "main" \in Task
    BY <1>7 DEF Reboot, Task
  <2>2. AliasTypes'
    BY <2>1, Zenon DEF AliasTypes
  <2> QED
    BY <2>1, <2>2 DEF AliasInv, CodeIsKept, OneSets, Resolves
<1>8. ASSUME NEW t \in Task, NEW step, Goes(t, step),
             doing[t] \notin {"alias", "resend"}, step \notin {"alias", "resend"},
             UNCHANGED <<code, aliasVars>>, socket' = "joined" => socket = "joined"
      PROVE  AliasInv'
  BY <1>0, <1>8, TaskGoesOn, AliasGoesOn DEF aliasVars
<1>9. ASSUME UNCHANGED <<doing, code, alias, muddled>>,
             UNCHANGED registered \/ (socket' = "none" /\ registered' = FALSE),
             socket' = "joined" => socket = "joined"
      PROVE  AliasInv'
  BY <1>9, AliasGoesOn DEF Settled, WebsocketSets
<1>10. ASSUME NEW t \in Task, OpenStores(t) \/ CloseStores(t) \/ ExpireLoads(t) \/ ExpireEnds(t)
       PROVE  AliasInv'
  <2>1. /\ doing[t] \in {"open", "close", "expire"}
        /\ \E step \in {"arm", "idle", "expire", "close"} : Goes(t, step)
        /\ UNCHANGED <<code, signalingVars>>
    BY <1>10 DEF OpenStores, CloseStores, ExpireLoads, ExpireEnds
  <2> QED
    BY <1>8, <2>1 DEF signalingVars
<1>11. ASSUME NEW yes \in BOOLEAN,
              PeerJoined(yes) \/ StoreListener(yes) \/ AllocListener \/ PeerOpens(yes)
       PROVE  AliasInv'
  <2>1. /\ doing["ws"] \in {"idle", "store", "admit", "peer"}
        /\ \E step \in {"idle", "store", "admit", "peer"} : Goes("ws", step)
        /\ UNCHANGED <<code, signalingVars>> /\ "ws" \in Task
    BY <1>11 DEF PeerJoined, Receives, StoreListener, AllocListener, PeerOpens, Task
  <2> QED
    BY <1>8, <2>1 DEF signalingVars
<1>12. ASSUME NEW t \in {"ws", "main"}, doing[t] = "idle", OpenLoads(t) \/ CloseLoads(t),
              UNCHANGED <<code, signalingVars>>
       PROVE  AliasInv'
  <2>1. \/ UNCHANGED doing
        \/ \E step \in {"arm", "open", "close"} : Goes(t, step)
    BY <1>12 DEF OpenLoads, CloseLoads
  <2>2. t \in Task
    BY DEF Task
  <2> QED
    BY <1>8, <1>9, <1>12, <2>1, <2>2 DEF signalingVars, aliasVars
<1>13. CASE Tap \/ PeerLeft \/ \E d \in Device, open \in BOOLEAN : InviteRequest(d, open)
  BY <1>12, <1>13 DEF Tap, PeerLeft, Receives, InviteRequest, Signals
<1>14. CASE SocketConnects
  <2>1. /\ doing["ws"] = "idle" /\ Goes("ws", "join") /\ socket' = "open"
        /\ UNCHANGED <<code, aliasVars>> /\ "ws" \in Task
    BY <1>14 DEF SocketConnects, Task
  <2> QED
    BY <1>8, <2>1
<1>15. CASE SocketDies \/ SocketDrops \/ SocketCloses
  BY <1>9, <1>15 DEF SocketDies, SocketDrops, SocketCloses, SocketGone, aliasVars
<1>16. ASSUME NEW d \in Device,
              \/ ParentJoins(d) \/ ParentSupersedes(d) \/ PeerFails(d)
              \/ TeardownCloses(d) \/ TeardownFrees(d)
              \/ \E stops \in BOOLEAN : ParentLeaves(d, stops)
       PROVE  UNCHANGED <<doing, code, signalingVars>>
  BY <1>16 DEF ParentJoins, ParentSupersedes, PeerFails, TeardownCloses, TeardownFrees,
               ParentLeaves
<1>17. ASSUME NEW ok \in BOOLEAN, Poll(ok)
       PROVE  UNCHANGED <<doing, code, socket, aliasVars>>
  BY <1>17 DEF Poll
<1>18. ASSUME NEW d \in Device, PeerConnects(d)
       PROVE  AliasInv'
  BY <1>5, <1>9, <1>18 DEF PeerConnects, aliasVars
<1>19. CASE InviteTimerFires
  BY <1>5, <1>19 DEF InviteTimerFires
<1>20. CASE UNCHANGED vars
  BY <1>9, <1>20 DEF vars, signalingVars, aliasVars
<1>21. UNCHANGED <<doing, code, signalingVars>> \/ UNCHANGED <<doing, code, socket, aliasVars>>
         => AliasInv'
  BY <1>9 DEF signalingVars, aliasVars
<1> QED
  BY <1>1, <1>2, <1>3, <1>4, <1>6, <1>7, <1>10, <1>11, <1>13, <1>14, <1>15, <1>16, <1>17, <1>18,
     <1>19, <1>20, <1>21, FirmwareAssumption
  DEF Next, WebsocketTask, PumpTask, Arms, Expires, Task

-----------------------------------------------------------------------------
(* The room.                                                               *)

EventType == [kind : {"joined", "left"}, device : Device]

LEMMA RoomInit == Init => RoomTypes
BY DEF Init, RoomTypes

\* The Parents present are told of in any order.
LEMMA AnnouncedAreEvents ==
  ASSUME RoomTypes, NEW s \in Announced(present)
  PROVE  s \in Seq(EventType)
<1>1. IsFiniteSet(present)
  BY FirmwareAssumption, FS_Subset DEF RoomTypes
<1>2. Cardinality(present) \in Nat
  BY <1>1, FS_CardinalityType
<1>3. s \in [1..Cardinality(present) -> EventType]
  BY DEF Announced, RoomTypes, Event, EventType
<1> QED
  BY <1>2, <1>3

LEMMA RoomStep ==
  ASSUME RoomTypes, [Next]_vars
  PROVE  RoomTypes'
<1> USE DEF RoomTypes, Event
<1>1. CASE UNCHANGED roomVars
  BY <1>1 DEF roomVars
<1>2. ASSUME NEW d \in Device, ParentJoins(d)
      PROVE  RoomTypes'
  <2>1. present' = present \cup {d} /\ inbox' \in {inbox, Append(inbox, Event("joined", d))}
    BY <1>2 DEF ParentJoins, Told
  <2>2. Append(inbox, Event("joined", d)) \in Seq([kind : {"joined", "left"}, device : Device])
    OBVIOUS
  <2> QED
    BY <2>1, <2>2
<1>3. ASSUME NEW d \in Device, NEW stops \in BOOLEAN, ParentLeaves(d, stops)
      PROVE  RoomTypes'
  <2>1. present' = present \ {d} /\ inbox' \in {inbox, Append(inbox, Event("left", d))}
    BY <1>3 DEF ParentLeaves, Told
  <2>2. Append(inbox, Event("left", d)) \in Seq([kind : {"joined", "left"}, device : Device])
    OBVIOUS
  <2> QED
    BY <2>1, <2>2
<1>4. ASSUME NEW accepted \in BOOLEAN, SocketJoins(accepted)
      PROVE  RoomTypes'
  <2>1. present' = present /\ (inbox' \in Announced(present) \/ inbox' = inbox)
    BY <1>4 DEF SocketJoins
  <2> QED
    BY <2>1, AnnouncedAreEvents DEF EventType
<1>5. CASE SocketDrops \/ SocketCloses \/ Reboot
  <2>1. present' = present /\ inbox' = << >>
    BY <1>5 DEF SocketDrops, SocketCloses, SocketGone, Reboot
  <2>2. << >> \in Seq(EventType)
    OBVIOUS
  <2> QED
    BY <2>1, <2>2 DEF EventType
<1>6. CASE PeerLeft \/ \E reads \in BOOLEAN : PeerJoined(reads)
  <2>1. present' = present /\ inbox # <<>> /\ inbox' = Tail(inbox)
    BY <1>6 DEF PeerJoined, PeerLeft, Receives
  <2> QED
    BY <2>1
<1>7. ASSUME NEW d \in Device,
             \/ ParentSupersedes(d) \/ PeerConnects(d) \/ PeerFails(d)
             \/ TeardownCloses(d) \/ TeardownFrees(d)
             \/ \E open \in BOOLEAN : InviteRequest(d, open)
      PROVE  UNCHANGED roomVars
  BY <1>7 DEF ParentSupersedes, PeerConnects, PeerFails, TeardownCloses, TeardownFrees,
              InviteRequest
<1>8. ASSUME \/ SocketConnects \/ SocketDies \/ ResendAlias \/ AllocListener
             \/ \E ok \in BOOLEAN : Start(ok) \/ Poll(ok) \/ StoreListener(ok) \/ PeerOpens(ok)
      PROVE  UNCHANGED roomVars
  BY <1>8 DEF SocketConnects, SocketDies, ResendAlias, AllocListener, Start, Poll, StoreListener,
              PeerOpens, roomVars
<1>9. ASSUME \/ Tap \/ InviteTimerFires
             \/ \E t \in Task : \/ OpenStores(t) \/ ArmCode(t) \/ ArmAlias(t)
                                \/ CloseStores(t) \/ ExpireLoads(t) \/ ExpireEnds(t)
      PROVE  UNCHANGED roomVars
  BY <1>9 DEF Tap, InviteTimerFires, OpenStores, ArmCode, ArmAlias, CloseStores, ExpireLoads,
              ExpireEnds
<1>10. CASE UNCHANGED vars
  BY <1>1, <1>10 DEF vars
<1> QED
  BY <1>1, <1>2, <1>3, <1>4, <1>5, <1>6, <1>7, <1>8, <1>9, <1>10, FirmwareAssumption
  DEF Next, WebsocketTask, PumpTask, Arms, Expires, Task

-----------------------------------------------------------------------------
(* The slots.                                                              *)

\* The websocket task alone has a slot without a peer, the one it is opening.
OneSlotIsOpening ==
  /\ doing["ws"] = "peer" => listener[sender] \in Listener /\ listener[sender].peer = "none"
  /\ \A d \in Listening : listener[d].peer = "none" => doing["ws"] = "peer" /\ sender = d

\* It is admitting somebody.
Admitting == {"store", "admit", "peer"}
SenderIsKnown == doing["ws"] \in Admitting => sender \in Device

SlotInv ==
  /\ SlotTypes
  /\ SenderIsKnown
  /\ OneSlotIsOpening
  /\ CondemnedAreSeen

LEMMA SlotInit == Init => SlotInv
<1> SUFFICES ASSUME Init PROVE SlotInv
  OBVIOUS
<1>1. Listening = {}
  BY DEF Init, Listening
<1>2. SlotTypes /\ doing["ws"] = "idle"
  BY DEF Init, SlotTypes, Task
<1> QED
  BY <1>1, <1>2 DEF SlotInv, SenderIsKnown, Admitting, OneSlotIsOpening, CondemnedAreSeen

\* What becomes of a slot that is neither taken nor freed: it keeps having a peer
\* or none, and is marked only if it has one.
SlotKept(old, new) ==
  \/ old = None /\ new = None
  \/ /\ old # None /\ new # None
     /\ new.peer = "none" <=> old.peer = "none"
     /\ new.needsTeardown => old.needsTeardown \/ old.peer # "none"

\* The websocket task is not admitting anybody, or goes on with whom it admits.
SenderKept ==
  /\ sender' = sender
  /\ doing'["ws"] = doing["ws"] \/ {doing["ws"], doing'["ws"]} \cap Admitting = {}

\* Nobody is let in or out.
Aside ==
  /\ authorized' = authorized
  /\ listener' \in [Device -> Listener \cup {None}]
  /\ \A d \in Device : SlotKept(listener[d], listener'[d])
  /\ SenderKept

LEMMA DeadSlots ==
  ASSUME SlotTypes, NEW d \in Device
  PROVE  /\ Dead(d) \in [Device -> Listener \cup {None}]
         /\ \A e \in Device : SlotKept(listener[e], Dead(d)[e])
<1>1. \A l \in Listener : [l EXCEPT !.media = "dead"] \in Listener
  BY DEF Listener
<1>2. \A l \in Listener : l # None
  BY FirmwareAssumption
<1> QED
  BY <1>1, <1>2 DEF SlotTypes, Dead, SlotKept, Listener

LEMMA SlotsStay ==
  ASSUME SlotTypes, listener' = listener
  PROVE  /\ listener' \in [Device -> Listener \cup {None}]
         /\ \A d \in Device : SlotKept(listener[d], listener'[d])
BY DEF SlotTypes, SlotKept

LEMMA OneSlotWritten ==
  ASSUME SlotTypes, NEW d \in Device, NEW slot \in Listener \cup {None},
         SlotKept(listener[d], slot), listener' = [listener EXCEPT ![d] = slot]
  PROVE  /\ listener' \in [Device -> Listener \cup {None}]
         /\ \A e \in Device : SlotKept(listener[e], listener'[e])
BY DEF SlotTypes, SlotKept

\* Another task's steps are none of the websocket task.
LEMMA AnotherTask ==
  ASSUME InviteTypes, NEW t \in Task \ {"ws"}, NEW step, Goes(t, step)
  PROVE  doing'["ws"] = doing["ws"]
BY DEF InviteTypes, Goes, Task

LEMMA HeadIsEvent ==
  ASSUME RoomTypes, inbox # << >>
  PROVE  Head(inbox).device \in Device
<1>1. inbox \in Seq(EventType)
  BY DEF RoomTypes, EventType
<1>2. Head(inbox) \in EventType
  <2> HIDE DEF EventType
  <2> QED
    BY <1>1
<1> QED
  BY <1>2 DEF EventType

LEMMA ParentsAside ==
  ASSUME SlotTypes, NEW d \in Device,
         ParentJoins(d) \/ ParentSupersedes(d) \/ \E stops \in BOOLEAN : ParentLeaves(d, stops)
  PROVE  Aside
<1>1. UNCHANGED <<authorized, sender, doing>> /\ listener' \in {listener, Dead(d)}
  BY DEF ParentJoins, ParentSupersedes, ParentLeaves, listenerVars
<1> QED
  BY <1>1, DeadSlots, SlotsStay DEF Aside, SenderKept

LEMMA SocketAside ==
  ASSUME SlotTypes, InviteTypes, NEW ok \in BOOLEAN,
         \/ SocketConnects \/ SocketJoins(ok) \/ ResendAlias
         \/ SocketDies \/ SocketDrops \/ SocketCloses \/ Start(ok) \/ Poll(ok)
  PROVE  Aside
<1>1. CASE SocketDrops \/ SocketCloses
  <2>1. /\ listener' = [d \in Device |-> IF d \in present THEN Dead(d)[d] ELSE listener[d]]
        /\ UNCHANGED <<authorized, sender, doing>>
    BY <1>1 DEF SocketDrops, SocketCloses, SocketGone
  <2>2. \A d \in Device : listener'[d] \in {Dead(d)[d], listener[d]}
    BY <2>1
  <2>3. \A d \in Device : SlotKept(listener[d], listener'[d])
    BY <2>2, DeadSlots DEF SlotKept
  <2>4. \A d \in Device : listener'[d] \in Listener \cup {None}
    BY <2>2, DeadSlots DEF SlotTypes
  <2>5. listener' \in [Device -> Listener \cup {None}]
    BY <2>1, <2>4
  <2> QED
    BY <2>1, <2>3, <2>5 DEF Aside, SenderKept
<1>2. CASE SocketConnects \/ SocketJoins(ok) \/ ResendAlias
  <2>1. /\ UNCHANGED <<listenerVars, sender>>
        /\ doing["ws"] \in {"idle", "join", "resend"}
        /\ \E step \in {"idle", "join", "resend"} : Goes("ws", step)
    BY <1>2 DEF SocketConnects, SocketJoins, ResendAlias
  <2>2. {doing["ws"], doing'["ws"]} \cap Admitting = {}
    BY <2>1 DEF Goes, InviteTypes, Task, Admitting
  <2> QED
    BY <2>1, <2>2, SlotsStay DEF Aside, SenderKept, listenerVars
<1>3. CASE SocketDies \/ Start(ok) \/ Poll(ok)
  BY <1>3, SlotsStay DEF SocketDies, Start, Poll, Aside, SenderKept, listenerVars
<1> QED
  BY <1>1, <1>2, <1>3

LEMMA InviteAside ==
  ASSUME SlotTypes, InviteTypes,
         \/ Tap \/ InviteTimerFires \/ Arms("ws") \/ Arms("main")
         \/ CloseStores("ws") \/ Expires("timer") \/ Expires("pump")
         \/ \E d \in Device, open \in BOOLEAN : InviteRequest(d, open)
  PROVE  Aside
<1>1. UNCHANGED <<listenerVars, sender>>
  BY DEF Tap, InviteTimerFires, Arms, OpenStores, ArmCode, ArmAlias, CloseStores, Expires,
         ExpireLoads, ExpireEnds, InviteRequest
<1>2. CASE Arms("ws") \/ CloseStores("ws")
  <2>1. /\ doing["ws"] \in {"open", "arm", "alias", "close"}
        /\ \E step \in {"idle", "arm", "alias"} : Goes("ws", step)
    BY <1>2 DEF Arms, OpenStores, ArmCode, ArmAlias, CloseStores
  <2>2. {doing["ws"], doing'["ws"]} \cap Admitting = {}
    BY <2>1 DEF Goes, InviteTypes, Task, Admitting
  <2> QED
    BY <1>1, <2>2, SlotsStay DEF Aside, SenderKept, listenerVars
<1>3. CASE \E d \in Device, open \in BOOLEAN : InviteRequest(d, open)
  <2>1. /\ doing["ws"] = "idle"
        /\ UNCHANGED doing \/ \E step \in {"open", "arm", "close"} : Goes("ws", step)
    BY <1>3 DEF InviteRequest, Signals, OpenLoads, CloseLoads
  <2>2. {doing["ws"], doing'["ws"]} \cap Admitting = {}
    BY <2>1 DEF Goes, InviteTypes, Task, Admitting
  <2> QED
    BY <1>1, <2>2, SlotsStay DEF Aside, SenderKept, listenerVars
<1>4. CASE Tap \/ Arms("main") \/ InviteTimerFires \/ Expires("timer") \/ Expires("pump")
  <2>1. \E t \in Task \ {"ws"}, step \in Step : Goes(t, step)
    BY <1>4 DEF Tap, OpenLoads, Arms, OpenStores, ArmCode, ArmAlias, InviteTimerFires, ExpireCode,
                Expires, ExpireLoads, CloseStores, ExpireEnds, Task, Step
  <2> QED
    BY <1>1, <2>1, AnotherTask, SlotsStay DEF Aside, SenderKept, listenerVars
<1> QED
  BY <1>2, <1>3, <1>4

LEMMA PeersAside ==
  ASSUME SlotTypes, InviteTypes, NEW d \in Device,
         PeerConnects(d) \/ PeerFails(d) \/ TeardownCloses(d)
  PROVE  Aside
<1>1. /\ listener[d] # None /\ listener[d].peer = "open"
      /\ UNCHANGED <<authorized, sender>>
  BY DEF PeerConnects, PeerFails, TeardownCloses, Pumps
<1>2. listener[d] \in Listener
  BY <1>1 DEF SlotTypes
<1>3. PICK slot \in {[listener[d] EXCEPT !.media = "connected"],
                     [listener[d] EXCEPT !.needsTeardown = TRUE],
                     [listener[d] EXCEPT !.peer = "closed"]} :
        listener' = [listener EXCEPT ![d] = slot]
  BY DEF PeerConnects, PeerFails, TeardownCloses
<1>4. slot \in Listener /\ slot # None
  <2>1. slot \in Listener
    BY <1>2, <1>3 DEF Listener
  <2> QED
    BY <2>1, FirmwareAssumption
<1>5. SlotKept(listener[d], slot)
  BY <1>1, <1>2, <1>3, <1>4 DEF Listener, SlotKept
<1>6. doing'["ws"] = doing["ws"]
  <2>1. UNCHANGED doing \/ Goes("pump", "expire")
    BY DEF PeerConnects, ExpireCode, PeerFails, TeardownCloses
  <2> QED
    BY <2>1, AnotherTask DEF Task
<1> QED
  BY <1>1, <1>3, <1>4, <1>5, <1>6, OneSlotWritten DEF Aside, SenderKept

LEMMA PeerLeftAside ==
  ASSUME RoomTypes, SlotInv, InviteTypes, PeerLeft
  PROVE  Aside
<1> DEFINE d == Head(inbox).device
           slot == IF listener[d] = None THEN None ELSE [listener[d] EXCEPT !.needsTeardown = TRUE]
<1>1. /\ inbox # << >> /\ doing["ws"] = "idle" /\ CloseLoads("ws")
      /\ UNCHANGED <<authorized, sender>> /\ listener' = [listener EXCEPT ![d] = slot]
  BY DEF PeerLeft, Receives
<1>2. d \in Device
  BY <1>1, HeadIsEvent
<1>3. d \in Listening => listener[d].peer # "none"
  BY <1>1 DEF SlotInv, OneSlotIsOpening
<1>4. {doing["ws"], doing'["ws"]} \cap Admitting = {}
  BY <1>1 DEF CloseLoads, Goes, InviteTypes, Task, Admitting
<1> HIDE DEF d
<1>5. slot \in Listener \cup {None} /\ SlotKept(listener[d], slot)
  <2>1. CASE listener[d] = None
    BY <2>1 DEF SlotKept
  <2>2. CASE listener[d] # None
    <3>1. listener[d] \in Listener /\ listener[d].peer # "none"
      BY <1>2, <1>3, <2>2 DEF SlotInv, SlotTypes, Listening
    <3>2. slot \in Listener /\ slot # None /\ slot.peer = listener[d].peer
      BY <2>2, <3>1, FirmwareAssumption DEF Listener
    <3> QED
      BY <2>2, <3>1, <3>2 DEF SlotKept
  <2> QED
    BY <2>1, <2>2
<1> HIDE DEF slot
<1> QED
  BY <1>1, <1>2, <1>4, <1>5, OneSlotWritten DEF Aside, SenderKept, SlotInv

\* A step is one of the admission of a Parent, or frees a slot, or is a reboot,
\* or lets nobody in or out.
Admission ==
  \/ \E yes \in BOOLEAN : PeerJoined(yes) \/ StoreListener(yes) \/ PeerOpens(yes)
  \/ AllocListener

LEMMA AsideOrNot ==
  ASSUME RoomTypes, SlotInv, InviteInv, [Next]_vars
  PROVE  Aside \/ Admission \/ Reboot \/ \E d \in Device : TeardownFrees(d)
<1>0. SlotTypes /\ InviteTypes
  BY DEF SlotInv, InviteInv
<1>1. CASE UNCHANGED vars
  BY <1>0, <1>1, SlotsStay DEF vars, listenerVars, Aside, SenderKept
<1>2. CASE Next
  BY <1>0, <1>2, ParentsAside, SocketAside, InviteAside, PeersAside, PeerLeftAside,
     FirmwareAssumption
  DEF Next, WebsocketTask, PumpTask, Admission
<1> QED
  BY <1>1, <1>2

\* When nobody is let in or out, the slots are as they were, but for what is
\* written in them.
LEMMA AsideSlots ==
  ASSUME SlotInv, Aside
  PROVE  SlotInv'
<1> USE DEF SlotInv, Aside
<1>1. SlotTypes'
  BY DEF SlotTypes, SenderKept
<1>2. SenderIsKnown'
  BY DEF SenderKept, SenderIsKnown, Admitting
<1>3. doing'["ws"] = "peer" <=> doing["ws"] = "peer"
  BY DEF SenderKept, Admitting
<1>4. OneSlotIsOpening'
  <2>1. ASSUME doing'["ws"] = "peer"
        PROVE  listener'[sender'] \in Listener /\ listener'[sender'].peer = "none"
    <3>1. doing["ws"] = "peer" /\ sender' = sender /\ sender \in Device
      BY <1>3, <2>1 DEF SenderKept, SenderIsKnown, Admitting
    <3>2. /\ listener[sender] \in Listener /\ listener[sender].peer = "none"
          /\ SlotKept(listener[sender], listener'[sender])
          /\ listener'[sender] \in Listener \cup {None}
      BY <3>1 DEF OneSlotIsOpening
    <3>3. listener[sender] # None
      BY <3>2, FirmwareAssumption
    <3> QED
      BY <3>1, <3>2, <3>3 DEF SlotKept
  <2>2. ASSUME NEW d \in Listening', listener'[d].peer = "none"
        PROVE  doing'["ws"] = "peer" /\ sender' = d
    <3>1. d \in Listening /\ listener[d].peer = "none"
      BY <2>2 DEF Listening, SlotKept
    <3> QED
      BY <1>3, <3>1 DEF OneSlotIsOpening, SenderKept
  <2> QED
    BY <2>1, <2>2 DEF OneSlotIsOpening
<1>5. CondemnedAreSeen'
  <2>1. ASSUME NEW d \in Listening', listener'[d].needsTeardown
        PROVE  listener'[d].peer # "none"
    <3>1. d \in Listening /\ SlotKept(listener[d], listener'[d]) /\ listener'[d] # None
      BY <2>1 DEF Listening, SlotKept
    <3>2. listener[d].needsTeardown \/ listener[d].peer # "none"
      BY <2>1, <3>1 DEF SlotKept
    <3>3. listener[d].peer # "none"
      BY <3>1, <3>2 DEF CondemnedAreSeen
    <3> QED
      BY <3>1, <3>3 DEF SlotKept
  <2> QED
    BY <2>1 DEF CondemnedAreSeen
<1> QED
  BY <1>1, <1>2, <1>4, <1>5

LEMMA FreedSlots ==
  ASSUME SlotInv, NEW d \in Device, TeardownFrees(d)
  PROVE  SlotInv'
<1>1. /\ listener[d].peer = "closed" /\ listener' = [listener EXCEPT ![d] = None]
      /\ UNCHANGED <<authorized, doing, sender>>
  BY DEF TeardownFrees
<1>2. SlotTypes' /\ SenderIsKnown'
  BY <1>1 DEF SlotInv, SlotTypes, SenderIsKnown
<1>3. \A e \in Device : e # d => listener'[e] = listener[e]
  BY <1>1 DEF SlotInv, SlotTypes
<1>4. d \notin Listening' /\ Listening' \subseteq Listening
  BY <1>1, <1>3 DEF Listening, SlotInv, SlotTypes
<1>5. OneSlotIsOpening' /\ CondemnedAreSeen'
  BY <1>1, <1>3, <1>4
  DEF SlotInv, OneSlotIsOpening, CondemnedAreSeen, SenderIsKnown, Admitting, Listening
<1> QED
  BY <1>2, <1>5 DEF SlotInv

\* Until a slot is taken, the admission leaves the slots alone.
LEMMA DecidedSlots ==
  ASSUME RoomTypes, SlotInv, InviteTypes, NEW yes \in BOOLEAN, PeerJoined(yes) \/ StoreListener(yes)
  PROVE  SlotInv'
<1>1. CASE PeerJoined(yes)
  <2>1. /\ inbox # << >> /\ UNCHANGED listenerVars /\ doing["ws"] = "idle"
        /\ \E step \in {"admit", "store", "idle"} :
             /\ Goes("ws", step)
             /\ sender' = IF step = "idle" THEN None ELSE Head(inbox).device
    BY <1>1 DEF PeerJoined, Receives
  <2>2. Head(inbox).device \in Device
    BY <2>1, HeadIsEvent
  <2>3. /\ doing'["ws"] \in {"admit", "store", "idle"}
        /\ sender' \in Device \cup {None} /\ (doing'["ws"] # "idle" => sender' \in Device)
    BY <2>1, <2>2 DEF Goes, InviteTypes, Task
  <2> QED
    BY <2>1, <2>3
    DEF SlotInv, SlotTypes, SenderIsKnown, Admitting, OneSlotIsOpening, CondemnedAreSeen,
        Listening, listenerVars
<1>2. CASE StoreListener(yes)
  <2>1. /\ doing["ws"] = "store" /\ Goes("ws", "admit") /\ UNCHANGED <<listener, sender>>
        /\ authorized' \subseteq authorized \cup {sender}
    BY <1>2 DEF StoreListener
  <2>2. doing'["ws"] = "admit" /\ sender \in Device
    BY <2>1 DEF Goes, InviteTypes, Task, SlotInv, SenderIsKnown, Admitting
  <2> QED
    BY <2>1, <2>2
    DEF SlotInv, SlotTypes, SenderIsKnown, OneSlotIsOpening, CondemnedAreSeen, Listening
<1> QED
  BY <1>1, <1>2

LEMMA AllocatedSlots ==
  ASSUME SlotInv, InviteTypes, AllocListener
  PROVE  SlotInv'
<1> DEFINE new == listener[sender] = None /\ Cardinality(Listening) < MaxListeners
<1>1. /\ doing["ws"] = "admit" /\ sender \in Device
      /\ listener' = IF new THEN [listener EXCEPT ![sender] = NewListener] ELSE listener
      /\ Goes("ws", IF new THEN "peer" ELSE "idle")
      /\ sender' = IF new THEN sender ELSE None
      /\ authorized' = authorized
  BY DEF AllocListener, SlotInv, SenderIsKnown, Admitting
<1>2. doing'["ws"] = IF new THEN "peer" ELSE "idle"
  BY <1>1 DEF Goes, InviteTypes, Task
<1>3. NewListener \in Listener /\ NewListener.peer = "none" /\ ~NewListener.needsTeardown
  BY DEF NewListener, Listener
<1>4. CASE new
  <2>1. /\ listener' = [listener EXCEPT ![sender] = NewListener] /\ sender' = sender
        /\ doing'["ws"] = "peer"
    BY <1>1, <1>2, <1>4
  <2> HIDE DEF new
  <2>2. SlotTypes' /\ SenderIsKnown'
    BY <1>1, <1>3, <2>1 DEF SlotInv, SlotTypes, SenderIsKnown
  <2>3. OneSlotIsOpening' /\ CondemnedAreSeen'
    BY <1>1, <1>3, <2>1
    DEF SlotInv, SlotTypes, OneSlotIsOpening, CondemnedAreSeen, Listening
  <2> QED
    BY <2>2, <2>3 DEF SlotInv
<1>5. CASE ~new
  <2>1. listener' = listener /\ sender' = None /\ doing'["ws"] = "idle"
    BY <1>1, <1>2, <1>5
  <2> HIDE DEF new
  <2> QED
    BY <1>1, <2>1
    DEF SlotInv, SlotTypes, SenderIsKnown, Admitting, OneSlotIsOpening, CondemnedAreSeen, Listening
<1> QED
  BY <1>4, <1>5

LEMMA OpenedSlots ==
  ASSUME SlotInv, InviteTypes, NEW ok \in BOOLEAN, PeerOpens(ok)
  PROVE  SlotInv'
<1>1. /\ doing["ws"] = "peer" /\ Goes("ws", "idle") /\ sender' = None /\ authorized' = authorized
      /\ listener' = [listener EXCEPT ![sender] = IF ok THEN [@ EXCEPT !.peer = "open"] ELSE None]
  BY DEF PeerOpens
<1>2. sender \in Device /\ listener[sender] \in Listener /\ doing'["ws"] = "idle"
  BY <1>1 DEF SlotInv, SenderIsKnown, Admitting, OneSlotIsOpening, Goes, InviteTypes, Task
<1>3. PICK slot \in Listener \cup {None} :
        /\ listener' = [listener EXCEPT ![sender] = slot]
        /\ slot # None => slot.peer = "open"
  <2>1. CASE ok
    <3>1. /\ [listener[sender] EXCEPT !.peer = "open"] \in Listener
          /\ [listener[sender] EXCEPT !.peer = "open"].peer = "open"
      BY <1>2 DEF Listener
    <3> QED
      BY <1>1, <2>1, <3>1
  <2>2. CASE ~ok
    BY <1>1, <2>2
  <2> QED
    BY <2>1, <2>2
<1>4. SlotTypes' /\ SenderIsKnown'
  BY <1>1, <1>2, <1>3 DEF SlotInv, SlotTypes, SenderIsKnown, Admitting
<1>5. \A e \in Listening' : listener'[e].peer # "none"
  BY <1>2, <1>3 DEF SlotInv, SlotTypes, OneSlotIsOpening, Listening
<1> QED
  BY <1>2, <1>4, <1>5 DEF SlotInv, OneSlotIsOpening, CondemnedAreSeen

LEMMA SlotStep ==
  ASSUME RoomTypes, SlotInv, InviteInv, [Next]_vars
  PROVE  SlotInv'
<1>1. CASE Reboot
  <2>1. Listening' = {}
    BY <1>1 DEF Reboot, Listening
  <2>2. SlotTypes' /\ doing'["ws"] = "idle"
    BY <1>1 DEF Reboot, SlotInv, SlotTypes, Task
  <2> QED
    BY <2>1, <2>2 DEF SlotInv, SenderIsKnown, Admitting, OneSlotIsOpening, CondemnedAreSeen
<1>2. InviteTypes
  BY DEF InviteInv
<1> QED
  BY <1>1, <1>2, AsideOrNot, AsideSlots, FreedSlots, DecidedSlots, AllocatedSlots, OpenedSlots
  DEF Admission

-----------------------------------------------------------------------------
(* The theorems.                                                           *)

FirmwareInv == RoomTypes /\ ClientInv /\ InviteInv /\ AliasInv /\ SlotInv

\* All parts of the invariant always hold.
THEOREM FirmwareInvariant == Spec => []FirmwareInv
<1>1. Init => FirmwareInv
  BY RoomInit, ClientInit, InviteInit, AliasInit, SlotInit DEF FirmwareInv
<1>2. ASSUME FirmwareInv, [Next]_vars
      PROVE  FirmwareInv'
  BY <1>2, RoomStep, ClientStep, InviteStep, AliasStep, SlotStep DEF FirmwareInv
<1> QED
  BY <1>1, <1>2, PTL DEF Spec

\* The state of the firmware keeps its types, whatever task takes the next step.
THEOREM FirmwareTypeOK == Spec => []TypeOK
<1>1. FirmwareInv => TypeOK
  BY TypesSplit DEF FirmwareInv, ClientInv, InviteInv, AliasInv, SlotInv
<1> QED
  BY <1>1, FirmwareInvariant, PTL

\* No slot is marked for teardown without a peer that the pump task would see.
THEOREM FirmwareCondemnedAreSeen == Spec => []CondemnedAreSeen
<1>1. FirmwareInv => CondemnedAreSeen
  BY DEF FirmwareInv, SlotInv
<1> QED
  BY <1>1, FirmwareInvariant, PTL

\* Between the loads and stores of four tasks without a lock, an open invite mode
\* has a live code or a task that is about to see to it; unless an update of the
\* count was overwritten.
THEOREM FirmwareInviteOpenHasCode == Spec => []InviteOpenHasCode
<1>1. FirmwareInv => InviteOpenHasCode
  BY DEF FirmwareInv, InviteInv
<1> QED
  BY <1>1, FirmwareInvariant, PTL

\* A live code is the registered one on every socket the relay has accepted, however
\* taps, the code's expiry and the handshake interleave.
THEOREM FirmwareLiveCodeResolves == Spec => []LiveCodeResolves
<1>1. FirmwareInv => LiveCodeResolves
  BY DEF FirmwareInv, AliasInv, Resolves, LiveCodeResolves, Settled, WebsocketSets, Task
<1> QED
  BY <1>1, FirmwareInvariant, PTL

\* A lost socket always has somebody to bring it back, once the client was started.
THEOREM FirmwareSomeoneReconnects == Spec => []SomeoneReconnects
<1>1. FirmwareInv => SomeoneReconnects
  BY DEF FirmwareInv, ClientInv, ClientTypes, OneReconnects, SomeoneReconnects
<1> QED
  BY <1>1, FirmwareInvariant, PTL

-----------------------------------------------------------------------------
(* The gate.                                                               *)

\* A step of the firmware is a step of the gate, or none.
GateStep == Gate!Next \/ UNCHANGED Gate!gateVars

LEMMA AsideIsTurn ==
  ASSUME SlotTypes, Aside
  PROVE  GateStep
<1>1. WindowOpen' \in BOOLEAN
  BY DEF WindowOpen
<1>2. Listening' = Listening /\ authorized' = authorized
  BY DEF Aside, SlotKept, Listening
<1>3. Passed' = Passed
  BY <1>2 DEF Aside, SenderKept, Admitting, Passed
<1>4. Gate!Turn
  BY <1>1, <1>2, <1>3 DEF Gate!Turn
<1> QED
  BY <1>4 DEF GateStep, Gate!Next

\* The admission is no business of who opens or expires the window.
LEMMA AdmissionKeepsWindow ==
  ASSUME InviteTypes, UNCHANGED <<code, count, lost>>, doing["ws"] \in Admitting \cup {"idle"},
         NEW step \in Admitting \cup {"idle"}, Goes("ws", step)
  PROVE  WindowOpen' = WindowOpen
<1>1. \A t \in Task \ {"ws"} : doing'[t] = doing[t]
  BY DEF InviteTypes, Goes
<1>2. doing'["ws"] = step
  BY DEF InviteTypes, Goes, Task
<1>3. TurningWindow' <=> TurningWindow
  BY <1>1, <1>2 DEF TurningWindow, Admitting, Task
<1> QED
  BY <1>3 DEF WindowOpen

\* A Parent is decided on: a stranger passes, if invite mode and with it the window
\* is open; or nothing happens.
LEMMA PeerJoinedGate ==
  ASSUME RoomTypes, SlotInv, InviteInv, NEW reads \in BOOLEAN, PeerJoined(reads)
  PROVE  GateStep
<1> DEFINE d == Head(inbox).device
<1>1. /\ inbox # << >> /\ UNCHANGED <<listenerVars, code, holderVars>> /\ doing["ws"] = "idle"
  BY DEF PeerJoined, Receives
<1>2. PICK step \in {"admit", "store", "idle"} :
        /\ Goes("ws", step) /\ sender' = IF step = "idle" THEN None ELSE d
        /\ step = "store" => count > 0
        /\ step = "admit" => d \in authorized
  BY DEF PeerJoined, InviteModeIsOpen
<1>3. d \in Device
  BY <1>1, HeadIsEvent
<1> HIDE DEF d
<1>4. WindowOpen' = WindowOpen
  BY <1>1, <1>2, AdmissionKeepsWindow DEF InviteInv, Admitting, holderVars
<1>5. doing'["ws"] = step
  BY <1>2 DEF InviteInv, InviteTypes, Goes, Task
<1>6. Listening' = Listening /\ authorized' = authorized
  BY <1>1 DEF Listening, listenerVars
<1>7. Passed = {}
  BY <1>1 DEF Passed
<1>8. CASE step = "store" /\ d \notin authorized
  <2>1. WindowOpen
    BY <1>2, <1>8 DEF InviteInv, InviteTypes, InviteOpenHasCode, WindowOpen
  <2>2. Passed' = Passed \cup {d}
    BY <1>2, <1>5, <1>6, <1>7, <1>8 DEF Passed
  <2>3. Gate!Pass(d)
    BY <1>4, <1>6, <2>1, <2>2 DEF Gate!Pass
  <2> QED
    BY <1>3, <2>3 DEF GateStep, Gate!Next
<1>9. CASE ~(step = "store" /\ d \notin authorized)
  <2>1. Passed' = {}
    BY <1>2, <1>5, <1>6, <1>9 DEF Passed
  <2> QED
    BY <1>4, <1>6, <1>7, <2>1 DEF GateStep, Gate!gateVars
<1> QED
  BY <1>8, <1>9

\* The stranger is stored, or cannot be and keeps its pass.
LEMMA StoreListenerGate ==
  ASSUME SlotInv, InviteInv, NEW ok \in BOOLEAN, StoreListener(ok)
  PROVE  GateStep
<1>1. /\ doing["ws"] = "store" /\ Goes("ws", "admit")
      /\ UNCHANGED <<listener, sender, code, count, lost>>
      /\ authorized' = IF ok THEN authorized \cup {sender} ELSE authorized
  BY DEF StoreListener, holderVars
<1>2. sender \in Device
  BY <1>1 DEF SlotInv, SenderIsKnown, Admitting
<1>3. WindowOpen' = WindowOpen
  BY <1>1, AdmissionKeepsWindow DEF InviteInv, Admitting
<1>4. doing'["ws"] = "admit"
  BY <1>1 DEF InviteInv, InviteTypes, Goes, Task
<1>5. Listening' = Listening
  BY <1>1 DEF Listening
<1>6. CASE ok /\ sender \notin authorized
  <2>1. Passed = {sender} /\ Passed' = {}
    BY <1>1, <1>4, <1>6 DEF Passed
  <2>2. Gate!LetIn(sender)
    BY <1>1, <1>3, <1>5, <1>6, <2>1 DEF Gate!LetIn
  <2> QED
    BY <1>2, <2>2 DEF GateStep, Gate!Next
<1>7. CASE ~(ok /\ sender \notin authorized)
  <2>1. authorized' = authorized
    BY <1>1, <1>7
  <2>2. Passed' = Passed
    BY <1>1, <1>4, <2>1 DEF Passed
  <2> QED
    BY <1>3, <1>5, <2>1, <2>2 DEF GateStep, Gate!gateVars
<1> QED
  BY <1>6, <1>7

\* It gets a slot, with its pass or as one let in before; or it is dropped.
LEMMA AllocListenerGate ==
  ASSUME SlotInv, InviteInv, AllocListener
  PROVE  GateStep
<1> DEFINE new == listener[sender] = None /\ Cardinality(Listening) < MaxListeners
<1>1. /\ doing["ws"] = "admit" /\ UNCHANGED <<authorized, code, count, lost>>
      /\ listener' = IF new THEN [listener EXCEPT ![sender] = NewListener] ELSE listener
      /\ Goes("ws", IF new THEN "peer" ELSE "idle")
  BY DEF AllocListener, holderVars
<1>2. sender \in Device
  BY <1>1 DEF SlotInv, SenderIsKnown, Admitting
<1>3. WindowOpen' = WindowOpen
  <2>1. PICK step \in {"peer", "idle"} : Goes("ws", step)
    BY <1>1
  <2> QED
    BY <1>1, <2>1, AdmissionKeepsWindow DEF InviteInv, Admitting
<1>4. Passed = {sender} \ authorized /\ Passed' = {}
  <2>1. doing'["ws"] \in {"peer", "idle"}
    BY <1>1 DEF InviteInv, InviteTypes, Goes, Task
  <2> QED
    BY <1>1, <2>1 DEF Passed
<1>5. CASE ~new
  <2>1. Listening' = Listening
    BY <1>1, <1>5 DEF Listening
  <2>2. Gate!GiveUp
    BY <1>1, <1>3, <1>4, <2>1 DEF Gate!GiveUp
  <2> QED
    BY <2>2 DEF GateStep, Gate!Next
<1>6. CASE new
  <2>1. Listening' = Listening \cup {sender}
    <3>1. NewListener # None
      <4>1. NewListener \in Listener
        BY DEF NewListener, Listener
      <4> QED
        BY <4>1, FirmwareAssumption
    <3>2. listener' = [listener EXCEPT ![sender] = NewListener]
      BY <1>1, <1>6
    <3> HIDE DEF new
    <3> QED
      BY <1>2, <3>1, <3>2 DEF SlotInv, SlotTypes, Listening
  <2> HIDE DEF new
  <2>2. CASE sender \in authorized
    <3>1. Gate!Serve(sender)
      BY <1>1, <1>3, <1>4, <2>1, <2>2 DEF Gate!Serve
    <3> QED
      BY <1>2, <3>1 DEF GateStep, Gate!Next
  <2>3. CASE sender \notin authorized
    <3>1. Gate!LetIn(sender)
      BY <1>1, <1>3, <1>4, <2>1, <2>3 DEF Gate!LetIn
    <3> QED
      BY <1>2, <3>1 DEF GateStep, Gate!Next
  <2> QED
    BY <2>2, <2>3
<1> QED
  BY <1>5, <1>6

\* A slot is freed; a Parent that was not stored is forgotten with it.
LEMMA FreedIsGiveUp ==
  ASSUME authorized' = authorized, Listening' \subseteq Listening, Passed' = Passed,
         WindowOpen' = WindowOpen
  PROVE  GateStep
<1>1. Gate!GiveUp
  BY DEF Gate!GiveUp
<1> QED
  BY <1>1 DEF GateStep, Gate!Next

LEMMA PeerOpensGate ==
  ASSUME SlotInv, InviteInv, NEW ok \in BOOLEAN, PeerOpens(ok)
  PROVE  GateStep
<1>1. /\ doing["ws"] = "peer" /\ Goes("ws", "idle")
      /\ UNCHANGED <<authorized, code, count, lost>>
      /\ \E slot : listener' = [listener EXCEPT ![sender] = slot]
  BY DEF PeerOpens, holderVars
<1>2. listener[sender] # None
  BY <1>1, FirmwareAssumption DEF SlotInv, OneSlotIsOpening
<1>3. Listening' \subseteq Listening
  BY <1>1, <1>2 DEF SlotInv, SlotTypes, Listening
<1>4. doing'["ws"] = "idle"
  BY <1>1 DEF InviteInv, InviteTypes, Goes, Task
<1>5. Passed' = Passed
  BY <1>1, <1>4 DEF Passed
<1>6. WindowOpen' = WindowOpen
  BY <1>1, AdmissionKeepsWindow DEF InviteInv, Admitting
<1> QED
  BY <1>1, <1>3, <1>5, <1>6, FreedIsGiveUp

LEMMA FirmwareIsGate ==
  ASSUME FirmwareInv, [Next]_vars
  PROVE  GateStep
<1>1. RoomTypes /\ SlotInv /\ InviteInv /\ SlotTypes
  BY DEF FirmwareInv, SlotInv
<1>2. CASE Reboot
  <2>1. Listening' = {} /\ Passed' = {} /\ authorized' = authorized
    BY <1>2 DEF Reboot, Listening, Passed, Task
  <2>2. WindowOpen' = FALSE
    <3>1. \A t \in Task : doing'[t] = "idle"
      BY <1>2 DEF Reboot
    <3> QED
      BY <1>2, <3>1 DEF Reboot, WindowOpen, TurningWindow, Task
  <2>3. Gate!Restart
    BY <2>1, <2>2 DEF Gate!Restart
  <2> QED
    BY <2>3 DEF GateStep, Gate!Next
<1>3. ASSUME NEW d \in Device, TeardownFrees(d)
      PROVE  GateStep
  <2>1. /\ listener' = [listener EXCEPT ![d] = None]
        /\ UNCHANGED <<authorized, doing, sender, holderVars, code>>
    BY <1>3 DEF TeardownFrees
  <2>2. Listening' \subseteq Listening
    BY <1>1, <2>1 DEF SlotTypes, Listening
  <2> QED
    BY <2>1, <2>2, FreedIsGiveUp DEF Passed, WindowOpen, TurningWindow, holderVars
<1> QED
  BY <1>1, <1>2, <1>3, AsideOrNot, AsideIsTurn, PeerJoinedGate, StoreListenerGate,
     AllocListenerGate, PeerOpensGate
  DEF Admission

\* A stranger is stored or served only if the window was open when it was decided
\* on, and nobody else is: the firmware implements InviteGate, although its other
\* tasks open and expire the window between the decision, the list and the slot.
THEOREM FirmwareImplementsGate == Spec => ImplementsGate
<1>1. Init => Gate!Init
  <2>1. ASSUME Init
        PROVE  \A t \in Task : doing[t] = "idle"
    BY <2>1 DEF Init
  <2> QED
    BY <2>1 DEF Init, Gate!Init, WindowOpen, TurningWindow, Passed, Listening, Task
<1>2. FirmwareInv /\ [Next]_vars => [Gate!Next]_(Gate!gateVars)
  BY FirmwareIsGate DEF GateStep
<1> QED
  BY <1>1, <1>2, FirmwareInvariant, PTL DEF Spec, ImplementsGate, Gate!Spec
=============================================================================
