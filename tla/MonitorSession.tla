--------------------------- MODULE MonitorSession ---------------------------
(***************************************************************************)
(* The phone acting as Monitor: src/webrtc/monitorSession.ts with the      *)
(* InviteMode and decideListener of src/domain/inviteMode.ts.  It admits   *)
(* Parents, holds one peer connection per admitted Parent, and runs the    *)
(* invite window: a pairing code, its timeout, and the set of holders that *)
(* keep it open for strangers.  The Listen override of the same class is   *)
(* in ListenOverride.                                                      *)
(*                                                                         *)
(* JavaScript runs each callback to its next await, so a step here is one  *)
(* such stretch.  handlePeerJoined awaits the store and then the offer;    *)
(* every call of it in flight is a Task, and anything else may run between *)
(* its steps.                                                              *)
(*                                                                         *)
(* The relay, the WebSocket and the peer connection are environment: their *)
(* events may come whenever the state of the link or of the peer allows.   *)
(* send() on a WebSocket that is CONNECTING throws; on a closed one it is  *)
(* lost.  An exception no caller catches ends the app: Crash.              *)
(***************************************************************************)
EXTENDS Integers, FiniteSets

CONSTANTS
  Device,    \* deviceIds of Parents
  Local,     \* the holder id 'local': the Monitor's own pairing screen
  Code,      \* pairing codes; a fresh one is never one with a timeout pending
  Task,      \* handlePeerJoined calls that may be in flight at once
  NoCode, NoDevice

ASSUME MonitorAssumption ==
  /\ Local \notin Device
  /\ NoCode \notin Code
  /\ NoDevice \notin Device

VARIABLES
  link,                 \* the signalling socket: see Signaling
  everJoined,           \* SignalingClient.hasConnectedOnce
  firstTryFailed,       \* history: the initial connect failed and was retried
  present,              \* Parents the relay announced on this connection
  currentCode,
  inviteTimer,          \* the timeout inviteTimer refers to, named by its code
  inviteTimeouts,       \* the invite timeouts pending, named by their codes
  holders,              \* InviteMode.holders
  remoteHolders,
  localShouldShowCode,
  displayed,            \* the code on the Monitor's own screen
  shownTo,              \* the inviteCode each Parent last received
  aliased,              \* the relay resolves currentCode to this room
  peers,                \* the peer connection of each Parent
  joins,                \* handlePeerJoined calls in flight
  authorized            \* the store's authorized listeners

linkVars   == <<link, everJoined, firstTryFailed, present>>
inviteVars == <<currentCode, inviteTimer, inviteTimeouts, holders, remoteHolders,
                localShouldShowCode, displayed, shownTo, aliased>>
peerVars   == <<peers, joins>>
vars == <<linkVars, inviteVars, peerVars, authorized>>

\* The link is a SignalingClient's.  "down": sends are lost.  "connecting":
\* send() throws.  "stopped": after stop().
Signaling == INSTANCE SignalingLink

\* Where a handlePeerJoined call is: before the store's read, after it with
\* its answer, writing the authorization, or making an offer on the peer
\* connection it set up ("closedOffer" once that connection was closed).
Stage == {"asking", "known", "unknown", "storing", "offering", "closedOffer"}

Idle == [device |-> NoDevice, at |-> "idle"]
Joining(d, stage) == [device |-> d, at |-> stage]

Fresh ==
  /\ link = "connecting"
  /\ everJoined = FALSE
  /\ firstTryFailed = FALSE
  /\ present = {}
  /\ currentCode = NoCode
  /\ inviteTimer = NoCode
  /\ inviteTimeouts = {}
  /\ holders = {}
  /\ remoteHolders = {}
  /\ localShouldShowCode = FALSE
  /\ displayed = NoCode
  /\ shownTo = [d \in Device |-> NoCode]
  /\ aliased = FALSE
  /\ peers = [d \in Device |-> "none"]
  /\ joins = [t \in Task |-> Idle]

Init == Fresh /\ authorized = {}

-----------------------------------------------------------------------------
(* The invite window.                                                      *)

\* setAlias: lost unless the relay has this client's join.
SetAlias == aliased' = (link = "joined")

\* sendSignal({ inviteCode }) to the Parents in S.
Send(S, code) ==
  [d \in Device |-> IF d \in S /\ d \in present /\ link = "joined" THEN code ELSE shownTo[d]]

\* broadcastInviteCode: to the own screen if it should show it or must hide
\* it, and to every remote holder.
BroadcastInviteCode(code, show, remotes) ==
  /\ displayed' = IF code = NoCode \/ show THEN code ELSE displayed
  /\ shownTo' = Send(remotes, code)

\* A mutant: the timeout is only started when none is tracked.
RestartInviteTimer_KeepOld(code) ==
  IF inviteTimer # NoCode
  THEN UNCHANGED <<inviteTimer, inviteTimeouts>>
  ELSE inviteTimer' = code /\ inviteTimeouts' = inviteTimeouts \cup {code}

RestartInviteTimer(code) ==
  /\ inviteTimer' = code
  /\ inviteTimeouts' = (inviteTimeouts \ {inviteTimer}) \cup {code}

\* armInvite, with show the new localShouldShowCode: a fresh code, its alias,
\* the broadcast, and a fresh timeout in place of the tracked one.
ArmInvite(show) ==
  \E code \in Code \ (inviteTimeouts \cup {currentCode}) :
    /\ currentCode' = code
    /\ SetAlias
    /\ localShouldShowCode' = show
    /\ BroadcastInviteCode(code, show, remoteHolders')
    /\ RestartInviteTimer(code)

\* The Monitor's own screen asks for a code.
RearmInvite ==
  /\ link \in {"down", "joined"}
  /\ holders' = holders \cup {Local}
  /\ remoteHolders' = remoteHolders
  /\ ArmInvite(TRUE)
  /\ UNCHANGED <<linkVars, peerVars, authorized>>

\* The code, its timeout and every other hold stay.
CloseLocalInvite == holders' = holders \ {Local}

\* A mutant: only the Monitor's own hold is closed, as closeLocalInvite does.
RemainingHolders_LocalOnly == holders \ {Local}

\* The holds that survive an expiry: those of neither 'local' nor remoteHolders.
RemainingHolders == holders \ ({Local} \cup remoteHolders)

\* A mutant: an expiry is not broadcast.
BroadcastExpiry_Never == UNCHANGED <<displayed, shownTo>>

\* The broadcast at the end of expireInvite, when remoteHolders is empty.
BroadcastExpiry == BroadcastInviteCode(NoCode, FALSE, {})

\* expireInvite.  inviteTimer is forgotten, not cleared.
ExpireInvite ==
  /\ inviteTimer' = NoCode
  /\ currentCode' = NoCode
  /\ aliased' = FALSE
  /\ localShouldShowCode' = FALSE
  /\ holders' = RemainingHolders
  /\ remoteHolders' = {}
  /\ BroadcastExpiry

\* The timeout armed with a code fires.
InviteTimeout(code) ==
  /\ code \in inviteTimeouts
  /\ inviteTimeouts' = inviteTimeouts \ {code}
  /\ ExpireInvite
  /\ UNCHANGED <<linkVars, peerVars, authorized>>

\* An admitted Parent opens invite mode: ensureInviteArmed.  A live code is
\* shared, otherwise one is armed that the Monitor's own screen does not show.
InviteModeOpen(d) ==
  /\ link = "joined" /\ d \in present
  /\ peers[d] # "none"
  /\ remoteHolders' = remoteHolders \cup {d}
  /\ holders' = holders \cup {d}
  /\ IF currentCode = NoCode
     THEN ArmInvite(FALSE)
     ELSE /\ shownTo' = Send({d}, currentCode)
          /\ UNCHANGED <<currentCode, inviteTimer, inviteTimeouts, localShouldShowCode,
                         displayed, aliased>>
  /\ UNCHANGED <<linkVars, peerVars, authorized>>

CloseRemoteInvite(d) ==
  /\ remoteHolders' = remoteHolders \ {d}
  /\ holders' = holders \ {d}

\* The Parent's setInviteMode(false): its screen forgets the code.
ForgetCode(d) == shownTo' = [shownTo EXCEPT ![d] = NoCode]

\* It closes invite mode, having closed its own invite screen.
InviteModeClose(d) ==
  /\ link = "joined" /\ d \in present
  /\ peers[d] # "none"
  /\ CloseRemoteInvite(d)
  /\ ForgetCode(d)
  /\ UNCHANGED <<linkVars, currentCode, inviteTimer, inviteTimeouts, localShouldShowCode,
                 displayed, aliased, peerVars, authorized>>

-----------------------------------------------------------------------------
(* Admitting Parents.                                                      *)

\* teardownPeer for the devices in S, by task t if one called it: the peer
\* connection is closed under every offer in progress on it.
TeardownPeers(S, t) ==
  /\ peers' = [d \in Device |-> IF d \in S THEN "none" ELSE peers[d]]
  /\ joins' = [u \in Task |->
                 IF u = t THEN Idle
                 ELSE IF joins[u].device \in S /\ joins[u].at = "offering"
                 THEN Joining(joins[u].device, "closedOffer")
                 ELSE joins[u]]

\* onPeerJoined: handlePeerJoined starts and asks the store.
PeerJoined(d) ==
  \E t \in Task :
    /\ link = "joined" /\ d \notin present
    /\ joins[t] = Idle
    /\ present' = present \cup {d}
    /\ joins' = [joins EXCEPT ![t] = Joining(d, "asking")]
    /\ UNCHANGED <<link, everJoined, firstTryFailed, inviteVars, peers, authorized>>

IsListenerAuthorized(d) == d \in authorized

\* authorizeListener: remembered for good; once is enough.
AuthorizeListener(d) == authorized' = authorized \cup {d}

\* The store reads isListenerAuthorized; its answer is used a step later.
StoreAnswers(t) ==
  LET d == joins[t].device
  IN  /\ joins[t].at = "asking"
      /\ joins' = [joins EXCEPT ![t] =
                     Joining(d, IF IsListenerAuthorized(d) THEN "known" ELSE "unknown")]
      /\ UNCHANGED <<linkVars, inviteVars, peers, authorized>>

\* The call t ends in an exception, and the caller's catch tears the peer down.
Fail(t) ==
  /\ TeardownPeers({joins[t].device}, t)
  /\ UNCHANGED <<linkVars, inviteVars>>

\* setupPeerConnection and the start of the offer; an existing peer is reused.
StartOffer(t) ==
  LET d == joins[t].device
  IN  /\ link # "connecting"
      /\ peers' = [peers EXCEPT ![d] = IF @ = "none" THEN "pending" ELSE @]
      /\ joins' = [joins EXCEPT ![t] = Joining(d, "offering")]
      /\ UNCHANGED <<linkVars, inviteVars>>

\* 'accept-known'.
AcceptKnown(t) ==
  /\ joins[t].at = "known"
  /\ StartOffer(t) \/ (link = "connecting" /\ Fail(t))
  /\ UNCHANGED authorized

\* 'reject': the Parent is told; the send throws while reconnecting.
Reject(t) ==
  /\ joins[t].at = "unknown"
  /\ holders = {}
  /\ IF link = "connecting"
     THEN Fail(t)
     ELSE /\ joins' = [joins EXCEPT ![t] = Idle]
          /\ UNCHANGED <<linkVars, inviteVars, peers>>
  /\ UNCHANGED authorized

\* A mutant: a stranger is let in before the authorization is stored.
AcceptNew_BeforeStored(t) ==
  /\ joins[t].at = "unknown"
  /\ holders # {}
  /\ StartOffer(t)
  /\ UNCHANGED authorized

\* 'accept-new': invite mode is open now, whatever it was when d joined.
AcceptNew(t) ==
  /\ joins[t].at = "unknown"
  /\ holders # {}
  /\ joins' = [joins EXCEPT ![t].at = "storing"]
  /\ UNCHANGED <<linkVars, inviteVars, peers, authorized>>

\* authorizeListener resolved: d is remembered and gets its offer.
Stored(t) ==
  /\ joins[t].at = "storing"
  /\ AuthorizeListener(joins[t].device)
  /\ StartOffer(t) \/ (link = "connecting" /\ Fail(t))

\* The store rejected a read or the write.
StoreFails(t) ==
  /\ joins[t].at \in {"asking", "storing"}
  /\ Fail(t)
  /\ UNCHANGED authorized

\* createOffer and setLocalDescription resolved, and the offer is sent.
OfferSent(t) ==
  /\ joins[t].at \in {"offering", "closedOffer"}
  /\ link # "connecting"
  /\ joins' = [joins EXCEPT ![t] = Idle]
  /\ UNCHANGED <<linkVars, inviteVars, peers, authorized>>

\* They rejected, as on a closed peer connection, or the send threw.
OfferFails(t) ==
  /\ joins[t].at = "closedOffer" \/ (joins[t].at = "offering" /\ link = "connecting")
  /\ Fail(t)
  /\ UNCHANGED authorized

\* onPeerLeft.
PeerLeft(d) ==
  /\ link = "joined" /\ d \in present
  /\ present' = present \ {d}
  /\ TeardownPeers({d}, NoDevice)
  /\ CloseRemoteInvite(d)
  /\ ForgetCode(d)
  /\ UNCHANGED <<link, everJoined, firstTryFailed, currentCode, inviteTimer, inviteTimeouts,
                 localShouldShowCode, displayed, aliased, authorized>>

\* countConnected, of these peer connections.
Connected(connections) == {d \in Device : connections[d] = "connected"}

\* onconnectionstatechange: any change of d's connection, "pending" standing
\* for every state but connected.  Once anybody is connected the window closes.
ConnectionStateChange(d, state) ==
  /\ peers[d] # "none"
  /\ peers' = [peers EXCEPT ![d] = state]
  /\ IF currentCode # NoCode /\ Connected(peers') # {}
     THEN ExpireInvite /\ UNCHANGED inviteTimeouts
     ELSE UNCHANGED inviteVars
  /\ UNCHANGED <<linkVars, joins, authorized>>

-----------------------------------------------------------------------------
(* The link to the relay, and the life of the session.                     *)

\* The connection is lost or an attempt fails; a relay that restarts forgets
\* its aliases.
LinkDown ==
  /\ Signaling!Lose
  /\ present' = {}
  /\ aliased' \in {aliased, FALSE}
  /\ UNCHANGED <<currentCode, inviteTimer, inviteTimeouts, holders, remoteHolders,
                 localShouldShowCode, displayed, shownTo, peerVars, authorized>>

Retry ==
  /\ Signaling!Retry
  /\ UNCHANGED <<present, inviteVars, peerVars, authorized>>

\* A mutant: onReconnected does not re-register the live code.
Reregistered_Never == aliased

\* onReconnected, which fires only if this client had joined before.
Reregistered == aliased \/ (everJoined /\ currentCode # NoCode)

\* The relay acknowledges the join; it announces the Parents present after it.
Rejoined ==
  /\ Signaling!Acknowledge
  /\ aliased' = Reregistered
  /\ UNCHANGED <<present, currentCode, inviteTimer, inviteTimeouts, holders,
                 remoteHolders, localShouldShowCode, displayed, shownTo, peerVars, authorized>>

\* stop(): the tracked timeout is cleared, the peers closed, the socket closed.
Stop ==
  /\ link # "stopped"
  /\ Signaling!Close
  /\ present' = {}
  /\ inviteTimer' = NoCode
  /\ inviteTimeouts' = inviteTimeouts \ {inviteTimer}
  /\ TeardownPeers(Device, NoDevice)

\* The Monitor screen goes: its hold is closed and the session stopped.
Unmount ==
  /\ CloseLocalInvite
  /\ Stop
  /\ UNCHANGED <<currentCode, remoteHolders, localShouldShowCode, displayed, shownTo,
                 aliased, authorized>>

\* The Monitor screen is mounted again, perhaps after the app was killed: a new
\* session object, which starts at once.
Crash ==
  /\ Signaling!Restart
  /\ present' = {}
  /\ currentCode' = NoCode /\ inviteTimer' = NoCode /\ inviteTimeouts' = {}
  /\ holders' = {} /\ remoteHolders' = {}
  /\ localShouldShowCode' = FALSE /\ displayed' = NoCode /\ aliased' = FALSE
  /\ shownTo' = [d \in Device |-> NoCode]
  /\ peers' = [d \in Device |-> "none"]
  /\ joins' = [t \in Task |-> Idle]
  /\ UNCHANGED authorized

-----------------------------------------------------------------------------
HandlePeerJoined(t) ==
  \/ StoreAnswers(t) \/ AcceptKnown(t) \/ Reject(t) \/ AcceptNew(t)
  \/ Stored(t) \/ StoreFails(t) \/ OfferSent(t) \/ OfferFails(t)

FromParent(d) ==
  \/ PeerJoined(d) \/ PeerLeft(d) \/ InviteModeOpen(d) \/ InviteModeClose(d)
  \/ \E state \in {"pending", "connected"} : ConnectionStateChange(d, state)

Next ==
  \/ RearmInvite
  \/ \E code \in Code : InviteTimeout(code)
  \/ \E d \in Device : FromParent(d)
  \/ \E t \in Task : HandlePeerJoined(t)
  \/ LinkDown \/ Retry \/ Rejoined \/ Unmount \/ Crash

Spec == Init /\ [][Next]_vars

-----------------------------------------------------------------------------
(* Properties.                                                             *)

\* Types; and inviteTimer refers to a timeout that is pending, or to none.
TypeOK ==
  /\ link \in Signaling!Link
  /\ everJoined \in BOOLEAN
  /\ firstTryFailed \in BOOLEAN
  /\ present \subseteq Device
  /\ currentCode \in Code \cup {NoCode}
  /\ inviteTimer \in inviteTimeouts \cup {NoCode}
  /\ inviteTimeouts \subseteq Code
  /\ holders \subseteq Device \cup {Local}
  /\ remoteHolders \subseteq Device
  /\ localShouldShowCode \in BOOLEAN
  /\ displayed \in Code \cup {NoCode}
  /\ shownTo \in [Device -> Code \cup {NoCode}]
  /\ aliased \in BOOLEAN
  /\ peers \in [Device -> {"none", "pending", "connected"}]
  /\ joins \in [Task -> {Idle} \cup [device : Device, at : Stage]]
  /\ authorized \subseteq Device

\* Strangers are let in only while a code is live: every hold on invite mode is
\* one that the expiry of the code will close (inviteMode.ts, expireInvite).
InviteOpenHasCode ==
  /\ holders \ {Local} = remoteHolders
  /\ holders # {} => currentCode # NoCode

\* A live code is always on a timeout of its own, so no sequence of re-arms,
\* connects and expiries leaves a code, and with it invite mode, open for ever.
LiveCodeHasTimeout ==
  currentCode # NoCode /\ link # "stopped" =>
    inviteTimer = currentCode /\ currentCode \in inviteTimeouts

\* Whoever has a peer connection is an authorized listener of the store, also
\* across a crash between the two.
PeersAreAuthorized == \A d \in Device : peers[d] # "none" => d \in authorized

\* The Monitor's own screen shows the live code or none.
ScreenShowsLiveCode == displayed \in {NoCode, currentCode}

\* While joined, the code that is live resolves to this room at the relay,
\* whatever drops, relay restarts and re-arms came before
\* (monitorSession.ts, onReconnected).
LiveCodeResolves == link = "joined" /\ currentCode # NoCode => aliased

\* The same, for a session whose initial connect succeeded.
LiveCodeResolvesAfterStart == ~firstTryFailed => LiveCodeResolves

\* The Parents whose authorization is being stored.
BeingStored == {d \in Device : \E t \in Task : joins[t] = Joining(d, "storing")}

Served == {d \in Device : peers[d] # "none"}

Gate == INSTANCE InviteGate
  WITH window <- currentCode # NoCode, passed <- BeingStored, members <- authorized,
       served <- Served

\* A stranger is let in only if a code was live when it was decided on, and
\* nobody else is served, whatever happens during the awaits of handlePeerJoined
\* (monitorSession.ts, handlePeerJoined; inviteMode.ts, decideListener).
ImplementsGate == Gate!Spec
=============================================================================
