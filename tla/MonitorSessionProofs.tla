------------------------ MODULE MonitorSessionProofs ------------------------
(***************************************************************************)
(* Invariants of MonitorSession for any sets of Parents, codes and calls   *)
(* in flight.  The invite window and the admission of Parents do not read  *)
(* each other's variables in what they promise, so each has an inductive   *)
(* invariant of its own: InviteInv and AdmissionInv.                       *)
(***************************************************************************)
EXTENDS MonitorSession, TLAPS

-----------------------------------------------------------------------------
(* The invite window.                                                      *)

InviteTypes ==
  /\ currentCode \in Code \cup {NoCode}
  /\ inviteTimeouts \subseteq Code
  /\ inviteTimer \in inviteTimeouts \cup {NoCode}
  /\ holders \subseteq Device \cup {Local}
  /\ remoteHolders \subseteq Device
  /\ localShouldShowCode \in BOOLEAN
  /\ displayed \in Code \cup {NoCode}
  /\ shownTo \in [Device -> Code \cup {NoCode}]
  /\ aliased \in BOOLEAN

InviteInv ==
  /\ InviteTypes
  /\ InviteOpenHasCode
  /\ LiveCodeHasTimeout
  /\ ScreenShowsLiveCode

USE DEF InviteTypes, InviteInv

\* What is sent to Parents is the code or nothing.
LEMMA SendType ==
  ASSUME InviteTypes, NEW S \in SUBSET Device, NEW code \in Code \cup {NoCode}
  PROVE  Send(S, code) \in [Device -> Code \cup {NoCode}]
BY DEF Send

\* A fresh code starts a window: whoever holds invite mode holds it under a
\* live code on its own timeout.  A code the own screen must not show is only
\* armed when that screen shows none.
LEMMA ArmInviteKeeps ==
  ASSUME InviteInv, NEW show \in BOOLEAN, ArmInvite(show),
         remoteHolders' \subseteq Device, Local \notin Device,
         holders' \subseteq Device \cup {Local},
         holders' \ {Local} = remoteHolders',
         show \/ currentCode = NoCode
  PROVE  InviteInv'
<1>1. PICK code \in Code \ (inviteTimeouts \cup {currentCode}) :
        /\ currentCode' = code
        /\ aliased' = (link = "joined")
        /\ localShouldShowCode' = show
        /\ BroadcastInviteCode(code, show, remoteHolders')
        /\ RestartInviteTimer(code)
  BY DEF ArmInvite, SetAlias
<1>2. code # NoCode
  BY <1>1, MonitorAssumption
<1>3. shownTo' \in [Device -> Code \cup {NoCode}]
  BY <1>1, SendType DEF BroadcastInviteCode
<1>4. inviteTimer' = code /\ inviteTimeouts' \subseteq Code /\ code \in inviteTimeouts'
  BY <1>1 DEF RestartInviteTimer
<1>5. displayed' \in {NoCode, code}
  BY <1>1, <1>2 DEF BroadcastInviteCode, ScreenShowsLiveCode
<1>6. InviteTypes'
  BY <1>1, <1>3, <1>4, <1>5
<1> QED
  BY <1>1, <1>2, <1>4, <1>5, <1>6
  DEF InviteOpenHasCode, LiveCodeHasTimeout, ScreenShowsLiveCode

\* An expiry closes every hold, because the remote holders are all there are
\* besides the Monitor's own.
LEMMA ExpireInviteKeeps ==
  ASSUME InviteInv, ExpireInvite, Local \notin Device,
         inviteTimeouts' \subseteq inviteTimeouts
  PROVE  InviteInv'
<1>1. RemainingHolders = {}
  BY DEF RemainingHolders, InviteOpenHasCode
<1>2. displayed' = NoCode
  BY DEF ExpireInvite, BroadcastExpiry, BroadcastInviteCode
<1>3. shownTo' \in [Device -> Code \cup {NoCode}]
  BY SendType DEF ExpireInvite, BroadcastExpiry, BroadcastInviteCode
<1>4. /\ inviteTimer' = NoCode /\ currentCode' = NoCode /\ aliased' = FALSE
      /\ localShouldShowCode' = FALSE /\ holders' = {} /\ remoteHolders' = {}
  BY <1>1 DEF ExpireInvite
<1> QED
  BY <1>2, <1>3, <1>4 DEF InviteOpenHasCode, LiveCodeHasTimeout, ScreenShowsLiveCode

\* A hold that ends does not open another.
LEMMA CloseRemoteInviteKeeps ==
  ASSUME InviteInv, NEW d \in Device, CloseRemoteInvite(d), Local \notin Device,
         shownTo' = [shownTo EXCEPT ![d] = NoCode], link' = link,
         UNCHANGED <<currentCode, inviteTimer, inviteTimeouts, localShouldShowCode, displayed,
                     aliased>>
  PROVE  InviteInv'
<1>1. holders' \ {Local} = remoteHolders' /\ holders' \subseteq holders
  BY DEF CloseRemoteInvite, InviteOpenHasCode
<1>2. shownTo' \in [Device -> Code \cup {NoCode}]
  OBVIOUS
<1>3. InviteTypes'
  BY <1>1, <1>2 DEF CloseRemoteInvite
<1> QED
  BY <1>1, <1>3 DEF InviteOpenHasCode, LiveCodeHasTimeout, ScreenShowsLiveCode

\* Steps of the link and of admissions leave the window as it is, and do not
\* revive a stopped session.
LEMMA WindowUntouched ==
  ASSUME InviteInv, aliased' \in BOOLEAN, link' = "stopped" \/ link # "stopped",
         UNCHANGED <<currentCode, inviteTimer, inviteTimeouts, holders, remoteHolders,
                     localShouldShowCode, displayed, shownTo>>
  PROVE  InviteInv'
<1>1. InviteTypes'
  OBVIOUS
<1> QED
  BY <1>1 DEF InviteOpenHasCode, LiveCodeHasTimeout, ScreenShowsLiveCode

LEMMA InviteInit == Init => InviteInv
BY DEF Init, Fresh, InviteOpenHasCode, LiveCodeHasTimeout, ScreenShowsLiveCode

LEMMA InviteStep ==
  ASSUME InviteInv, [Next]_vars
  PROVE  InviteInv'
<1> USE MonitorAssumption
<1>1. CASE RearmInvite
  <2>1. holders' \ {Local} = remoteHolders' /\ holders' \subseteq Device \cup {Local}
    BY <1>1 DEF RearmInvite, InviteOpenHasCode
  <2> QED
    BY <1>1, <2>1, ArmInviteKeeps DEF RearmInvite
<1>2. CASE Unmount
  <2>1. /\ holders' \ {Local} = remoteHolders' /\ holders' \subseteq holders
        /\ inviteTimer' = NoCode /\ inviteTimeouts' \subseteq inviteTimeouts /\ link' = "stopped"
        /\ UNCHANGED <<currentCode, remoteHolders, localShouldShowCode, displayed, shownTo, aliased>>
    BY <1>2 DEF Unmount, CloseLocalInvite, Stop, Signaling!Close, InviteOpenHasCode
  <2>2. InviteTypes'
    BY <2>1
  <2> QED
    BY <2>1, <2>2 DEF InviteOpenHasCode, LiveCodeHasTimeout, ScreenShowsLiveCode
<1>3. ASSUME NEW code \in Code, InviteTimeout(code)
      PROVE  InviteInv'
  BY <1>3, ExpireInviteKeeps DEF InviteTimeout
<1>4. ASSUME NEW d \in Device, InviteModeOpen(d)
      PROVE  InviteInv'
  <2>1. /\ remoteHolders' \subseteq Device /\ holders' \subseteq Device \cup {Local}
        /\ holders' \ {Local} = remoteHolders'
    BY <1>4 DEF InviteModeOpen, InviteOpenHasCode
  <2>2. CASE currentCode = NoCode
    BY <1>4, <2>1, <2>2, ArmInviteKeeps DEF InviteModeOpen
  <2>3. CASE currentCode # NoCode
    <3>1. shownTo' \in [Device -> Code \cup {NoCode}]
      BY <1>4, <2>3, SendType DEF InviteModeOpen
    <3>2. UNCHANGED <<currentCode, inviteTimer, inviteTimeouts, localShouldShowCode, displayed,
                      aliased, link>>
      BY <1>4, <2>3 DEF InviteModeOpen, linkVars
    <3>3. InviteTypes'
      BY <2>1, <3>1, <3>2
    <3> QED
      BY <2>1, <2>3, <3>2, <3>3 DEF InviteOpenHasCode, LiveCodeHasTimeout, ScreenShowsLiveCode
  <2> QED
    BY <2>2, <2>3
<1>5. ASSUME NEW d \in Device, InviteModeClose(d) \/ PeerLeft(d)
      PROVE  InviteInv'
  BY <1>5, CloseRemoteInviteKeeps DEF InviteModeClose, PeerLeft, ForgetCode, linkVars
<1>6. ASSUME NEW d \in Device, NEW state \in {"pending", "connected"},
             ConnectionStateChange(d, state)
      PROVE  InviteInv'
  <2>1. CASE ExpireInvite /\ UNCHANGED inviteTimeouts
    BY <2>1, ExpireInviteKeeps
  <2>2. CASE UNCHANGED inviteVars
    BY <1>6, <2>2, WindowUntouched DEF ConnectionStateChange, inviteVars, linkVars
  <2> QED
    BY <1>6, <2>1, <2>2 DEF ConnectionStateChange
<1>7. CASE \/ \E d \in Device : PeerJoined(d)
           \/ \E t \in Task : HandlePeerJoined(t)
  <2>1. UNCHANGED <<link, inviteVars>>
    BY <1>7 DEF PeerJoined, HandlePeerJoined, StoreAnswers, AcceptKnown, Reject, AcceptNew,
                Stored, StoreFails, OfferSent, OfferFails, StartOffer, Fail, linkVars
  <2> QED
    BY <2>1, WindowUntouched DEF inviteVars
<1>8. CASE LinkDown \/ Retry \/ Rejoined
  <2>1. link # "stopped" /\ aliased' \in BOOLEAN
    BY <1>8 DEF LinkDown, Retry, Rejoined, Reregistered, inviteVars, Signaling!Lose,
                Signaling!Retry, Signaling!Acknowledge
  <2>2. UNCHANGED <<currentCode, inviteTimer, inviteTimeouts, holders, remoteHolders,
                    localShouldShowCode, displayed, shownTo>>
    BY <1>8 DEF LinkDown, Retry, Rejoined, inviteVars
  <2> QED
    BY <2>1, <2>2, WindowUntouched
<1>9. CASE Crash
  BY <1>9 DEF Crash, InviteOpenHasCode, LiveCodeHasTimeout, ScreenShowsLiveCode
<1>10. CASE UNCHANGED vars
  BY <1>10, WindowUntouched DEF vars, inviteVars, linkVars
<1> QED
  BY <1>1, <1>2, <1>3, <1>4, <1>5, <1>6, <1>7, <1>8, <1>9, <1>10 DEF Next, FromParent

LEMMA WindowInvariant == Spec => []InviteInv
<1>1. Init => InviteInv
  BY InviteInit
<1>2. InviteInv /\ [Next]_vars => InviteInv'
  BY InviteStep
<1> QED
  BY <1>1, <1>2, PTL DEF Spec

\* Nobody new is let in without a live code: every hold on invite mode is one
\* that the expiry of the code closes, for any number of Parents.
THEOREM MonitorInviteOpenHasCode == Spec => []InviteOpenHasCode
<1>1. InviteInv => InviteOpenHasCode
  OBVIOUS
<1> QED
  BY <1>1, WindowInvariant, PTL

\* A live code of a running session is always on its own pending timeout.
THEOREM MonitorLiveCodeHasTimeout == Spec => []LiveCodeHasTimeout
<1>1. InviteInv => LiveCodeHasTimeout
  OBVIOUS
<1> QED
  BY <1>1, WindowInvariant, PTL

\* The Monitor's own screen shows the live code or none.
THEOREM MonitorScreenShowsLiveCode == Spec => []ScreenShowsLiveCode
<1>1. InviteInv => ScreenShowsLiveCode
  OBVIOUS
<1> QED
  BY <1>1, WindowInvariant, PTL

-----------------------------------------------------------------------------
(* Admission.                                                              *)

Call == {Idle} \cup [device : Device, at : Stage]

AdmissionTypes ==
  /\ link \in Signaling!Link
  /\ everJoined \in BOOLEAN
  /\ firstTryFailed \in BOOLEAN
  /\ present \subseteq Device
  /\ peers \in [Device -> {"none", "pending", "connected"}]
  /\ joins \in [Task -> Call]
  /\ authorized \subseteq Device

\* What the store answered stays true while the call waits to act on it.
KnownAreAuthorized ==
  \A t \in Task : joins[t].at = "known" => joins[t].device \in authorized

AdmissionInv ==
  /\ AdmissionTypes
  /\ PeersAreAuthorized
  /\ KnownAreAuthorized

USE DEF AdmissionTypes, AdmissionInv

\* A call that is under way is about a Parent.
LEMMA CallsHaveDevices ==
  ASSUME AdmissionTypes, NEW t \in Task, joins[t].at \in Stage
  PROVE  joins[t].device \in Device
BY DEF Call, Idle, Stage

LEMMA JoiningIsCall ==
  ASSUME NEW d \in Device, NEW stage \in Stage
  PROVE  Joining(d, stage) \in Call /\ Joining(d, stage).at = stage
                                   /\ Joining(d, stage).device = d
BY DEF Joining, Call

\* Tearing peers down keeps every other peer, and no call learns anything.
LEMMA TeardownKeeps ==
  ASSUME AdmissionInv, NEW S, NEW t, TeardownPeers(S, t),
         link' \in Signaling!Link, everJoined' \in BOOLEAN, firstTryFailed' \in BOOLEAN,
         present' \subseteq Device, authorized' \subseteq Device,
         authorized \subseteq authorized'
  PROVE  AdmissionInv'
<1>1. peers' \in [Device -> {"none", "pending", "connected"}]
  BY DEF TeardownPeers
<1>2. PeersAreAuthorized'
  BY DEF TeardownPeers, PeersAreAuthorized
<1>3. ASSUME NEW u \in Task
      PROVE  /\ joins'[u] \in Call
             /\ joins'[u].at = "known" => joins[u].at = "known" /\ joins'[u] = joins[u]
  <2>1. CASE u = t
    BY <2>1 DEF TeardownPeers, Call, Idle
  <2>2. CASE u # t /\ joins[u].device \in S /\ joins[u].at = "offering"
    <3>1. joins'[u] = Joining(joins[u].device, "closedOffer")
      BY <2>2 DEF TeardownPeers
    <3>2. joins[u].device \in Device /\ "closedOffer" \in Stage
      BY <2>2, CallsHaveDevices DEF Stage
    <3> QED
      BY <3>1, <3>2, JoiningIsCall
  <2>3. CASE u # t /\ ~(joins[u].device \in S /\ joins[u].at = "offering")
    BY <2>3 DEF TeardownPeers
  <2> QED
    BY <2>1, <2>2, <2>3
<1>4. joins' \in [Task -> Call]
  BY <1>3 DEF TeardownPeers
<1>5. KnownAreAuthorized'
  BY <1>3 DEF KnownAreAuthorized
<1> QED
  BY <1>1, <1>2, <1>4, <1>5

\* A call that moves on to another stage, with its Parent known if it says so.
LEMMA CallKeeps ==
  ASSUME AdmissionInv, NEW t \in Task, NEW call \in Call,
         joins' = [joins EXCEPT ![t] = call],
         call.at = "known" => call.device \in authorized,
         peers' = peers, authorized' = authorized,
         link' = link, everJoined' = everJoined, firstTryFailed' = firstTryFailed,
         present' \subseteq Device
  PROVE  AdmissionInv'
<1>1. AdmissionTypes'
  OBVIOUS
<1>2. KnownAreAuthorized'
  BY DEF KnownAreAuthorized
<1> QED
  BY <1>1, <1>2 DEF PeersAreAuthorized

\* An offer is started for an authorized Parent.
LEMMA StartOfferKeeps ==
  ASSUME AdmissionInv, NEW t \in Task, joins[t].at \in Stage, StartOffer(t),
         authorized' \subseteq Device, authorized \subseteq authorized',
         joins[t].device \in authorized'
  PROVE  AdmissionInv'
<1> DEFINE d == joins[t].device
<1>1. d \in Device
  BY CallsHaveDevices
<1>2. /\ peers' = [peers EXCEPT ![d] = IF @ = "none" THEN "pending" ELSE @]
      /\ joins' = [joins EXCEPT ![t] = Joining(d, "offering")]
      /\ UNCHANGED linkVars
  BY DEF StartOffer
<1>3. Joining(d, "offering") \in Call /\ Joining(d, "offering").at = "offering"
  BY <1>1, JoiningIsCall DEF Stage
<1>4. AdmissionTypes'
  BY <1>1, <1>2, <1>3 DEF linkVars
<1>5. PeersAreAuthorized'
  BY <1>1, <1>2 DEF PeersAreAuthorized
<1>6. KnownAreAuthorized'
  BY <1>2, <1>3 DEF KnownAreAuthorized
<1> QED
  BY <1>4, <1>5, <1>6

LEMMA FailKeeps ==
  ASSUME AdmissionInv, NEW t \in Task, Fail(t),
         authorized' \subseteq Device, authorized \subseteq authorized'
  PROVE  AdmissionInv'
BY TeardownKeeps DEF Fail, linkVars

LEMMA AdmissionInit == Init => AdmissionInv
<1> SUFFICES ASSUME Init PROVE AdmissionInv
  OBVIOUS
<1>1. \A t \in Task : joins[t] = Idle /\ joins[t].at = "idle"
  BY DEF Init, Fresh, Idle
<1> QED
  BY <1>1 DEF Init, Fresh, Call, Signaling!Link, PeersAreAuthorized, KnownAreAuthorized

LEMMA HandlePeerJoinedKeeps ==
  ASSUME AdmissionInv, NEW t \in Task, HandlePeerJoined(t)
  PROVE  AdmissionInv'
<1>1. CASE StoreAnswers(t)
  <2> DEFINE d == joins[t].device
             stage == IF d \in authorized THEN "known" ELSE "unknown"
  <2>1. d \in Device /\ stage \in Stage
    BY <1>1, CallsHaveDevices DEF StoreAnswers, Stage
  <2> USE DEF IsListenerAuthorized
  <2>2. Joining(d, stage) \in Call /\ Joining(d, stage).device = d /\ Joining(d, stage).at = stage
    BY <2>1, JoiningIsCall
  <2> QED
    BY <1>1, <2>2, CallKeeps DEF StoreAnswers, linkVars
<1>2. CASE AcceptKnown(t)
  <2>1. joins[t].at \in Stage /\ joins[t].device \in authorized /\ authorized' = authorized
    BY <1>2 DEF AcceptKnown, Stage, KnownAreAuthorized
  <2> QED
    BY <1>2, <2>1, StartOfferKeeps, FailKeeps DEF AcceptKnown
<1>3. CASE Reject(t)
  <2>1. Idle \in Call /\ Idle.at = "idle"
    BY DEF Call, Idle
  <2> QED
    BY <1>3, <2>1, CallKeeps, FailKeeps DEF Reject, linkVars
<1>4. CASE AcceptNew(t)
  <2>1. joins[t].device \in Device /\ joins[t] \in [device : Device, at : Stage]
    BY <1>4, CallsHaveDevices DEF AcceptNew, Stage, Call, Idle
  <2>2. joins' = [joins EXCEPT ![t] = [joins[t] EXCEPT !.at = "storing"]]
    BY <1>4 DEF AcceptNew
  <2>3. [joins[t] EXCEPT !.at = "storing"] \in Call
    BY <2>1 DEF Call, Stage
  <2>4. [joins[t] EXCEPT !.at = "storing"].at = "storing"
    BY <2>1
  <2> QED
    BY <1>4, <2>2, <2>3, <2>4, CallKeeps DEF AcceptNew, linkVars
<1>5. CASE Stored(t)
  <2>1. joins[t].at \in Stage /\ joins[t].device \in Device
    BY <1>5, CallsHaveDevices DEF Stored, Stage
  <2> QED
    BY <1>5, <2>1, StartOfferKeeps, FailKeeps DEF Stored, AuthorizeListener
<1>6. CASE StoreFails(t)
  BY <1>6, FailKeeps DEF StoreFails
<1>7. CASE OfferSent(t)
  <2>1. Idle \in Call /\ Idle.at = "idle"
    BY DEF Call, Idle
  <2> QED
    BY <1>7, <2>1, CallKeeps DEF OfferSent, linkVars
<1>8. CASE OfferFails(t)
  BY <1>8, FailKeeps DEF OfferFails
<1> QED
  BY <1>1, <1>2, <1>3, <1>4, <1>5, <1>6, <1>7, <1>8 DEF HandlePeerJoined

LEMMA AdmissionStep ==
  ASSUME AdmissionInv, [Next]_vars
  PROVE  AdmissionInv'
<1>1. CASE \/ RearmInvite \/ UNCHANGED vars
           \/ \E code \in Code : InviteTimeout(code)
           \/ \E d \in Device : InviteModeOpen(d) \/ InviteModeClose(d)
  <2>1. UNCHANGED <<linkVars, peerVars, authorized>>
    BY <1>1 DEF RearmInvite, InviteTimeout, InviteModeOpen, InviteModeClose, vars
  <2> QED
    BY <2>1 DEF linkVars, peerVars, PeersAreAuthorized, KnownAreAuthorized
<1>2. ASSUME NEW d \in Device, PeerJoined(d)
      PROVE  AdmissionInv'
  <2>1. Joining(d, "asking") \in Call /\ Joining(d, "asking").at = "asking"
    BY JoiningIsCall DEF Stage
  <2> QED
    BY <1>2, <2>1, CallKeeps DEF PeerJoined
<1>3. ASSUME NEW d \in Device, PeerLeft(d)
      PROVE  AdmissionInv'
  BY <1>3, TeardownKeeps DEF PeerLeft
<1>4. ASSUME NEW d \in Device, NEW state \in {"pending", "connected"},
             ConnectionStateChange(d, state)
      PROVE  AdmissionInv'
  BY <1>4 DEF ConnectionStateChange, linkVars, PeersAreAuthorized, KnownAreAuthorized
<1>5. ASSUME NEW t \in Task, HandlePeerJoined(t)
      PROVE  AdmissionInv'
  BY <1>5, HandlePeerJoinedKeeps
<1>6. CASE LinkDown \/ Retry \/ Rejoined
  BY <1>6 DEF LinkDown, Retry, Rejoined, peerVars, Signaling!Lose, Signaling!Retry,
              Signaling!Acknowledge, Signaling!Link, PeersAreAuthorized, KnownAreAuthorized
<1>7. CASE Unmount
  BY <1>7, TeardownKeeps DEF Unmount, Stop, Signaling!Close, Signaling!Link
<1>8. CASE Crash
  <2>1. \A t \in Task : joins'[t] = Idle /\ Idle.at = "idle"
    BY <1>8 DEF Crash, Idle
  <2> QED
    BY <1>8, <2>1 DEF Crash, Call, Signaling!Restart, Signaling!Link, PeersAreAuthorized,
                      KnownAreAuthorized
<1> QED
  BY <1>1, <1>2, <1>3, <1>4, <1>5, <1>6, <1>7, <1>8 DEF Next, FromParent

LEMMA AdmissionInvariant == Spec => []AdmissionInv
<1>1. Init => AdmissionInv
  BY AdmissionInit
<1>2. AdmissionInv /\ [Next]_vars => AdmissionInv'
  BY AdmissionStep
<1> QED
  BY <1>1, <1>2, PTL DEF Spec

\* Whoever has a peer connection is an authorized listener of the store, through
\* every interleaving of joins, departures, failures and crashes.
THEOREM MonitorPeersAreAuthorized == Spec => []PeersAreAuthorized
<1>1. AdmissionInv => PeersAreAuthorized
  OBVIOUS
<1> QED
  BY <1>1, AdmissionInvariant, PTL

\* Types, and inviteTimer refers to a pending timeout or to none.
THEOREM MonitorTypeOK == Spec => []TypeOK
<1>1. InviteInv /\ AdmissionInv => TypeOK
  BY DEF TypeOK, Call
<1> QED
  BY <1>1, WindowInvariant, AdmissionInvariant, PTL

-----------------------------------------------------------------------------
(* The code at the relay.                                                  *)

\* A session that never joined, and whose first attempt is still under way,
\* has not armed a code: so the first join has nothing to register.
AliasInv ==
  /\ AdmissionInv
  /\ LiveCodeResolvesAfterStart
  /\ ~firstTryFailed /\ ~everJoined /\ link # "stopped" =>
       link = "connecting" /\ currentCode = NoCode

LEMMA AliasStep ==
  ASSUME AliasInv, [Next]_vars
  PROVE  AliasInv'
<1> USE DEF AliasInv, LiveCodeResolvesAfterStart, LiveCodeResolves
<1>0. AdmissionInv'
  BY AdmissionStep
<1> DEFINE Registered == LiveCodeResolvesAfterStart'
                         /\ (~firstTryFailed /\ ~everJoined /\ link # "stopped" =>
                               link = "connecting" /\ currentCode = NoCode)'
<1> SUFFICES Registered
  BY <1>0
<1>1. ASSUME UNCHANGED <<link, everJoined, firstTryFailed, currentCode, aliased>>
      PROVE  Registered
  BY <1>1
<1>2. ASSUME UNCHANGED <<link, everJoined, firstTryFailed>>, currentCode' = NoCode
      PROVE  Registered
  BY <1>2
<1>3. ASSUME UNCHANGED <<link, everJoined, firstTryFailed>>, NEW show \in BOOLEAN,
             ArmInvite(show), link \in {"down", "joined"}
      PROVE  Registered
  BY <1>3 DEF ArmInvite, SetAlias
<1>4. CASE RearmInvite
  BY <1>3, <1>4 DEF RearmInvite, linkVars
<1>5. CASE Unmount
  BY <1>5 DEF Unmount, Stop, Signaling!Close
<1>6. ASSUME NEW code \in Code, InviteTimeout(code) PROVE Registered
  BY <1>2, <1>6 DEF InviteTimeout, ExpireInvite, linkVars
<1>7. ASSUME NEW d \in Device, InviteModeOpen(d) PROVE Registered
  BY <1>1, <1>3, <1>7 DEF InviteModeOpen, linkVars
<1>8. ASSUME NEW d \in Device, InviteModeClose(d) \/ PeerLeft(d) \/ PeerJoined(d)
      PROVE  Registered
  BY <1>1, <1>8 DEF InviteModeClose, PeerLeft, PeerJoined, linkVars, inviteVars
<1>9. ASSUME NEW d \in Device, NEW state \in {"pending", "connected"},
             ConnectionStateChange(d, state)
      PROVE  Registered
  BY <1>1, <1>2, <1>9 DEF ConnectionStateChange, ExpireInvite, linkVars, inviteVars
<1>10. ASSUME NEW t \in Task, HandlePeerJoined(t) PROVE Registered
  <2>1. UNCHANGED <<link, everJoined, firstTryFailed, currentCode, aliased>>
    BY <1>10 DEF HandlePeerJoined, StoreAnswers, AcceptKnown, Reject, AcceptNew, Stored,
                 StoreFails, OfferSent, OfferFails, StartOffer, Fail, linkVars, inviteVars
  <2> QED BY <1>1, <2>1
<1>11. CASE LinkDown
  BY <1>11 DEF LinkDown, Signaling!Lose
<1>12. CASE Retry
  BY <1>12 DEF Retry, Signaling!Retry, inviteVars
<1>13. CASE Rejoined
  BY <1>13 DEF Rejoined, Reregistered, Signaling!Acknowledge
<1>14. CASE Crash
  BY <1>14 DEF Crash, Signaling!Restart
<1>15. CASE UNCHANGED vars
  BY <1>1, <1>15 DEF vars, linkVars, inviteVars
<1> HIDE DEF Registered
<1> QED
  BY <1>4, <1>5, <1>6, <1>7, <1>8, <1>9, <1>10, <1>11, <1>12, <1>13, <1>14, <1>15
     DEF Next, FromParent

\* While a session whose first connect succeeded is joined, its live code
\* resolves at the relay, for onReconnected registers it again.
THEOREM MonitorLiveCodeResolves == Spec => []LiveCodeResolvesAfterStart
<1>1. Init => AliasInv
  BY AdmissionInit DEF Init, Fresh, AliasInv, LiveCodeResolvesAfterStart, LiveCodeResolves
<1>2. AliasInv /\ [Next]_vars => AliasInv'
  BY AliasStep
<1>3. AliasInv => LiveCodeResolvesAfterStart
  BY DEF AliasInv
<1> QED
  BY <1>1, <1>2, <1>3, PTL DEF Spec

-----------------------------------------------------------------------------
(* The gate.                                                               *)

\* A step of the session is a step of the gate, or none.
GateStep == Gate!Next \/ UNCHANGED Gate!gateVars

\* Steps that let nobody in or out, whatever they do to the window.
LEMMA WindowTurns ==
  ASSUME BeingStored' = BeingStored, Served' = Served, authorized' = authorized
  PROVE  GateStep
<1>1. Gate!Turn
  BY DEF Gate!Turn
<1> QED
  BY <1>1 DEF GateStep, Gate!Next

\* A call that moves on without storing or having stored.
LEMMA MovesOn ==
  ASSUME AdmissionInv, NEW t \in Task, NEW call \in Call, joins' = [joins EXCEPT ![t] = call],
         joins[t].at # "storing", call.at # "storing"
  PROVE  BeingStored' = BeingStored
<1>1. \A d \in Device : Joining(d, "storing").at = "storing"
  BY DEF Joining
<1>2. \A u \in Task : joins'[u] = IF u = t THEN call ELSE joins[u]
  OBVIOUS
<1>3. ASSUME NEW d \in Device
      PROVE  (\E u \in Task : joins'[u] = Joining(d, "storing"))
               <=> (\E u \in Task : joins[u] = Joining(d, "storing"))
  BY <1>1, <1>2
<1> QED
  BY <1>3 DEF BeingStored

\* Tearing peers down serves nobody new, and no call comes to store.
LEMMA TeardownGivesUp ==
  ASSUME AdmissionInv, NEW S, NEW t, TeardownPeers(S, t)
  PROVE  /\ BeingStored' \subseteq BeingStored /\ Served' \subseteq Served
         /\ \A d \in S : d \notin Served'
         /\ Served \ S \subseteq Served'
<1>1. \A d \in Device : peers'[d] = IF d \in S THEN "none" ELSE peers[d]
  BY DEF TeardownPeers
<1>2. ASSUME NEW d \in Device, NEW u \in Task, joins'[u] = Joining(d, "storing")
      PROVE  joins[u] = Joining(d, "storing")
  <2>1. \A e : Joining(d, "storing") # Joining(e, "closedOffer") /\ Joining(d, "storing") # Idle
    BY DEF Joining, Idle
  <2> QED
    BY <1>2, <2>1 DEF TeardownPeers
<1>3. BeingStored' \subseteq BeingStored
  BY <1>2 DEF BeingStored
<1> QED
  BY <1>1, <1>3 DEF Served

LEMMA TeardownIsGiveUp ==
  ASSUME AdmissionInv, NEW S, NEW t, TeardownPeers(S, t), currentCode' = currentCode,
         authorized' = authorized
  PROVE  GateStep
<1>1. Served \subseteq authorized
  BY DEF Served, PeersAreAuthorized
<1>2. BeingStored' \subseteq BeingStored /\ Served' \subseteq Served
  BY TeardownGivesUp
<1>3. Gate!GiveUp
  BY <1>1, <1>2 DEF Gate!GiveUp
<1> QED
  BY <1>3 DEF GateStep, Gate!Next

\* StartOffer serves the Parent of its call, and nobody else anew.
LEMMA OfferServes ==
  ASSUME AdmissionInv, NEW t \in Task, joins[t].at \in Stage, StartOffer(t)
  PROVE  /\ joins[t].device \in Device /\ currentCode' = currentCode
         /\ Served' = Served \cup {joins[t].device}
         /\ BeingStored' \subseteq BeingStored
         /\ joins[t].at # "storing" => BeingStored' = BeingStored
<1> DEFINE d == joins[t].device
<1>1. d \in Device
  BY CallsHaveDevices
<1>2. /\ peers' = [peers EXCEPT ![d] = IF @ = "none" THEN "pending" ELSE @]
      /\ joins' = [joins EXCEPT ![t] = Joining(d, "offering")]
      /\ currentCode' = currentCode
  BY DEF StartOffer, inviteVars
<1>3. Joining(d, "offering") \in Call /\ Joining(d, "offering").at = "offering"
  BY <1>1, JoiningIsCall DEF Stage
<1>4. \A e \in Device : peers'[e] # "none" <=> e = d \/ peers[e] # "none"
  BY <1>1, <1>2
<1>5. Served' = Served \cup {d}
  BY <1>1, <1>4 DEF Served
<1>6. joins[t].at # "storing" => BeingStored' = BeingStored
  BY <1>2, <1>3, MovesOn
<1>7. \A e \in Device, u \in Task : joins'[u] = Joining(e, "storing") =>
        joins[u] = Joining(e, "storing")
  <2>1. \A e \in Device : Joining(e, "storing").at = "storing"
    BY DEF Joining
  <2> QED
    BY <1>2, <1>3, <2>1
<1>8. BeingStored' \subseteq BeingStored
  BY <1>7 DEF BeingStored
<1> QED
  BY <1>1, <1>2, <1>5, <1>6, <1>8

\* A call of handlePeerJoined admits through the gate, at every one of its steps.
LEMMA HandlePeerJoinedGate ==
  ASSUME InviteInv, AdmissionInv, NEW t \in Task, HandlePeerJoined(t)
  PROVE  GateStep
<1>0. Idle \in Call /\ Idle.at = "idle"
  BY DEF Call, Idle
<1>1. CASE StoreAnswers(t)
  <2> DEFINE d == joins[t].device
             stage == IF IsListenerAuthorized(d) THEN "known" ELSE "unknown"
  <2>1. d \in Device /\ stage \in Stage /\ stage # "storing"
    BY <1>1, CallsHaveDevices DEF StoreAnswers, Stage
  <2>2. joins' = [joins EXCEPT ![t] = Joining(d, stage)] /\ joins[t].at = "asking"
    BY <1>1 DEF StoreAnswers
  <2>3. Joining(d, stage) \in Call /\ Joining(d, stage).at = stage
    BY <2>1, JoiningIsCall
  <2>4. BeingStored' = BeingStored
    BY <2>1, <2>2, <2>3, MovesOn
  <2> QED
    BY <1>1, <2>4, WindowTurns DEF StoreAnswers, Served
<1>2. CASE AcceptKnown(t)
  <2>1. joins[t].at = "known" /\ joins[t].at \in Stage /\ joins[t].device \in authorized
        /\ authorized' = authorized
    BY <1>2 DEF AcceptKnown, Stage, KnownAreAuthorized
  <2>2. CASE StartOffer(t)
    <3>1. Gate!Serve(joins[t].device) /\ joins[t].device \in Device
      BY <2>1, <2>2, OfferServes DEF Gate!Serve
    <3> QED
      BY <3>1 DEF GateStep, Gate!Next
  <2>3. CASE Fail(t)
    BY <2>1, <2>3, TeardownIsGiveUp DEF Fail, inviteVars
  <2> QED
    BY <1>2, <2>2, <2>3 DEF AcceptKnown
<1>3. CASE Reject(t)
  <2>1. CASE link = "connecting"
    BY <1>3, <2>1, TeardownIsGiveUp DEF Reject, Fail, inviteVars
  <2>2. CASE link # "connecting"
    <3>1. joins' = [joins EXCEPT ![t] = Idle] /\ joins[t].at = "unknown" /\ peers' = peers
          /\ authorized' = authorized
      BY <1>3, <2>2 DEF Reject
    <3>2. BeingStored' = BeingStored
      BY <1>0, <3>1, MovesOn
    <3> QED
      BY <3>1, <3>2, WindowTurns DEF Served
  <2> QED
    BY <2>1, <2>2
<1>4. CASE AcceptNew(t)
  <2> DEFINE d == joins[t].device
  <2>1. d \in Device /\ joins[t] \in [device : Device, at : Stage]
    BY <1>4, CallsHaveDevices DEF AcceptNew, Stage, Call, Idle
  <2>2. /\ joins' = [joins EXCEPT ![t] = [joins[t] EXCEPT !.at = "storing"]]
        /\ joins[t].at = "unknown" /\ peers' = peers /\ authorized' = authorized
        /\ currentCode' = currentCode
    BY <1>4 DEF AcceptNew, inviteVars
  <2>3. [joins[t] EXCEPT !.at = "storing"] = Joining(d, "storing")
    BY <2>1 DEF Joining
  <2>4. ASSUME NEW e \in Device
        PROVE  (\E u \in Task : joins'[u] = Joining(e, "storing"))
                 <=> e = d \/ \E u \in Task : joins[u] = Joining(e, "storing")
    <3>1. \A c \in Device : Joining(c, "storing").at = "storing" /\ Joining(c, "storing").device = c
      BY DEF Joining
    <3>2. \A u \in Task : joins'[u] = IF u = t THEN Joining(d, "storing") ELSE joins[u]
      BY <2>2, <2>3
    <3> QED
      BY <2>1, <2>2, <3>1, <3>2
  <2>5. BeingStored' = BeingStored \cup {d}
    BY <2>1, <2>4 DEF BeingStored
  <2>6. currentCode # NoCode
    BY <1>4 DEF AcceptNew, InviteOpenHasCode
  <2>7. Gate!Pass(d)
    BY <2>2, <2>5, <2>6 DEF Gate!Pass, Served
  <2> QED
    BY <2>1, <2>7 DEF GateStep, Gate!Next
<1>5. CASE Stored(t)
  <2> DEFINE d == joins[t].device
  <2>1. /\ joins[t].at = "storing" /\ joins[t].at \in Stage
        /\ d \in Device /\ joins[t] \in [device : Device, at : Stage]
    BY <1>5, CallsHaveDevices DEF Stored, Stage, Call, Idle
  <2>2. joins[t] = Joining(d, "storing")
    BY <2>1 DEF Joining
  <2>3. d \in BeingStored
    BY <2>1, <2>2 DEF BeingStored
  <2>4. authorized' = authorized \cup {d}
    BY <1>5 DEF Stored, AuthorizeListener
  <2>5. CASE StartOffer(t)
    <3>1. BeingStored' \subseteq BeingStored /\ Served' = Served \cup {d} /\ currentCode' = currentCode
      BY <2>1, <2>5, OfferServes
    <3>2. Gate!LetIn(d)
      BY <2>3, <2>4, <3>1 DEF Gate!LetIn
    <3> QED
      BY <2>1, <3>2 DEF GateStep, Gate!Next
  <2>6. CASE Fail(t)
    <3>1. currentCode' = currentCode /\ TeardownPeers({d}, t)
      BY <2>6 DEF Fail, inviteVars
    <3>2. BeingStored' \subseteq BeingStored /\ Served' = Served \ {d}
      BY <3>1, TeardownGivesUp
    <3>3. Gate!LetIn(d)
      BY <2>3, <2>4, <3>1, <3>2 DEF Gate!LetIn
    <3> QED
      BY <2>1, <3>3 DEF GateStep, Gate!Next
  <2> QED
    BY <1>5, <2>5, <2>6 DEF Stored
<1>6. CASE StoreFails(t) \/ OfferFails(t)
  BY <1>6, TeardownIsGiveUp DEF StoreFails, OfferFails, Fail, inviteVars
<1>7. CASE OfferSent(t)
  <2>1. /\ joins' = [joins EXCEPT ![t] = Idle] /\ joins[t].at # "storing"
        /\ peers' = peers /\ authorized' = authorized
    BY <1>7 DEF OfferSent
  <2>2. BeingStored' = BeingStored
    BY <1>0, <2>1, MovesOn
  <2> QED
    BY <2>1, <2>2, WindowTurns DEF Served
<1> QED
  BY <1>1, <1>2, <1>3, <1>4, <1>5, <1>6, <1>7 DEF HandlePeerJoined

LEMMA SessionIsGate ==
  ASSUME InviteInv, AdmissionInv, [Next]_vars
  PROVE  GateStep
<1>1. CASE \/ RearmInvite \/ LinkDown \/ Retry \/ Rejoined \/ UNCHANGED vars
           \/ \E code \in Code : InviteTimeout(code)
           \/ \E d \in Device : InviteModeOpen(d) \/ InviteModeClose(d)
  <2>1. UNCHANGED <<peers, joins, authorized>>
    BY <1>1 DEF RearmInvite, LinkDown, Retry, Rejoined, InviteTimeout, InviteModeOpen,
                InviteModeClose, vars, peerVars
  <2> QED
    BY <2>1, WindowTurns DEF BeingStored, Served
<1>2. ASSUME NEW d \in Device, PeerJoined(d)
      PROVE  GateStep
  <2>1. PICK t \in Task : joins[t] = Idle /\ joins' = [joins EXCEPT ![t] = Joining(d, "asking")]
    BY <1>2 DEF PeerJoined
  <2>2. /\ Joining(d, "asking") \in Call /\ Joining(d, "asking").at = "asking"
        /\ Idle.at = "idle"
    BY JoiningIsCall DEF Stage, Idle
  <2>3. BeingStored' = BeingStored
    BY <2>1, <2>2, MovesOn
  <2> QED
    BY <1>2, <2>3, WindowTurns DEF PeerJoined, Served
<1>3. ASSUME NEW d \in Device, PeerLeft(d)
      PROVE  GateStep
  BY <1>3, TeardownIsGiveUp DEF PeerLeft
<1>4. ASSUME NEW d \in Device, NEW state \in {"pending", "connected"},
             ConnectionStateChange(d, state)
      PROVE  GateStep
  <2>1. /\ peers[d] # "none" /\ peers' = [peers EXCEPT ![d] = state]
        /\ joins' = joins /\ authorized' = authorized
    BY <1>4 DEF ConnectionStateChange
  <2>2. \A e \in Device : peers'[e] # "none" <=> peers[e] # "none"
    BY <2>1
  <2> QED
    BY <2>1, <2>2, WindowTurns DEF BeingStored, Served
<1>5. ASSUME NEW t \in Task, HandlePeerJoined(t)
      PROVE  GateStep
  BY <1>5, HandlePeerJoinedGate
<1>6. CASE Unmount
  BY <1>6, TeardownIsGiveUp DEF Unmount, Stop
<1>7. CASE Crash
  <2>1. \A d \in Device : Joining(d, "storing") # Idle
    BY DEF Joining, Idle
  <2>2. BeingStored' = {} /\ Served' = {}
    BY <1>7, <2>1 DEF Crash, BeingStored, Served
  <2>3. Gate!Restart
    BY <1>7, <2>2 DEF Crash, Gate!Restart
  <2> QED
    BY <2>3 DEF GateStep, Gate!Next
<1> QED
  BY <1>1, <1>2, <1>3, <1>4, <1>5, <1>6, <1>7 DEF Next, FromParent

\* A stranger is let in only if a code was live when it was decided on, and
\* nobody else is served: the session implements InviteGate, for any number of
\* Parents, codes and calls in flight.
THEOREM MonitorImplementsGate == Spec => ImplementsGate
<1>1. Init => Gate!Init
  <2> SUFFICES ASSUME Init PROVE Gate!Init
    OBVIOUS
  <2>1. \A d \in Device : Joining(d, "storing") # Idle
    BY DEF Joining, Idle
  <2>2. BeingStored = {} /\ Served = {}
    BY <2>1 DEF Init, Fresh, BeingStored, Served
  <2> QED
    BY <2>2 DEF Init, Fresh, Gate!Init
<1>2. InviteInv /\ AdmissionInv /\ [Next]_vars => [Gate!Next]_(Gate!gateVars)
  BY SessionIsGate DEF GateStep
<1> QED
  BY <1>1, <1>2, WindowInvariant, AdmissionInvariant, PTL DEF Spec, ImplementsGate, Gate!Spec
=============================================================================
