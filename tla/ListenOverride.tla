--------------------------- MODULE ListenOverride ---------------------------
(***************************************************************************)
(* Listen: a Parent asks a phone Monitor to send audio whatever its noise  *)
(* gate says.  Both ends are modelled: MonitorSession's setGateOpen,       *)
(* setListenOverride and teardownPeer (src/webrtc/monitorSession.ts), and  *)
(* the setListening of ParentSessionsProvider (src/ParentSessionsContext   *)
(* .tsx) with the request in flight between them.  Both ends run a timer   *)
(* of LISTEN_OVERRIDE_TIMEOUT_MS; they are not synchronised, so either may *)
(* fire first.                                                             *)
(***************************************************************************)
EXTENDS Integers, Sequences

CONSTANTS
  Device,       \* deviceIds of Parents
  NoDevice,
  MaxInFlight   \* bound on the requests of one Parent in flight

ASSUME ListenAssumption == NoDevice \notin Device /\ MaxInFlight \in Nat \ {0}

VARIABLES
  peers,                \* keys of MonitorSession.peers
  streaming,            \* localStream is set
  trackEnabled,         \* its audio track's enabled flag
  sampled,              \* setGateOpen was called since start()
  gateOpen,
  listenOverrideHolder,
  listenOverrideTimer,  \* a timeout is pending and tracked
  listening,            \* managed.state.listening, per Parent
  listenTimer,          \* managed.listenTimer is pending, per Parent
  requests,             \* listenRequest signals in flight, per Parent
  foreignStop           \* history: another Parent's stop reached the holder's override

monitorVars == <<peers, streaming, trackEnabled, sampled, gateOpen, listenOverrideHolder,
                 listenOverrideTimer, foreignStop>>
parentVars  == <<listening, listenTimer, requests>>
vars == <<monitorVars, parentVars>>

Init ==
  /\ peers = {}
  /\ streaming = FALSE
  /\ trackEnabled = FALSE
  /\ sampled = FALSE
  /\ gateOpen = FALSE
  /\ listenOverrideHolder = NoDevice
  /\ listenOverrideTimer = FALSE
  /\ listening = [d \in Device |-> FALSE]
  /\ listenTimer = [d \in Device |-> FALSE]
  /\ requests = [d \in Device |-> <<>>]
  /\ foreignStop = FALSE

-----------------------------------------------------------------------------
(* The Monitor.                                                            *)

\* applyTrackEnabled, given the gate's verdict and the holder.
ApplyTrackEnabled(gate, holder) ==
  trackEnabled' = IF streaming THEN gate \/ holder # NoDevice ELSE trackEnabled

\* start(): getUserMedia returns a track that is enabled.
Start ==
  /\ ~streaming
  /\ streaming' = TRUE
  /\ trackEnabled' = TRUE
  /\ sampled' = FALSE
  /\ gateOpen' = FALSE
  /\ UNCHANGED <<peers, listenOverrideHolder, listenOverrideTimer, foreignStop, parentVars>>

\* A microphone sample goes through the noise gate.
SetGateOpen(open) ==
  /\ streaming
  /\ gateOpen' = open
  /\ sampled' = TRUE
  /\ ApplyTrackEnabled(open, listenOverrideHolder)
  /\ UNCHANGED <<peers, streaming, listenOverrideHolder, listenOverrideTimer, foreignStop,
                 parentVars>>

\* setupPeerConnection for an admitted Parent.
AddPeer(d) ==
  /\ streaming
  /\ d \notin peers
  /\ peers' = peers \cup {d}
  /\ UNCHANGED <<streaming, trackEnabled, sampled, gateOpen, listenOverrideHolder,
                 listenOverrideTimer, foreignStop, parentVars>>

\* A mutant: the override is cleared without a new track decision.
ClearListenOverride_NoApply(d) ==
  /\ listenOverrideTimer' = FALSE
  /\ listenOverrideHolder' = IF listenOverrideHolder = d THEN NoDevice ELSE listenOverrideHolder
  /\ foreignStop' = (listenOverrideHolder \notin {d, NoDevice})
  /\ UNCHANGED trackEnabled

\* setListenOverride(d, false): the timer is cleared whoever holds the
\* override, the override itself only if d holds it.
ClearListenOverride(d) ==
  /\ listenOverrideTimer' = FALSE
  /\ listenOverrideHolder' = IF listenOverrideHolder = d THEN NoDevice ELSE listenOverrideHolder
  /\ foreignStop' = (listenOverrideHolder \notin {d, NoDevice})
  /\ ApplyTrackEnabled(gateOpen, listenOverrideHolder')

\* A mutant: the override is set without its safety-net timeout.
SetListenOverride_NoTimer(d) ==
  /\ listenOverrideTimer' = FALSE
  /\ listenOverrideHolder' = d
  /\ foreignStop' = FALSE
  /\ ApplyTrackEnabled(gateOpen, d)

\* setListenOverride(d, true): the last requester holds it, on a new timeout.
SetListenOverride(d) ==
  /\ listenOverrideTimer' = TRUE
  /\ listenOverrideHolder' = d
  /\ foreignStop' = FALSE
  /\ ApplyTrackEnabled(gateOpen, d)

\* handleSignal of a listenRequest; one from a Parent without a peer is ignored.
HandleListenRequest(d) ==
  /\ requests[d] # <<>>
  /\ requests' = [requests EXCEPT ![d] = Tail(@)]
  /\ IF d \notin peers THEN UNCHANGED monitorVars
     ELSE /\ IF Head(requests[d]) THEN SetListenOverride(d) ELSE ClearListenOverride(d)
          /\ UNCHANGED <<peers, streaming, sampled, gateOpen>>
  /\ UNCHANGED <<listening, listenTimer>>

\* The Monitor's safety net.
OverrideTimeout ==
  /\ listenOverrideTimer
  /\ listenOverrideTimer' = FALSE
  /\ listenOverrideHolder' = NoDevice
  /\ foreignStop' = FALSE
  /\ ApplyTrackEnabled(gateOpen, NoDevice)
  /\ UNCHANGED <<peers, streaming, sampled, gateOpen, parentVars>>

\* A mutant: teardownPeer leaves the override to its timeout.
ReleaseOverride_Never(S) == UNCHANGED <<listenOverrideHolder, listenOverrideTimer,
                                        trackEnabled, foreignStop>>

\* teardownPeer's last part, for the devices in S.
ReleaseOverride(S) ==
  IF listenOverrideHolder \in S
  THEN ClearListenOverride(listenOverrideHolder)
  ELSE UNCHANGED <<listenOverrideHolder, listenOverrideTimer, trackEnabled, foreignStop>>

\* teardownPeer(d) for a Parent that left; what it had in flight is lost.
TeardownPeer(d) ==
  /\ d \in peers
  /\ peers' = peers \ {d}
  /\ ReleaseOverride({d})
  /\ requests' = [requests EXCEPT ![d] = <<>>]
  /\ UNCHANGED <<streaming, sampled, gateOpen, listening, listenTimer>>

\* stop(): the timer is cleared, every peer torn down, the stream released.
Stop ==
  /\ streaming
  /\ streaming' = FALSE
  /\ peers' = {}
  /\ listenOverrideTimer' = FALSE
  /\ listenOverrideHolder' = IF listenOverrideHolder \in peers
                             THEN NoDevice ELSE listenOverrideHolder
  /\ trackEnabled' = FALSE
  /\ foreignStop' = FALSE
  /\ requests' = [d \in Device |-> <<>>]
  /\ UNCHANGED <<sampled, gateOpen, listening, listenTimer>>

-----------------------------------------------------------------------------
(* The Parents.                                                            *)

\* setListenRequest: the signal is sent.
SetListenRequest(d, on) ==
  /\ Len(requests[d]) < MaxInFlight
  /\ requests' = [requests EXCEPT ![d] = Append(@, on)]

\* The listen button, or (with FALSE) the unmount of the Parent screen: the
\* request is sent, and the button's own timeout is restarted or cleared.
SetListening(d, on) ==
  /\ SetListenRequest(d, on)
  /\ listening' = [listening EXCEPT ![d] = on]
  /\ listenTimer' = [listenTimer EXCEPT ![d] = on]
  /\ UNCHANGED monitorVars

\* The button's timeout: nothing is sent.
ListenLapses(d) ==
  /\ listenTimer[d]
  /\ listenTimer' = [listenTimer EXCEPT ![d] = FALSE]
  /\ listening' = [listening EXCEPT ![d] = FALSE]
  /\ UNCHANGED <<requests, monitorVars>>

-----------------------------------------------------------------------------
Next ==
  \/ Start \/ Stop \/ OverrideTimeout
  \/ \E open \in BOOLEAN : SetGateOpen(open)
  \/ \E d \in Device : \/ AddPeer(d) \/ TeardownPeer(d) \/ HandleListenRequest(d)
                       \/ ListenLapses(d)
                       \/ \E on \in BOOLEAN : SetListening(d, on)

Spec == Init /\ [][Next]_vars

\* Timers that stay armed fire, and a request that stays in flight arrives.
FairSpec ==
  /\ Spec
  /\ WF_vars(OverrideTimeout)
  /\ \A d \in Device : WF_vars(ListenLapses(d)) /\ WF_vars(HandleListenRequest(d))

-----------------------------------------------------------------------------
(* Properties.                                                             *)

\* Types; and a Parent's button is on exactly while its timeout is pending.
TypeOK ==
  /\ peers \subseteq Device
  /\ streaming \in BOOLEAN
  /\ trackEnabled \in BOOLEAN
  /\ sampled \in BOOLEAN
  /\ gateOpen \in BOOLEAN
  /\ listenOverrideHolder \in Device \cup {NoDevice}
  /\ listenOverrideTimer \in BOOLEAN
  /\ listening \in [Device -> BOOLEAN]
  /\ listenTimer = listening
  /\ requests \in [Device -> Seq(BOOLEAN)]
  /\ foreignStop \in BOOLEAN

\* The override belongs to a Parent that has a peer connection: however a Parent
\* goes, it does not leave the microphone open behind it.
HolderIsConnected == listenOverrideHolder # NoDevice => listenOverrideHolder \in peers

\* From the first sample on, audio goes out exactly while the gate is open or an
\* override is held: no order of requests, stops, timeouts and departures leaves
\* the track in an earlier decision.
TrackFollowsDecision ==
  streaming /\ sampled => trackEnabled = (gateOpen \/ listenOverrideHolder # NoDevice)

\* The safety net is there while an override is held, and only then.
NetIffHeld ==
  /\ listenOverrideTimer => listenOverrideHolder # NoDevice
  /\ listenOverrideHolder # NoDevice /\ ~foreignStop => listenOverrideTimer

\* A held override ends or is taken over, even if its Parent never sends a stop,
\* as long as no other Parent's stop cleared its timeout.
OverrideEndsUnlessForeignStop ==
  \A d \in Device : listenOverrideHolder = d ~> (listenOverrideHolder # d \/ foreignStop)

\* The design's safety net: "a dropped connection, killed app, or missed stop
\* signal never leaves the gate stuck open".
OverrideEnds ==
  \A d \in Device : listenOverrideHolder = d ~> listenOverrideHolder # d
=============================================================================
