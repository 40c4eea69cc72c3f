------------------------ MODULE ListenOverrideProofs ------------------------
(***************************************************************************)
(* Invariants of ListenOverride for any set of Parents and any number of   *)
(* requests in flight.                                                     *)
(***************************************************************************)
EXTENDS ListenOverride, SequenceTheorems, TLAPS

\* A stopped session holds nothing, which is what makes its next start clean.
StoppedIsEmpty == ~streaming => peers = {} /\ ~listenOverrideTimer

OverrideInv ==
  /\ TypeOK
  /\ HolderIsConnected
  /\ TrackFollowsDecision
  /\ NetIffHeld
  /\ StoppedIsEmpty

USE DEF OverrideInv

\* The override changes hands, or ends, together with the track and the timeout;
\* the four ways the code does it have this in common.
OverrideSet(holder, timer, foreign) ==
  /\ listenOverrideHolder' = holder
  /\ listenOverrideTimer' = timer
  /\ foreignStop' = foreign
  /\ ApplyTrackEnabled(gateOpen, holder)

LEMMA OverrideSetKeeps ==
  ASSUME OverrideInv, NEW holder \in Device \cup {NoDevice}, NEW timer \in BOOLEAN,
         NEW foreign \in BOOLEAN, OverrideSet(holder, timer, foreign),
         peers' \subseteq Device, streaming' = streaming, sampled' = sampled,
         gateOpen' = gateOpen,
         holder # NoDevice => holder \in peers',
         timer => holder # NoDevice /\ streaming,
         holder # NoDevice /\ ~foreign => timer,
         ~streaming => peers' = {},
         listening' \in [Device -> BOOLEAN], listenTimer' = listening',
         requests' \in [Device -> Seq(BOOLEAN)]
  PROVE  OverrideInv'
<1>1. trackEnabled' = IF streaming THEN gateOpen \/ holder # NoDevice ELSE trackEnabled
  BY DEF OverrideSet, ApplyTrackEnabled
<1>2. trackEnabled' \in BOOLEAN
  BY <1>1 DEF TypeOK
<1>3. TypeOK'
  BY <1>2 DEF TypeOK, OverrideSet
<1>4. TrackFollowsDecision'
  BY <1>1 DEF TrackFollowsDecision, OverrideSet
<1>5. HolderIsConnected' /\ NetIffHeld' /\ StoppedIsEmpty'
  BY DEF HolderIsConnected, NetIffHeld, StoppedIsEmpty, OverrideSet
<1> QED
  BY <1>3, <1>4, <1>5

\* Steps that only concern the Parents.
LEMMA ParentsKeep ==
  ASSUME OverrideInv, UNCHANGED monitorVars,
         listening' \in [Device -> BOOLEAN], listenTimer' = listening',
         requests' \in [Device -> Seq(BOOLEAN)]
  PROVE  OverrideInv'
BY DEF monitorVars, TypeOK, HolderIsConnected, TrackFollowsDecision, NetIffHeld, StoppedIsEmpty

LEMMA OverrideInit == Init => OverrideInv
<1> SUFFICES ASSUME Init PROVE OverrideInv
  OBVIOUS
<1>1. << >> \in Seq(BOOLEAN)
  OBVIOUS
<1>2. requests \in [Device -> Seq(BOOLEAN)]
  BY <1>1 DEF Init
<1> QED
  BY <1>2, ListenAssumption
  DEF Init, TypeOK, HolderIsConnected, TrackFollowsDecision, NetIffHeld, StoppedIsEmpty

LEMMA OverrideStep ==
  ASSUME OverrideInv, [Next]_vars
  PROVE  OverrideInv'
<1> USE ListenAssumption
<1>1. CASE Start
  BY <1>1 DEF Start, parentVars, TypeOK, HolderIsConnected, TrackFollowsDecision, NetIffHeld,
              StoppedIsEmpty
<1>2. CASE Stop
  <2>1. listenOverrideHolder' = NoDevice
    BY <1>2 DEF Stop, HolderIsConnected
  <2>2. requests' \in [Device -> Seq(BOOLEAN)]
    BY <1>2 DEF Stop
  <2>3. TypeOK'
    BY <1>2, <2>1, <2>2 DEF Stop, TypeOK
  <2> QED
    BY <1>2, <2>1, <2>3
    DEF Stop, HolderIsConnected, TrackFollowsDecision, NetIffHeld, StoppedIsEmpty
<1>3. CASE OverrideTimeout
  <2>1. OverrideSet(NoDevice, FALSE, FALSE)
    BY <1>3 DEF OverrideTimeout, OverrideSet
  <2> QED
    BY <1>3, <2>1, OverrideSetKeeps DEF OverrideTimeout, parentVars, TypeOK, StoppedIsEmpty
<1>4. ASSUME NEW open \in BOOLEAN, SetGateOpen(open)
      PROVE  OverrideInv'
  <2>1. trackEnabled' = (open \/ listenOverrideHolder # NoDevice)
    BY <1>4 DEF SetGateOpen, ApplyTrackEnabled
  <2>2. TypeOK'
    BY <1>4, <2>1 DEF SetGateOpen, parentVars, TypeOK
  <2> QED
    BY <1>4, <2>1, <2>2
    DEF SetGateOpen, HolderIsConnected, TrackFollowsDecision, NetIffHeld, StoppedIsEmpty
<1>5. ASSUME NEW d \in Device, AddPeer(d)
      PROVE  OverrideInv'
  BY <1>5 DEF AddPeer, parentVars, TypeOK, HolderIsConnected, TrackFollowsDecision, NetIffHeld,
              StoppedIsEmpty
<1>6. ASSUME NEW d \in Device, TeardownPeer(d)
      PROVE  OverrideInv'
  <2>1. /\ requests' \in [Device -> Seq(BOOLEAN)]
        /\ peers' = peers \ {d} /\ d \in peers
    BY <1>6 DEF TeardownPeer, TypeOK
  <2>2. CASE listenOverrideHolder = d
    <3>1. OverrideSet(NoDevice, FALSE, FALSE)
      BY <1>6, <2>2 DEF TeardownPeer, ReleaseOverride, ClearListenOverride, OverrideSet
    <3> QED
      BY <1>6, <2>1, <3>1, OverrideSetKeeps DEF TeardownPeer, TypeOK, StoppedIsEmpty
  <2>3. CASE listenOverrideHolder # d
    <3>1. UNCHANGED <<listenOverrideHolder, listenOverrideTimer, trackEnabled, foreignStop>>
      BY <1>6, <2>3 DEF TeardownPeer, ReleaseOverride
    <3>2. TypeOK'
      BY <1>6, <2>1, <3>1 DEF TeardownPeer, TypeOK
    <3> QED
      BY <1>6, <2>1, <2>3, <3>1, <3>2
      DEF TeardownPeer, HolderIsConnected, TrackFollowsDecision, NetIffHeld, StoppedIsEmpty
  <2> QED
    BY <2>2, <2>3
<1>7. ASSUME NEW d \in Device, HandleListenRequest(d)
      PROVE  OverrideInv'
  <2> DEFINE left == Tail(requests[d])
  <2>1. left \in Seq(BOOLEAN)
    <3>1. requests[d] \in Seq(BOOLEAN) /\ requests[d] # << >>
      BY <1>7 DEF HandleListenRequest, TypeOK
    <3> QED
      BY <3>1, HeadTailProperties
  <2>2. requests' = [requests EXCEPT ![d] = left] /\ UNCHANGED <<listening, listenTimer>>
    BY <1>7 DEF HandleListenRequest
  <2> HIDE DEF left
  <2>3. requests' \in [Device -> Seq(BOOLEAN)]
    BY <2>1, <2>2 DEF TypeOK
  <2>4. CASE d \notin peers
    BY <1>7, <2>2, <2>3, <2>4, ParentsKeep DEF HandleListenRequest, TypeOK
  <2>5. CASE d \in peers /\ SetListenOverride(d) /\ UNCHANGED <<peers, streaming, sampled, gateOpen>>
    <3>1. OverrideSet(d, TRUE, FALSE)
      BY <2>5 DEF SetListenOverride, OverrideSet
    <3> QED
      BY <2>2, <2>3, <2>5, <3>1, OverrideSetKeeps DEF TypeOK, StoppedIsEmpty
  <2>6. CASE d \in peers /\ ClearListenOverride(d) /\ UNCHANGED <<peers, streaming, sampled, gateOpen>>
    <3> DEFINE holder == IF listenOverrideHolder = d THEN NoDevice ELSE listenOverrideHolder
               foreign == listenOverrideHolder \notin {d, NoDevice}
    <3>1. OverrideSet(holder, FALSE, foreign)
      BY <2>6 DEF ClearListenOverride, OverrideSet
    <3>2. holder \in Device \cup {NoDevice} /\ foreign \in BOOLEAN
      BY DEF TypeOK
    <3> QED
      BY <2>2, <2>3, <2>6, <3>1, <3>2, OverrideSetKeeps DEF TypeOK, StoppedIsEmpty, HolderIsConnected
  <2> QED
    BY <1>7, <2>4, <2>5, <2>6 DEF HandleListenRequest
<1>8. ASSUME NEW d \in Device, NEW on \in BOOLEAN, SetListening(d, on)
      PROVE  OverrideInv'
  <2>1. /\ requests' \in [Device -> Seq(BOOLEAN)]
        /\ listening' \in [Device -> BOOLEAN] /\ listenTimer' = listening'
    BY <1>8 DEF SetListening, SetListenRequest, TypeOK
  <2> QED
    BY <1>8, <2>1, ParentsKeep DEF SetListening
<1>9. ASSUME NEW d \in Device, ListenLapses(d)
      PROVE  OverrideInv'
  BY <1>9, ParentsKeep DEF ListenLapses, TypeOK
<1>10. CASE UNCHANGED vars
  BY <1>10, ParentsKeep DEF vars, parentVars, TypeOK
<1> QED
  BY <1>1, <1>2, <1>3, <1>4, <1>5, <1>6, <1>7, <1>8, <1>9, <1>10 DEF Next

LEMMA OverrideInvariant == Spec => []OverrideInv
<1>1. Init => OverrideInv
  BY OverrideInit
<1>2. OverrideInv /\ [Next]_vars => OverrideInv'
  BY OverrideStep
<1> QED
  BY <1>1, <1>2, PTL DEF Spec

\* Types, and a Parent's button is on exactly while its timeout is pending.
THEOREM ListenTypeOK == Spec => []TypeOK
<1>1. OverrideInv => TypeOK
  OBVIOUS
<1> QED
  BY <1>1, OverrideInvariant, PTL

\* The override is held by a connected Parent: whichever way a Parent goes, it
\* does not leave the microphone open.
THEOREM ListenHolderIsConnected == Spec => []HolderIsConnected
<1>1. OverrideInv => HolderIsConnected
  OBVIOUS
<1> QED
  BY <1>1, OverrideInvariant, PTL

\* From the first sample on, audio goes out exactly while the gate is open or an
\* override is held.
THEOREM ListenTrackFollowsDecision == Spec => []TrackFollowsDecision
<1>1. OverrideInv => TrackFollowsDecision
  OBVIOUS
<1> QED
  BY <1>1, OverrideInvariant, PTL

\* The override's timeout is pending only while it is held, and always then,
\* unless another Parent's stop removed it.
THEOREM ListenNetIffHeld == Spec => []NetIffHeld
<1>1. OverrideInv => NetIffHeld
  OBVIOUS
<1> QED
  BY <1>1, OverrideInvariant, PTL
=============================================================================
