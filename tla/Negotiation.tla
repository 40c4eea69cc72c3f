---------------------------- MODULE Negotiation ----------------------------
(***************************************************************************)
(* The WebRTC negotiation between one Monitor and one Parent:              *)
(* createOfferFor and handleSignal of src/webrtc/monitorSession.ts, all of *)
(* src/webrtc/parentSession.ts that touches its RTCPeerConnection, and the *)
(* IceCandidateQueue and handleIncomingSdp of                              *)
(* src/webrtc/peerConnectionHelpers.ts that both sides share.              *)
(*                                                                         *)
(* The relay forwards in order to whoever is connected, announces a Parent *)
(* unless it supersedes its own old socket, and tells each side when the   *)
(* other left.  What is on its way to a lost connection is lost.           *)
(*                                                                         *)
(* A step is the stretch of one callback to its next await; calls in       *)
(* flight are in calls.  The WebRTC library is environment: an operation   *)
(* takes effect when it resolves, a closed connection rejects them, and an *)
(* offer is refused while a local one is pending (no implicit rollback).   *)
(* An operation that completed just before its connection was closed may   *)
(* still be seen to resolve ("late" in history).                           *)
(***************************************************************************)
EXTENDS Integers, Sequences

Side == {"monitor", "parent"}

CONSTANTS
  MaxFaults,   \* drops and restarts, of either side
  Trickling    \* the sides whose candidates are followed

ASSUME NegotiationAssumption == MaxFaults \in Nat /\ Trickling \subseteq Side

Other(s) == IF s = "monitor" THEN "parent" ELSE "monitor"

VARIABLES
  up,          \* the socket of each side is open and joined
  listed,      \* the relay holds a socket, dead or alive, of the Parent
  to,          \* messages on their way to each side
  pc,          \* the current RTCPeerConnection of each side, with its candidate queue
  made,        \* how many connections each side has made
  calls,       \* handlePeerJoined, startTalking and handleSignal calls in flight
  talkStream,  \* the Parent's microphone is open
  faults,
  offers,      \* how many offers were made, and so the number of the last
  history      \* which of History happened

vars == <<up, listed, to, pc, made, calls, talkStream, faults, offers, history>>
linkVars == <<up, listed, faults>>

\* late: a call went on with a connection closed under it.  crossed: an answer
\* was accepted for another offer than the one it answers.  superseded: the
\* Parent reconnected before the relay saw it leave.  stranded: the microphone
\* opened for a connection closed meanwhile.
History == {"late", "crossed", "superseded", "stranded"}

\* A connection: its signalling state, its last offer, the connection
\* its remote description is of (0: none), whether it sent a candidate, carries the talk
\* track; remoteDescriptionSet and pending of its IceCandidateQueue.
NewPc(id, talk) ==
  [id |-> id, sig |-> "stable", offer |-> 0, remote |-> 0, trickled |-> FALSE, talk |-> talk,
   ready |-> FALSE, pending |-> {}]

\* No connection, and an empty queue.
NoPc == NewPc(0, FALSE)

\* A message names the peer connection of its sender, 0 for the relay's own;
\* and the offer that it is or answers, which the code does not send.
Msg(kind, id, offer) == [kind |-> kind, pc |-> id, offer |-> offer]

\* A call in flight, on connection id of side s, for the message msg.
Call(s, kind, id, msg, at) == [side |-> s, kind |-> kind, pc |-> id, msg |-> msg, at |-> at]

Init ==
  /\ up = [s \in Side |-> FALSE]
  /\ listed = FALSE
  /\ to = [s \in Side |-> <<>>]
  /\ pc = [s \in Side |-> IF s = "parent" THEN NewPc(1, FALSE) ELSE NoPc]
  /\ made = [s \in Side |-> IF s = "parent" THEN 1 ELSE 0]
  /\ calls = {}
  /\ talkStream = FALSE
  /\ faults = 0
  /\ offers = 0
  /\ history = {}

Forwards(s) == up[s] /\ up[Other(s)]

\* sendSignal from side s: forwarded, or lost when either socket is down.
SendSignal(s, msg) ==
  to' = IF Forwards(s) THEN [to EXCEPT ![Other(s)] = Append(@, msg)] ELSE to

Receives(s, kind) == up[s] /\ to[s] # <<>> /\ Head(to[s]).kind = kind

Received(s) == to' = [to EXCEPT ![s] = Tail(@)]

-----------------------------------------------------------------------------
(* The connections of each side.                                           *)

\* A mutant: a connection set up later goes without the talk track.
Fresh_WithoutTalk(s) == NewPc(made[s] + 1, FALSE)

\* A mutant: the queue of the connection it replaces is not reset.
Fresh_QueueStays(s) ==
  [NewPc(made[s] + 1, s = "parent" /\ talkStream) EXCEPT !.ready = pc[s].ready]

\* setupPeerConnection of side s; the Parent re-adds its talk track.
Fresh(s) == NewPc(made[s] + 1, s = "parent" /\ talkStream)

\* this.pc ?? setupPeerConnection()
Existing(s) == IF pc[s].id # 0 THEN pc[s] ELSE Fresh(s)

Adopt(s, new) ==
  /\ pc' = [pc EXCEPT ![s] = new]
  /\ made' = [made EXCEPT ![s] = IF new.id > @ THEN new.id ELSE @]

Open(c) == pc[c.side].id = c.pc

Ends(c) == calls' = calls \ {c}
Goes(c, at) == calls' = (calls \ {c}) \cup {[c EXCEPT !.at = at]}

\* teardownPeer, teardownPeerConnection: close, forget, reset the queue.
TornDown(s) == NoPc

\* onPeerLeft of the Parent, and of the Monitor for this Parent.
PeerLeft(s) ==
  /\ Receives(s, "left")
  /\ Received(s)
  /\ pc' = [pc EXCEPT ![s] = TornDown(s)]
  /\ UNCHANGED <<linkVars, made, calls, talkStream, offers, history>>

-----------------------------------------------------------------------------
(* Offers.                                                                 *)

\* onPeerJoined: handlePeerJoined asks the store (see MonitorSession).
PeerJoined ==
  /\ Receives("monitor", "joined")
  /\ Received("monitor")
  /\ calls' = calls \cup {Call("monitor", "join", 0, Head(to["monitor"]), "admitting")}
  /\ UNCHANGED <<linkVars, pc, made, talkStream, offers, history>>

\* createOfferFor: an existing connection is reused.
CreateOfferFor(c) ==
  /\ c.at = "admitting"
  /\ Adopt("monitor", Existing("monitor"))
  /\ calls' = (calls \ {c}) \cup {[c EXCEPT !.pc = Existing("monitor").id, !.at = "offering"]}
  /\ UNCHANGED <<linkVars, to, talkStream, offers, history>>

\* createOffer and setLocalDescription resolved; the offer is sent.
OfferMade(c) ==
  /\ c.at = "offering"
  /\ IF Open(c)
     THEN /\ pc[c.side].sig \in {"stable", "haveLocal"}
          /\ pc' = [pc EXCEPT ![c.side].sig = "haveLocal", ![c.side].offer = offers + 1]
          /\ history' = history
     ELSE pc' = pc /\ history' = history \cup {"late"}
  /\ offers' = offers + 1
  /\ Ends(c)
  /\ SendSignal(c.side, Msg("offer", c.pc, offers + 1))
  /\ UNCHANGED <<linkVars, made, talkStream>>

\* They rejected, or the send threw.  The catch around handlePeerJoined tears
\* down whatever connection the Parent has by now.
OfferFails(c) ==
  /\ c.at = "offering"
  /\ ~Open(c) \/ pc[c.side].sig = "haveRemote" \/ ~up[c.side]
  /\ Ends(c)
  /\ pc' = IF c.kind = "join" THEN [pc EXCEPT !["monitor"] = TornDown("monitor")] ELSE pc
  /\ UNCHANGED <<linkVars, to, made, talkStream, offers, history>>

\* The first startTalking asks for the microphone, for the connection of now.
StartTalking ==
  /\ ~talkStream
  /\ \A c \in calls : c.kind # "talk"
  /\ Adopt("parent", Existing("parent"))
  /\ calls' = calls \cup {Call("parent", "talk", Existing("parent").id, Msg("talk", 0, 0), "mic")}
  /\ UNCHANGED <<linkVars, to, talkStream, offers, history>>

\* It opened: its track is added to that connection and an offer is made.
\* addTrack throws on a closed connection.
MicOpens(c) ==
  /\ c.at = "mic"
  /\ talkStream' = TRUE
  /\ IF Open(c)
     THEN pc' = [pc EXCEPT !["parent"].talk = TRUE] /\ Goes(c, "offering") /\ history' = history
     ELSE pc' = pc /\ Ends(c) /\ history' = history \cup {"stranded"}
  /\ UNCHANGED <<linkVars, to, made, offers>>

MicDenied(c) ==
  /\ c.at = "mic"
  /\ Ends(c)
  /\ UNCHANGED <<linkVars, to, pc, made, talkStream, offers, history>>

-----------------------------------------------------------------------------
(* Incoming descriptions and candidates.                                   *)

\* A mutant: an offer is applied to the connection the Parent has.
PcFor_Reused(s, kind) == Existing(s)

\* A mutant: the Monitor, too, replaces its connection for an offer.
PcFor_Both(s, kind) == IF kind = "offer" THEN Fresh(s) ELSE Existing(s)

\* The connection a description is applied to: the Parent replaces its own for
\* every offer (handleSignal).
PcFor(s, kind) == IF s = "parent" /\ kind = "offer" THEN Fresh(s) ELSE Existing(s)

\* setRemoteDescription refuses an offer while another is being negotiated, and
\* an answer that none asked for.
Accepts(sig, kind) == sig = IF kind = "offer" THEN "stable" ELSE "haveLocal"

Described(new, msg) ==
  [new EXCEPT !.sig = IF msg.kind = "offer" THEN "haveRemote" ELSE "stable", !.remote = msg.pc]

\* handleSignal with a description: setRemoteDescription.  The Monitor ignores
\* it without a peer.
SdpSignal(s, kind) ==
  /\ Receives(s, kind)
  /\ Received(s)
  /\ LET new == PcFor(s, kind)
         msg == Head(to[s])
     IN  IF (s = "monitor" /\ pc[s].id = 0) \/ ~Accepts(new.sig, kind)
         THEN /\ IF s = "parent" THEN Adopt(s, new) ELSE UNCHANGED <<pc, made>>
              /\ UNCHANGED <<calls, history>>
         ELSE /\ Adopt(s, Described(new, msg))
              /\ calls' = calls \cup {Call(s, kind, new.id, msg, "describing")}
              /\ history' = IF kind = "answer" /\ msg.offer # new.offer
                            THEN history \cup {"crossed"} ELSE history
  /\ UNCHANGED <<linkVars, talkStream, offers>>

\* setRemoteDescription resolved; flush opens the queue and adds what waits.
RemoteDescriptionSet(c) ==
  /\ c.at = "describing"
  /\ Open(c)
  /\ pc' = [pc EXCEPT ![c.side].ready = TRUE, ![c.side].pending = {}]
  /\ IF c.kind = "offer" THEN Goes(c, "answering") ELSE Ends(c)
  /\ UNCHANGED <<linkVars, to, made, talkStream, offers, history>>

\* It resolved for a connection closed meanwhile.  The Parent's queue serves
\* its next connection by now: flush opens it, and gives what waits in it to
\* the closed one.
LateFlush(c) ==
  /\ c.at = "describing"
  /\ ~Open(c)
  /\ pc' = IF c.side = "parent"
           THEN [pc EXCEPT !["parent"].ready = TRUE, !["parent"].pending = {}] ELSE pc
  /\ Ends(c)
  /\ history' = history \cup {"late"}
  /\ UNCHANGED <<linkVars, to, made, talkStream, offers>>

\* createAnswer and setLocalDescription resolved; the answer is sent.
Answered(c) ==
  /\ c.at = "answering"
  /\ IF Open(c)
     THEN pc' = [pc EXCEPT ![c.side].sig = "stable"] /\ history' = history
     ELSE pc' = pc /\ history' = history \cup {"late"}
  /\ Ends(c)
  /\ SendSignal(c.side, Msg("answer", c.pc, c.msg.offer))
  /\ UNCHANGED <<linkVars, made, talkStream, offers>>

\* The connection was closed before it was done, or the send threw.
HandleSignalFails(c) ==
  /\ c.at \in {"describing", "answering"}
  /\ ~Open(c) \/ (c.at = "answering" /\ ~up[c.side])
  /\ Ends(c)
  /\ UNCHANGED <<linkVars, to, pc, made, talkStream, offers, history>>

\* onicecandidate, from the moment a local description is being set: it may be
\* on the wire before the description.  One stands for all of a connection.
Trickle(s) ==
  /\ s \in Trickling
  /\ pc[s].id # 0 /\ ~pc[s].trickled
  /\ \E c \in calls : c.side = s /\ Open(c) /\ c.at \in {"offering", "answering"}
  /\ pc' = [pc EXCEPT ![s].trickled = TRUE]
  /\ SendSignal(s, Msg("candidate", pc[s].id, 0))
  /\ UNCHANGED <<linkVars, made, calls, talkStream, offers, history>>

\* IceCandidateQueue.add: the candidates that wait afterwards.
Add(s, candidate) ==
  IF pc[s].ready THEN Existing(s).pending ELSE Existing(s).pending \cup {candidate}

\* handleSignal with a candidate.
CandidateSignal(s) ==
  /\ Receives(s, "candidate")
  /\ Received(s)
  /\ IF s = "monitor" /\ pc[s].id = 0
     THEN UNCHANGED <<pc, made>>
     ELSE Adopt(s, [Existing(s) EXCEPT !.pending = Add(s, Head(to[s]).pc)])
  /\ UNCHANGED <<linkVars, calls, talkStream, offers, history>>

-----------------------------------------------------------------------------
(* Connections to the relay, and restarts.                                 *)

\* The Monitor joins its room; a Parent there is announced to it.
MonitorJoins ==
  /\ ~up["monitor"]
  /\ up' = [up EXCEPT !["monitor"] = TRUE]
  /\ to' = [to EXCEPT !["monitor"] = IF listed THEN <<Msg("joined", faults, 0)>> ELSE <<>>]
  /\ UNCHANGED <<listed, pc, made, calls, talkStream, faults, offers, history>>

\* A Parent joins; it is announced unless it supersedes its own old socket.
ParentJoins ==
  /\ ~up["parent"]
  /\ up' = [up EXCEPT !["parent"] = TRUE]
  /\ listed' = TRUE
  /\ history' = IF listed THEN history \cup {"superseded"} ELSE history
  /\ to' = IF up["monitor"] /\ ~listed
           THEN [to EXCEPT !["monitor"] = Append(@, Msg("joined", faults, 0))] ELSE to
  /\ UNCHANGED <<pc, made, calls, talkStream, faults, offers>>

\* The close event of the Parent's old socket: the Monitor is told.
RelayMissesParent ==
  /\ listed /\ ~up["parent"]
  /\ listed' = FALSE
  /\ to' = IF up["monitor"] THEN [to EXCEPT !["monitor"] = Append(@, Msg("left", 0, 0))] ELSE to
  /\ UNCHANGED <<up, pc, made, calls, talkStream, faults, offers, history>>

\* A side loses its socket; the Parent is told at once of a Monitor that left.
Loses(s) ==
  /\ up[s] /\ faults < MaxFaults
  /\ up' = [up EXCEPT ![s] = FALSE]
  /\ faults' = faults + 1
  /\ to' = IF s = "monitor" /\ up["parent"]
           THEN [to EXCEPT !["monitor"] = <<>>, !["parent"] = Append(@, Msg("left", 0, 0))]
           ELSE [to EXCEPT ![s] = <<>>]

Drop(s) ==
  /\ Loses(s)
  /\ UNCHANGED <<listed, pc, made, calls, talkStream, offers, history>>

\* stop() or the death of the app, and a new session.
Restart(s) ==
  /\ Loses(s)
  /\ calls' = {c \in calls : c.side # s}
  /\ IF s = "parent"
     THEN /\ Adopt(s, NewPc(made[s] + 1, FALSE))
          /\ talkStream' = FALSE
          /\ history' = history \ {"stranded"}
     ELSE pc' = [pc EXCEPT ![s] = NoPc] /\ UNCHANGED <<made, talkStream, history>>
  /\ UNCHANGED <<listed, offers>>

-----------------------------------------------------------------------------
Resolves(c) ==
  \/ CreateOfferFor(c) \/ OfferMade(c) \/ OfferFails(c) \/ MicOpens(c) \/ MicDenied(c)
  \/ RemoteDescriptionSet(c) \/ LateFlush(c) \/ Answered(c) \/ HandleSignalFails(c)

Delivers(s) ==
  \/ PeerLeft(s) \/ SdpSignal(s, "offer") \/ SdpSignal(s, "answer") \/ CandidateSignal(s)

Joins == MonitorJoins \/ ParentJoins

Next ==
  \/ PeerJoined \/ StartTalking \/ Joins \/ RelayMissesParent
  \/ \E c \in calls : Resolves(c)
  \/ \E s \in Side : Delivers(s) \/ Trickle(s) \/ Drop(s) \/ Restart(s)

\* What was sent is delivered, promises settle (but for the user who is asked
\* for the microphone), and both sides keep rejoining.
Fairness ==
  /\ WF_vars(PeerJoined \/ \E s \in Side : Delivers(s))
  /\ WF_vars(\E c \in calls : c.at # "mic" /\ Resolves(c))
  /\ WF_vars(MonitorJoins) /\ WF_vars(ParentJoins)

Spec == Init /\ [][Next]_vars /\ Fairness

-----------------------------------------------------------------------------
(* Properties.                                                             *)

Connection ==
  [id : Nat, sig : {"stable", "haveLocal", "haveRemote"}, offer : Nat, remote : Nat,
   trickled : BOOLEAN, talk : BOOLEAN, ready : BOOLEAN, pending : SUBSET Nat]

\* A description names the connection it is of.
Message ==
  {msg \in [kind : {"joined", "left", "offer", "answer", "candidate", "talk"}, pc : Nat, offer : Nat] :
     msg.kind \in {"offer", "answer"} => msg.pc # 0}

CallInFlight ==
  {c \in [side : Side, kind : {"join", "talk", "offer", "answer"}, pc : Nat, msg : Message,
          at : {"admitting", "offering", "mic", "describing", "answering"}] :
     /\ c.pc = 0 <=> c.at = "admitting"
     /\ c.at = "admitting" => c.side = "monitor" /\ c.kind = "join"
     /\ c.at = "mic" => c.side = "parent" /\ c.kind = "talk"
     /\ c.at = "offering" => c.kind \in {"join", "talk"}
     /\ c.at = "describing" => c.kind \in {"offer", "answer"}
     /\ c.at = "answering" => c.kind = "offer"}

\* Every variable keeps its type: a call waits only where its kind of call does,
\* on a connection once it has one, and a description on its way names one.
TypeOK ==
  /\ up \in [Side -> BOOLEAN] /\ listed \in BOOLEAN /\ talkStream \in BOOLEAN
  /\ made \in [Side -> Nat] /\ pc \in [Side -> Connection]
  /\ to \in [Side -> Seq(Message)] /\ calls \subseteq CallInFlight
  /\ faults \in 0..MaxFaults /\ offers \in Nat /\ history \subseteq History

\* No message and no call is under way.
Quiescent == calls = {} /\ \A s \in Side : up[s] /\ to[s] = <<>>

\* Each side's remote description is of the other's current connection.
Paired ==
  /\ pc["monitor"].id # 0
  /\ \A s \in Side : pc[s].remote = pc[Other(s)].id

\* Once everything has settled, two sides that both consider their exchange of
\* descriptions complete have exchanged them with each other, and not with a
\* connection the other has thrown away.
SettledSidesArePaired ==
  /\ Quiescent
  /\ history \subseteq {"stranded", "superseded"}
  /\ \A s \in Side : pc[s].sig = "stable" /\ pc[s].remote # 0
  => Paired

\* A candidate is given to a connection only once its remote description is
\* set, whatever calls of an earlier connection are still in flight
\* (IceCandidateQueue).
CandidatesAwaitDescription ==
  "late" \notin history =>
    /\ \A s \in Side : pc[s].ready => pc[s].remote # 0
    /\ pc["parent"].ready =>
         \A c \in calls :
           ~(c.side = "parent" /\ c.kind = "offer" /\ c.at = "describing" /\ Open(c))

\* Every connection the Parent has while its microphone is open carries the
\* talk track, across replacements (setupPeerConnection).
TalkTrackOnConnection ==
  talkStream /\ "stranded" \notin history /\ pc["parent"].id # 0 => pc["parent"].talk

\* If no reconnect superseded and no call outlived its connection, the two
\* sides end up connected to each other or the Monitor, having failed, without
\* a connection.
NegotiationCompletes ==
  [](history \subseteq {"stranded"}) => <>[](Paired \/ pc["monitor"].id = 0)
=============================================================================
