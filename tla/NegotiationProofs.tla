-------------------------- MODULE NegotiationProofs -------------------------
(***************************************************************************)
(* Invariants of Negotiation for any number of faults.  The connections of *)
(* a side are numbered in the order they are made, which is what tells the *)
(* calls of an earlier connection from those of the present one.  That the *)
(* two sides are paired once they have settled rests on following the      *)
(* Monitor's last offer: until it is answered, what may still answer it;   *)
(* from then on, that nothing on its way can part the sides unnoticed.     *)
(***************************************************************************)
EXTENDS Negotiation, SequenceTheorems, TLAPS

\* The present connection of a side is its last; no call is of a later one.
NumberedInOrder ==
  /\ \A s \in Side : pc[s].id \in {0, made[s]}
  /\ \A c \in calls : c.pc <= made[c.side]

\* A description that is being set has been taken note of; the Parent sets one
\* offer per connection, and nothing else at the same time.
DescribingKnown ==
  /\ \A c \in calls : c.at = "describing" /\ Open(c) => pc[c.side].remote # 0
  /\ \A c, e \in calls : c.side = "parent" /\ e.side = "parent" /\ c.kind = "offer"
                         /\ e.kind = "offer" /\ c.pc = e.pc => c = e
  /\ \A c \in calls :
       c.side = "parent" /\ c.kind = "offer" /\ c.at = "describing" /\ Open(c)
       => /\ pc["parent"].sig = "haveRemote"
          /\ \A e \in calls : e.side = "parent" /\ e.at = "describing" /\ e.pc = c.pc => e = c

NegotiationInv ==
  /\ TypeOK /\ NumberedInOrder /\ DescribingKnown
  /\ CandidatesAwaitDescription /\ TalkTrackOnConnection

-----------------------------------------------------------------------------
(* The types of what the steps are made of.                                *)

LEMMA FreshFacts ==
  ASSUME TypeOK, NEW s \in Side
  PROVE  /\ Fresh(s) \in Connection /\ Fresh(s).id = made[s] + 1
         /\ Fresh(s).remote = 0 /\ Fresh(s).sig = "stable" /\ Fresh(s).ready = FALSE
         /\ s = "parent" /\ talkStream => Fresh(s).talk = TRUE
<1> DEFINE talk == s = "parent" /\ talkStream
<1>1. talk \in BOOLEAN /\ (s = "parent" /\ talkStream => talk = TRUE) /\ Fresh(s) = NewPc(made[s] + 1, talk)
  BY DEF Fresh, TypeOK
<1>2. made[s] \in Nat
  BY DEF TypeOK
<1> HIDE DEF talk
<1>3. NewPc(made[s] + 1, talk) \in Connection
  BY <1>1, <1>2 DEF NewPc, Connection
<1> QED
  BY <1>1, <1>3 DEF NewPc

LEMMA NoPcFacts ==
  NoPc \in Connection /\ NoPc.id = 0 /\ NoPc.remote = 0 /\ NoPc.ready = FALSE
BY DEF NoPc, NewPc, Connection

LEMMA ExistingFacts ==
  ASSUME TypeOK, NumberedInOrder, NEW s \in Side
  PROVE  /\ Existing(s) \in Connection
         /\ \/ Existing(s) = pc[s] /\ pc[s].id = made[s] /\ pc[s].id # 0
            \/ Existing(s) = Fresh(s)
         /\ Existing(s).id \in Nat \ {0}
<1>1. made[s] \in Nat /\ pc[s].id \in Nat /\ Fresh(s).id = made[s] + 1
  BY FreshFacts DEF TypeOK, Connection
<1>2. Existing(s) \in Connection
      /\ (\/ Existing(s) = pc[s] /\ pc[s].id = made[s] /\ pc[s].id # 0
          \/ Existing(s) = Fresh(s))
  BY FreshFacts DEF Existing, NumberedInOrder, TypeOK
<1> QED
  BY <1>1, <1>2

LEMMA AdoptFacts ==
  ASSUME TypeOK, NEW s \in Side, NEW new \in Connection, Adopt(s, new)
  PROVE  /\ pc' \in [Side -> Connection] /\ made' \in [Side -> Nat]
         /\ pc'[s] = new /\ made'[s] = IF new.id > made[s] THEN new.id ELSE made[s]
         /\ \A t \in Side \ {s} : pc'[t] = pc[t] /\ made'[t] = made[t]
<1>1. new.id \in Nat
  BY DEF Connection
<1> QED
  BY <1>1 DEF TypeOK, Adopt

LEMMA PcTypes ==
  ASSUME TypeOK, NEW s \in Side
  PROVE  /\ pc[s] \in Connection /\ pc[s].id \in Nat /\ pc[s].remote \in Nat
         /\ pc[s].ready \in BOOLEAN /\ pc[s].talk \in BOOLEAN /\ made[s] \in Nat
         /\ pc[s].sig \in {"stable", "haveLocal", "haveRemote"}
BY DEF TypeOK, Connection

LEMMA CallTypes ==
  ASSUME TypeOK, NEW c \in calls
  PROVE  /\ c \in CallInFlight /\ c.side \in Side /\ c.pc \in Nat /\ c.msg \in Message
         /\ c = Call(c.side, c.kind, c.pc, c.msg, c.at)
         /\ (c.pc = 0 <=> c.at = "admitting")
BY DEF TypeOK, CallInFlight, Call

LEMMA ReceivedFacts ==
  ASSUME TypeOK, NEW s \in Side, NEW kind, Receives(s, kind), Received(s)
  PROVE  to' \in [Side -> Seq(Message)] /\ Head(to[s]) \in Message /\ Head(to[s]).kind = kind
<1>1. to[s] \in Seq(Message) /\ to[s] # <<>> /\ to' = [to EXCEPT ![s] = Tail(to[s])]
      /\ to \in [Side -> Seq(Message)] /\ Head(to[s]).kind = kind
  BY DEF TypeOK, Receives, Received
<1> HIDE DEF Message
<1>2. Tail(to[s]) \in Seq(Message) /\ Head(to[s]) \in Message
  BY <1>1, HeadTailProperties
<1> QED
  BY <1>1, <1>2

LEMMA SentFacts ==
  ASSUME TypeOK, NEW s \in Side, NEW msg \in Message, SendSignal(s, msg)
  PROVE  to' \in [Side -> Seq(Message)]
<1>1. to \in [Side -> Seq(Message)] /\ Other(s) \in Side
  BY DEF TypeOK, Other, Side
<1> HIDE DEF Message
<1>2. Append(to[Other(s)], msg) \in Seq(Message)
  BY <1>1, AppendProperties
<1> QED
  BY <1>1, <1>2 DEF SendSignal

LEMMA MsgFacts ==
  /\ \A n, m \in Nat : Msg("candidate", n, m) \in Message /\ Msg("talk", n, m) \in Message
  /\ \A n, m \in Nat : Msg("joined", n, m) \in Message /\ Msg("left", n, m) \in Message
  /\ \A n, m \in Nat : n # 0 => Msg("offer", n, m) \in Message /\ Msg("answer", n, m) \in Message
BY DEF Msg, Message

-----------------------------------------------------------------------------
(* The types are kept.                                                     *)

\* What handleSignal does with the description msg for the connection new.
SdpAccepted(s, kind, new, msg) ==
  /\ Adopt(s, Described(new, msg))
  /\ calls' = calls \cup {Call(s, kind, new.id, msg, "describing")}
  /\ history' \in {history, history \cup {"crossed"}}
  /\ Accepts(new.sig, kind)

LEMMA SdpCases ==
  ASSUME TypeOK, NumberedInOrder, NEW s \in Side, NEW kind \in {"offer", "answer"},
         SdpSignal(s, kind)
  PROVE  \E new \in Connection, msg \in Message :
           /\ new \in {pc[s], Fresh(s)} /\ (s = "parent" /\ kind = "offer" => new = Fresh(s))
           /\ new.id \in Nat \ {0} /\ msg.pc \in Nat \ {0} /\ msg.kind = kind
           /\ \/ Adopt(s, new) /\ calls' = calls /\ history' = history /\ talkStream' = talkStream
              \/ /\ pc' = pc /\ made' = made /\ calls' = calls /\ history' = history
                 /\ talkStream' = talkStream
              \/ SdpAccepted(s, kind, new, msg) /\ talkStream' = talkStream
<1> DEFINE new == PcFor(s, kind)
           msg == Head(to[s])
<1>1. new \in Connection /\ new \in {pc[s], Fresh(s)} /\ (s = "parent" /\ kind = "offer" => new = Fresh(s))
  BY FreshFacts, ExistingFacts DEF PcFor
<1>2. msg \in Message /\ msg.kind = kind
  BY ReceivedFacts DEF SdpSignal
<1>3. msg.pc \in Nat \ {0}
  BY <1>2 DEF Message
<1>4. new.id \in Nat \ {0}
  <2>1. made[s] \in Nat /\ Fresh(s).id = made[s] + 1 /\ Existing(s).id \in Nat \ {0}
    BY PcTypes, FreshFacts, ExistingFacts
  <2> QED
    BY <2>1 DEF PcFor
<1>5. \/ Adopt(s, new) /\ calls' = calls /\ history' = history /\ talkStream' = talkStream
      \/ /\ pc' = pc /\ made' = made /\ calls' = calls /\ history' = history
         /\ talkStream' = talkStream
      \/ SdpAccepted(s, kind, new, msg) /\ talkStream' = talkStream
  <2> HIDE DEF new, msg
  <2>1. LET n == PcFor(s, kind)
            h == Head(to[s])
        IN  \/ Adopt(s, n) /\ calls' = calls /\ history' = history
            \/ pc' = pc /\ made' = made /\ calls' = calls /\ history' = history
            \/ SdpAccepted(s, kind, n, h)
    BY DEF SdpSignal, SdpAccepted
  <2>2. talkStream' = talkStream
    BY DEF SdpSignal
  <2> QED
    BY <2>1, <2>2 DEF new, msg, SdpAccepted
<1> HIDE DEF new, msg
<1> QED
  BY <1>1, <1>2, <1>3, <1>4, <1>5

LEMMA DescribedFacts ==
  ASSUME NEW new \in Connection, NEW msg \in Message
  PROVE  /\ Described(new, msg) \in Connection /\ Described(new, msg).id = new.id
         /\ Described(new, msg).remote = msg.pc /\ Described(new, msg).ready = new.ready
         /\ Described(new, msg).talk = new.talk
         /\ Described(new, msg).sig = IF msg.kind = "offer" THEN "haveRemote" ELSE "stable"
<1>1. msg.pc \in Nat
  BY DEF Message
<1> QED
  BY <1>1 DEF Described, Connection

LEMMA SdpTypes ==
  ASSUME TypeOK, NumberedInOrder, NEW s \in Side, NEW kind \in {"offer", "answer"},
         SdpSignal(s, kind)
  PROVE  TypeOK'
<1>1. PICK new \in Connection, msg \in Message :
           /\ new.id \in Nat \ {0} /\ msg.pc \in Nat \ {0} /\ msg.kind = kind
           /\ \/ Adopt(s, new) /\ calls' = calls /\ history' = history
              \/ pc' = pc /\ made' = made /\ calls' = calls /\ history' = history
              \/ SdpAccepted(s, kind, new, msg)
  BY SdpCases
<1>2. to' \in [Side -> Seq(Message)]
  BY ReceivedFacts DEF SdpSignal
<1>3. pc' \in [Side -> Connection] /\ made' \in [Side -> Nat]
  BY <1>1, DescribedFacts, AdoptFacts DEF SdpAccepted, TypeOK
<1>4. calls' \subseteq CallInFlight /\ history' \subseteq History
  <2>1. Call(s, kind, new.id, msg, "describing") \in CallInFlight
    BY <1>1 DEF Call, CallInFlight
  <2> QED
    BY <1>1, <2>1 DEF SdpAccepted, TypeOK, History
<1> QED
  BY <1>2, <1>3, <1>4 DEF SdpSignal, TypeOK, linkVars

LEMMA ResolveTypes ==
  ASSUME TypeOK, NumberedInOrder, NEW c \in calls, Resolves(c)
  PROVE  TypeOK'
<1>1. c \in CallInFlight /\ c.side \in Side /\ c.pc \in Nat /\ c.msg \in Message
  BY CallTypes
<1>2. \A s \in Side : pc[s] \in Connection
  BY PcTypes
<1>3. offers \in Nat /\ offers + 1 \in Nat
  BY DEF TypeOK
<1>4. ASSUME NEW at, Goes(c, at), [c EXCEPT !.at = at] \in CallInFlight PROVE calls' \subseteq CallInFlight
  BY <1>4 DEF Goes, TypeOK
<1>5. ASSUME Ends(c) PROVE calls' \subseteq CallInFlight
  BY <1>5 DEF Ends, TypeOK
<1>6. CASE CreateOfferFor(c)
  <2>1. Existing("monitor") \in Connection /\ Existing("monitor").id \in Nat \ {0} /\ "monitor" \in Side
    BY ExistingFacts DEF Side
  <2>2. pc' \in [Side -> Connection] /\ made' \in [Side -> Nat]
    BY <1>6, <2>1, AdoptFacts DEF CreateOfferFor
  <2>3. [c EXCEPT !.pc = Existing("monitor").id, !.at = "offering"] \in CallInFlight
    BY <1>6, <1>1, <2>1 DEF CreateOfferFor, CallInFlight
  <2> QED
    BY <1>6, <2>2, <2>3 DEF CreateOfferFor, TypeOK, linkVars
<1>7. CASE OfferMade(c)
  <2>1. c.pc # 0
    BY <1>1, <1>7 DEF OfferMade, CallInFlight
  <2>2. pc' \in [Side -> Connection]
    <3>1. [pc[c.side] EXCEPT !.sig = "haveLocal", !.offer = offers + 1] \in Connection
      BY <1>1, <1>2, <1>3 DEF Connection
    <3>2. pc' = pc \/ pc' = [pc EXCEPT ![c.side] = [pc[c.side] EXCEPT !.sig = "haveLocal", !.offer = offers + 1]]
      BY <1>1, <1>7 DEF OfferMade, TypeOK
    <3> QED
      BY <1>1, <3>1, <3>2 DEF TypeOK
  <2>3. to' \in [Side -> Seq(Message)]
    BY <1>7, <1>1, <1>3, <2>1, MsgFacts, SentFacts DEF OfferMade
  <2> QED
    BY <1>7, <1>5, <1>3, <2>2, <2>3 DEF OfferMade, TypeOK, linkVars, History
<1>8. CASE OfferFails(c)
  <2>1. pc' \in [Side -> Connection]
    BY <1>8, <1>2, NoPcFacts DEF OfferFails, TornDown, TypeOK, Side
  <2> QED
    BY <1>8, <1>5, <2>1 DEF OfferFails, TypeOK, linkVars
<1>9. CASE MicOpens(c)
  <2>1. pc' \in [Side -> Connection]
    <3>1. "parent" \in Side /\ [pc["parent"] EXCEPT !.talk = TRUE] \in Connection
      BY <1>2 DEF Connection, Side
    <3>2. pc' = pc \/ pc' = [pc EXCEPT !["parent"] = [pc["parent"] EXCEPT !.talk = TRUE]]
      BY <3>1, <1>9 DEF MicOpens, TypeOK
    <3> QED
      BY <3>1, <3>2 DEF TypeOK
  <2>2. calls' \subseteq CallInFlight
    <3>1. [c EXCEPT !.at = "offering"] \in CallInFlight
      BY <1>1, <1>9 DEF MicOpens, CallInFlight
    <3> QED
      BY <3>1, <1>4, <1>5, <1>9 DEF MicOpens
  <2> QED
    BY <1>9, <2>1, <2>2 DEF MicOpens, TypeOK, linkVars, History
<1>10. CASE MicDenied(c)
  BY <1>10, <1>5 DEF MicDenied, TypeOK, linkVars
<1>11. CASE RemoteDescriptionSet(c)
  <2>1. pc' \in [Side -> Connection]
    <3>1. [pc[c.side] EXCEPT !.ready = TRUE, !.pending = {}] \in Connection
      BY <1>1, <1>2 DEF Connection
    <3>2. pc' = [pc EXCEPT ![c.side] = [pc[c.side] EXCEPT !.ready = TRUE, !.pending = {}]]
      BY <1>1, <1>11 DEF RemoteDescriptionSet, TypeOK
    <3> QED
      BY <1>1, <3>1, <3>2 DEF TypeOK
  <2>2. calls' \subseteq CallInFlight
    <3>1. c.kind = "offer" => [c EXCEPT !.at = "answering"] \in CallInFlight
      BY <1>1, <1>11 DEF RemoteDescriptionSet, CallInFlight
    <3> QED
      BY <3>1, <1>4, <1>5, <1>11 DEF RemoteDescriptionSet
  <2> QED
    BY <1>11, <2>1, <2>2 DEF RemoteDescriptionSet, TypeOK, linkVars
<1>12. CASE LateFlush(c)
  <2>1. pc' \in [Side -> Connection]
    <3>1. "parent" \in Side /\ [pc["parent"] EXCEPT !.ready = TRUE, !.pending = {}] \in Connection
      BY <1>2 DEF Connection, Side
    <3>2. pc' = pc \/ pc' = [pc EXCEPT !["parent"] = [pc["parent"] EXCEPT !.ready = TRUE, !.pending = {}]]
      BY <3>1, <1>12 DEF LateFlush, TypeOK
    <3> QED
      BY <3>1, <3>2 DEF TypeOK
  <2> QED
    BY <1>12, <1>5, <2>1 DEF LateFlush, TypeOK, linkVars, History
<1>13. CASE Answered(c)
  <2>1. c.pc # 0
    BY <1>1, <1>13 DEF Answered, CallInFlight
  <2>2. pc' \in [Side -> Connection]
    <3>1. [pc[c.side] EXCEPT !.sig = "stable"] \in Connection
      BY <1>1, <1>2 DEF Connection
    <3>2. pc' = pc \/ pc' = [pc EXCEPT ![c.side] = [pc[c.side] EXCEPT !.sig = "stable"]]
      BY <1>1, <1>13 DEF Answered, TypeOK
    <3> QED
      BY <1>1, <3>1, <3>2 DEF TypeOK
  <2>3. c.msg.offer \in Nat
    BY <1>1 DEF Message
  <2>4. to' \in [Side -> Seq(Message)]
    BY <1>13, <1>1, <2>1, <2>3, MsgFacts, SentFacts DEF Answered
  <2> QED
    BY <1>13, <1>5, <2>2, <2>4 DEF Answered, TypeOK, linkVars, History
<1>14. CASE HandleSignalFails(c)
  BY <1>14, <1>5 DEF HandleSignalFails, TypeOK, linkVars
<1> QED
  BY <1>6, <1>7, <1>8, <1>9, <1>10, <1>11, <1>12, <1>13, <1>14 DEF Resolves

LEMMA DeliverTypes ==
  ASSUME TypeOK, NumberedInOrder, NEW s \in Side, Delivers(s) \/ Trickle(s)
  PROVE  TypeOK'
<1>1. CASE PeerLeft(s)
  <2>1. to' \in [Side -> Seq(Message)] /\ pc' \in [Side -> Connection]
    BY <1>1, ReceivedFacts, NoPcFacts DEF PeerLeft, TornDown, TypeOK
  <2> QED
    BY <1>1, <2>1 DEF PeerLeft, TypeOK, linkVars
<1>2. ASSUME NEW kind \in {"offer", "answer"}, SdpSignal(s, kind) PROVE TypeOK'
  BY <1>2, SdpTypes
<1>3. CASE CandidateSignal(s)
  <2> DEFINE more == Add(s, Head(to[s]).pc)
             new == [Existing(s) EXCEPT !.pending = more]
  <2>1. to' \in [Side -> Seq(Message)] /\ Head(to[s]).pc \in Nat
    <3>1. to' \in [Side -> Seq(Message)] /\ Head(to[s]) \in Message
      BY <1>3, ReceivedFacts DEF CandidateSignal
    <3> QED
      BY <3>1 DEF Message
  <2>2. new \in Connection
    <3>1. Existing(s) \in Connection /\ Existing(s).pending \in SUBSET Nat
      BY ExistingFacts, FreshFacts DEF Connection
    <3>2. more \in SUBSET Nat
      BY <2>1, <3>1 DEF Add
    <3> HIDE DEF more
    <3> QED
      BY <3>1, <3>2 DEF Connection
  <2>3. (pc' = pc /\ made' = made) \/ Adopt(s, new)
    BY <1>3 DEF CandidateSignal
  <2>4. pc' \in [Side -> Connection] /\ made' \in [Side -> Nat]
    <3> HIDE DEF new
    <3> QED
      BY <2>2, <2>3, AdoptFacts DEF TypeOK
  <2> QED
    BY <1>3, <2>1, <2>4 DEF CandidateSignal, TypeOK, linkVars
<1>4. CASE Trickle(s)
  <2>1. to' \in [Side -> Seq(Message)]
    BY <1>4, PcTypes, MsgFacts, SentFacts DEF Trickle
  <2>2. pc' \in [Side -> Connection]
    <3>1. [pc[s] EXCEPT !.trickled = TRUE] \in Connection
      BY PcTypes DEF Connection
    <3>2. pc' = [pc EXCEPT ![s] = [pc[s] EXCEPT !.trickled = TRUE]]
      BY <1>4 DEF Trickle, TypeOK
    <3> QED
      BY <3>1, <3>2 DEF TypeOK
  <2> QED
    BY <1>4, <2>1, <2>2 DEF Trickle, TypeOK, linkVars
<1> QED
  BY <1>1, <1>2, <1>3, <1>4 DEF Delivers

LEMMA LosesTypes ==
  ASSUME TypeOK, NEW s \in Side, Loses(s)
  PROVE  to' \in [Side -> Seq(Message)] /\ up' \in [Side -> BOOLEAN] /\ faults' \in 0..MaxFaults
<1>1. Msg("left", 0, 0) \in Message /\ to \in [Side -> Seq(Message)] /\ up \in [Side -> BOOLEAN]
      /\ faults \in 0..MaxFaults /\ "parent" \in Side
  BY MsgFacts DEF TypeOK, Side
<1>2. up' \in [Side -> BOOLEAN] /\ faults' \in 0..MaxFaults
  BY <1>1, NegotiationAssumption DEF Loses
<1>3. Append(to["parent"], Msg("left", 0, 0)) \in Seq(Message) /\ << >> \in Seq(Message)
  <2> HIDE DEF Message
  <2> QED
    BY <1>1, AppendProperties
<1> HIDE DEF Message
<1> QED
  BY <1>1, <1>2, <1>3 DEF Loses

LEMMA OtherTypes ==
  ASSUME TypeOK, NumberedInOrder,
         \/ PeerJoined \/ StartTalking \/ Joins \/ RelayMissesParent
         \/ \E s \in Side : Drop(s) \/ Restart(s)
  PROVE  TypeOK'
<1>1. "monitor" \in Side /\ "parent" \in Side
  BY DEF Side
<1>2. CASE PeerJoined
  <2>1. to' \in [Side -> Seq(Message)] /\ Head(to["monitor"]) \in Message
    BY <1>1, <1>2, ReceivedFacts DEF PeerJoined
  <2>2. Call("monitor", "join", 0, Head(to["monitor"]), "admitting") \in CallInFlight
    BY <2>1, <1>1 DEF Call, CallInFlight
  <2> QED
    BY <1>2, <2>1, <2>2 DEF PeerJoined, TypeOK, linkVars
<1>3. CASE StartTalking
  <2>1. Existing("parent") \in Connection /\ Existing("parent").id \in Nat \ {0}
    BY <1>1, ExistingFacts
  <2>2. pc' \in [Side -> Connection] /\ made' \in [Side -> Nat]
    BY <1>1, <1>3, <2>1, AdoptFacts DEF StartTalking
  <2>3. Call("parent", "talk", Existing("parent").id, Msg("talk", 0, 0), "mic") \in CallInFlight
    BY <1>1, <2>1, MsgFacts DEF Call, CallInFlight
  <2> QED
    BY <1>3, <2>2, <2>3 DEF StartTalking, TypeOK, linkVars
<1>4. CASE Joins \/ RelayMissesParent
  <2> HIDE DEF Message
  <2>1. ASSUME NEW msg \in Message PROVE Append(to["monitor"], msg) \in Seq(Message) /\ <<msg>> \in Seq(Message)
    BY <1>1, AppendProperties DEF TypeOK
  <2>2. Msg("joined", faults, 0) \in Message /\ Msg("left", 0, 0) \in Message
    BY MsgFacts DEF TypeOK
  <2>3. up' \in [Side -> BOOLEAN] /\ listed' \in BOOLEAN /\ history' \subseteq History
    BY <1>1, <1>4 DEF TypeOK, Joins, MonitorJoins, ParentJoins, RelayMissesParent, History
  <2>4. to' \in [Side -> Seq(Message)]
    <3>1. << >> \in Seq(Message) /\ to \in [Side -> Seq(Message)]
      BY DEF TypeOK
    <3> QED
      BY <1>1, <1>4, <2>1, <2>2, <3>1 DEF Joins, MonitorJoins, ParentJoins, RelayMissesParent
  <2> QED
    BY <1>4, <2>3, <2>4 DEF TypeOK, Joins, MonitorJoins, ParentJoins, RelayMissesParent
<1>5. ASSUME NEW s \in Side, Drop(s) PROVE TypeOK'
  BY <1>5, LosesTypes DEF Drop, TypeOK
<1>6. ASSUME NEW s \in Side, Restart(s) PROVE TypeOK'
  <2>1. NewPc(made[s] + 1, FALSE) \in Connection
    BY PcTypes DEF NewPc, Connection
  <2>2. pc' \in [Side -> Connection] /\ made' \in [Side -> Nat]
    BY <1>6, <2>1, AdoptFacts, NoPcFacts DEF Restart, TypeOK
  <2>3. calls' \subseteq CallInFlight /\ history' \subseteq History /\ talkStream' \in BOOLEAN
    BY <1>6 DEF Restart, TypeOK
  <2> QED
    BY <1>6, <2>2, <2>3, LosesTypes DEF Restart, TypeOK
<1> QED
  BY <1>2, <1>3, <1>4, <1>5, <1>6

LEMMA TypesKept == TypeOK /\ NumberedInOrder /\ [Next]_vars => TypeOK'
<1>1. TypeOK /\ UNCHANGED vars => TypeOK'
  BY DEF vars, TypeOK
<1> QED
  BY <1>1, ResolveTypes, DeliverTypes, OtherTypes DEF Next

-----------------------------------------------------------------------------
(* What steps do to connections and calls.                                 *)

Gone(s) == pc'[s].id = 0 /\ pc'[s].ready = FALSE /\ made'[s] = made[s]

Anew(s) ==
  /\ pc'[s].id = made[s] + 1 /\ made'[s] = made[s] + 1 /\ pc'[s].ready = FALSE
  /\ s = "parent" /\ talkStream' => pc'[s].talk = TRUE

Kept(s) ==
  /\ pc'[s].id = pc[s].id /\ made'[s] = made[s]
  /\ pc[s].remote # 0 => pc'[s].remote # 0
  /\ pc[s].talk = TRUE => pc'[s].talk = TRUE

\* A connection that is kept is given no candidate and answers no offer.
Waits(s) ==
  /\ pc'[s].ready = TRUE => pc[s].ready = TRUE
  /\ s = "parent" /\ pc[s].sig = "haveRemote" => pc'[s].sig = "haveRemote"

Moves(s) == Gone(s) \/ Anew(s) \/ (Kept(s) /\ Waits(s))

\* No description starts or ends being set, but for calls that end.
CallsGoOn == \A e \in calls' : e \in calls \/ (e.at # "describing" /\ e.kind # "offer")

CallsNumbered == \A e \in calls' : e \in calls \/ e.pc <= made'[e.side]

LEMMA NumberedKept ==
  ASSUME TypeOK, TypeOK', NumberedInOrder, CallsNumbered,
         \A s \in Side : Gone(s) \/ Anew(s) \/ Kept(s)
  PROVE  NumberedInOrder'
<1>1. \A s \in Side : made[s] \in Nat /\ made'[s] \in Nat /\ pc[s].id \in {0, made[s]}
  BY DEF TypeOK, NumberedInOrder
<1>2. \A s \in Side : made[s] <= made'[s] /\ pc'[s].id \in {0, made'[s]}
  BY <1>1 DEF Gone, Anew, Kept
<1>3. ASSUME NEW e \in calls' PROVE e.pc <= made'[e.side]
  <2>1. e.side \in Side /\ e.pc \in Nat
    BY <1>3 DEF TypeOK, CallInFlight
  <2> QED
    BY <1>1, <1>2, <1>3, <2>1 DEF CallsNumbered, NumberedInOrder
<1> QED
  BY <1>2, <1>3 DEF NumberedInOrder

\* A call whose connection is open after a step of its side had it open before.
LEMMA OpenBefore ==
  ASSUME TypeOK, NumberedInOrder, NEW c \in calls, c.at # "admitting", Open(c)',
         Moves(c.side) \/ Kept(c.side)
  PROVE  Open(c) /\ Kept(c.side) /\ (Moves(c.side) => Waits(c.side))
<1>1. c.side \in Side /\ c.pc \in Nat \ {0} /\ made[c.side] \in Nat /\ c.pc <= made[c.side]
  BY CallTypes, PcTypes DEF NumberedInOrder
<1>2. pc'[c.side].id = c.pc
  BY DEF Open
<1> QED
  BY <1>1, <1>2 DEF Open, Moves, Gone, Anew, Kept

LEMMA DescribingKept ==
  ASSUME TypeOK, NumberedInOrder, DescribingKnown, CallsGoOn, \A s \in Side : Moves(s)
  PROVE  DescribingKnown'
<1>1. ASSUME NEW c \in calls', c.at = "describing", Open(c)'
      PROVE  c \in calls /\ Open(c) /\ Kept(c.side) /\ Waits(c.side) /\ c.side \in Side
  <2>1. c \in calls
    BY <1>1 DEF CallsGoOn
  <2> QED
    BY <1>1, <2>1, CallTypes, OpenBefore
<1>2. ASSUME NEW c \in calls', c.at = "describing", Open(c)' PROVE pc'[c.side].remote # 0
  BY <1>1, <1>2 DEF DescribingKnown, Kept
<1>3. ASSUME NEW c \in calls', NEW e \in calls', c.side = "parent", e.side = "parent",
             c.kind = "offer", e.kind = "offer", c.pc = e.pc
      PROVE  c = e
  BY <1>3 DEF CallsGoOn, DescribingKnown
<1>4. ASSUME NEW c \in calls', c.side = "parent", c.kind = "offer", c.at = "describing", Open(c)'
      PROVE  /\ pc'["parent"].sig = "haveRemote"
             /\ \A e \in calls' : e.side = "parent" /\ e.at = "describing" /\ e.pc = c.pc => e = c
  BY <1>1, <1>4 DEF CallsGoOn, DescribingKnown, Waits
<1> QED
  BY <1>2, <1>3, <1>4 DEF DescribingKnown

LEMMA CandidatesKept ==
  ASSUME TypeOK, TypeOK', NumberedInOrder, CandidatesAwaitDescription, CallsGoOn,
         \A s \in Side : Moves(s), "late" \in history => "late" \in history'
  PROVE  CandidatesAwaitDescription'
<1> SUFFICES ASSUME "late" \notin history' PROVE CandidatesAwaitDescription'
  BY DEF CandidatesAwaitDescription
<1>1. \A s \in Side : pc[s].ready \in BOOLEAN /\ pc'[s].ready \in BOOLEAN
  BY DEF TypeOK, Connection
<1>2. ASSUME NEW s \in Side, pc'[s].ready PROVE pc[s].ready /\ Kept(s)
  BY <1>1, <1>2 DEF Moves, Gone, Anew, Waits
<1>3. ASSUME NEW s \in Side, pc'[s].ready PROVE pc'[s].remote # 0
  BY <1>2, <1>3 DEF CandidatesAwaitDescription, Kept
<1>4. ASSUME pc'["parent"].ready, NEW c \in calls', c.side = "parent", c.kind = "offer",
             c.at = "describing", Open(c)'
      PROVE  FALSE
  <2>1. c \in calls /\ "parent" \in Side
    BY <1>4 DEF CallsGoOn, Side
  <2>2. Open(c)
    BY <1>4, <2>1, OpenBefore
  <2> QED
    BY <1>2, <1>4, <2>1, <2>2 DEF CandidatesAwaitDescription
<1> QED
  BY <1>3, <1>4 DEF CandidatesAwaitDescription

-----------------------------------------------------------------------------
(* Which step does what.                                                   *)

LEMMA Stays ==
  ASSUME NEW s \in Side, pc'[s] = pc[s], made'[s] = made[s]
  PROVE  Kept(s) /\ Waits(s)
BY DEF Kept, Waits

LEMMA AdoptMoves ==
  ASSUME TypeOK, NumberedInOrder, NEW s \in Side, NEW new \in Connection, Adopt(s, new),
         talkStream' = talkStream,
         \/ /\ new.id = made[s] + 1 /\ new.ready = FALSE
            /\ s = "parent" /\ talkStream => new.talk = TRUE
         \/ /\ new.id = pc[s].id /\ (new.ready = TRUE => pc[s].ready = TRUE)
            /\ new.talk = pc[s].talk /\ (pc[s].remote # 0 => new.remote # 0)
            /\ s = "parent" /\ pc[s].sig = "haveRemote" => new.sig = "haveRemote"
  PROVE  \A t \in Side : Moves(t)
<1>1. made[s] \in Nat /\ pc[s].id \in {0, made[s]}
  BY PcTypes DEF NumberedInOrder
<1>2. ASSUME NEW t \in Side \ {s} PROVE Moves(t)
  BY <1>2, AdoptFacts, Stays DEF Moves
<1>3. pc'[s] = new /\ made'[s] = IF new.id > made[s] THEN new.id ELSE made[s]
  BY AdoptFacts
<1>4. Moves(s)
  BY <1>1, <1>3 DEF Moves, Anew, Kept, Waits
<1> QED
  BY <1>2, <1>4

LEMMA ExistingMoves ==
  ASSUME TypeOK, NumberedInOrder, NEW s \in Side, Adopt(s, Existing(s)), talkStream' = talkStream
  PROVE  (\A t \in Side : Moves(t)) /\ Existing(s).id <= made'[s]
<1>1. \A t \in Side : Moves(t)
  <2>1. CASE Existing(s) = pc[s]
    BY <2>1, AdoptMoves, ExistingFacts
  <2>2. CASE Existing(s) = Fresh(s)
    BY <2>2, AdoptMoves, ExistingFacts, FreshFacts
  <2> QED
    BY <2>1, <2>2, ExistingFacts
<1>2. Existing(s).id <= made'[s]
  <2>1. made[s] \in Nat /\ Existing(s).id \in Nat
        /\ made'[s] = IF Existing(s).id > made[s] THEN Existing(s).id ELSE made[s]
    BY PcTypes, ExistingFacts, AdoptFacts
  <2> QED
    BY <2>1
<1> QED
  BY <1>1, <1>2

QuietStep == CallsGoOn /\ CallsNumbered /\ \A s \in Side : Moves(s)

LEMMA Untouched == pc' = pc /\ made' = made => \A s \in Side : Moves(s)
BY Stays DEF Moves

LEMMA TornDownMoves ==
  ASSUME TypeOK, NEW s \in Side, pc' = [pc EXCEPT ![s] = NoPc], made' = made
  PROVE  \A t \in Side : Moves(t)
<1>1. pc'[s] = NoPc /\ \A t \in Side \ {s} : pc'[t] = pc[t]
  BY DEF TypeOK
<1> QED
  BY <1>1, NoPcFacts, Stays DEF Moves, Gone

LEMMA ResolveMoves ==
  ASSUME TypeOK, NumberedInOrder, NEW c \in calls,
         \/ CreateOfferFor(c) \/ OfferMade(c) \/ OfferFails(c) \/ MicDenied(c)
         \/ HandleSignalFails(c)
  PROVE  QuietStep
<1>1. c \in CallInFlight /\ c.side \in Side /\ "monitor" \in Side
      /\ c = Call(c.side, c.kind, c.pc, c.msg, c.at)
  BY CallTypes DEF Side
<1>2. Ends(c) => CallsGoOn /\ CallsNumbered
  BY DEF Ends, CallsGoOn, CallsNumbered
<1>3. CASE CreateOfferFor(c)
  <2>1. Adopt("monitor", Existing("monitor")) /\ talkStream' = talkStream
    BY <1>3 DEF CreateOfferFor
  <2>2. (\A t \in Side : Moves(t)) /\ Existing("monitor").id <= made'["monitor"]
    BY <1>1, <2>1, ExistingMoves
  <2> DEFINE e == [c EXCEPT !.pc = Existing("monitor").id, !.at = "offering"]
  <2>3. e.at = "offering" /\ e.kind = "join" /\ e.side = "monitor" /\ e.pc = Existing("monitor").id
    BY <1>1, <1>3 DEF CreateOfferFor, CallInFlight
  <2>4. calls' = (calls \ {c}) \cup {e}
    BY <1>3 DEF CreateOfferFor
  <2> HIDE DEF e
  <2> QED
    BY <2>2, <2>3, <2>4 DEF QuietStep, CallsGoOn, CallsNumbered
<1>4. CASE OfferMade(c)
  <2>1. CASE Open(c)
    <3>1. pc' = [pc EXCEPT ![c.side] = [pc[c.side] EXCEPT !.sig = "haveLocal", !.offer = offers + 1]]
          /\ pc[c.side].sig # "haveRemote" /\ made' = made
      BY <1>1, <1>4, <2>1 DEF OfferMade, TypeOK
    <3>2. /\ pc'[c.side] = [pc[c.side] EXCEPT !.sig = "haveLocal", !.offer = offers + 1]
          /\ \A t \in Side \ {c.side} : pc'[t] = pc[t]
      BY <1>1, <3>1 DEF TypeOK
    <3>3. pc[c.side] \in Connection
      BY <1>1, PcTypes
    <3>4. Kept(c.side) /\ Waits(c.side)
      BY <3>1, <3>2, <3>3 DEF Kept, Waits, Connection
    <3> QED
      BY <1>2, <1>4, <3>1, <3>2, <3>4, Stays DEF OfferMade, QuietStep, Moves
  <2>2. CASE ~Open(c)
    BY <1>2, <1>4, <2>2, Untouched DEF OfferMade, QuietStep
  <2> QED
    BY <2>1, <2>2
<1>5. CASE OfferFails(c)
  BY <1>1, <1>2, <1>5, Untouched, TornDownMoves DEF OfferFails, TornDown, QuietStep
<1>6. CASE MicDenied(c) \/ HandleSignalFails(c)
  BY <1>2, <1>6, Untouched DEF MicDenied, HandleSignalFails, QuietStep
<1> QED
  BY <1>3, <1>4, <1>5, <1>6

LEMMA OtherMoves ==
  ASSUME TypeOK, NumberedInOrder,
         \/ PeerJoined \/ StartTalking \/ Joins \/ RelayMissesParent
         \/ \E s \in Side : \/ PeerLeft(s) \/ CandidateSignal(s) \/ Trickle(s)
                            \/ Drop(s) \/ Restart(s)
  PROVE  QuietStep
<1>1. "monitor" \in Side /\ "parent" \in Side
  BY DEF Side
<1>2. calls' = calls => CallsGoOn /\ CallsNumbered
  BY DEF CallsGoOn, CallsNumbered
<1>3. CASE PeerJoined
  <2>1. ASSUME NEW e \in calls', e \notin calls
        PROVE e.at = "admitting" /\ e.kind = "join" /\ e.pc = 0 /\ e.side = "monitor"
    BY <1>3, <2>1 DEF PeerJoined, Call
  <2>2. made'["monitor"] \in Nat
    BY <1>1, <1>3 DEF PeerJoined, TypeOK
  <2> QED
    BY <1>3, <2>1, <2>2, Untouched DEF PeerJoined, QuietStep, CallsGoOn, CallsNumbered
<1>4. CASE StartTalking
  <2>1. (\A t \in Side : Moves(t)) /\ Existing("parent").id <= made'["parent"]
    BY <1>1, <1>4, ExistingMoves DEF StartTalking
  <2>2. ASSUME NEW e \in calls', e \notin calls
        PROVE e.at = "mic" /\ e.kind = "talk" /\ e.pc = Existing("parent").id /\ e.side = "parent"
    BY <1>4, <2>2 DEF StartTalking, Call
  <2> QED
    BY <2>1, <2>2 DEF QuietStep, CallsGoOn, CallsNumbered
<1>5. CASE Joins \/ RelayMissesParent
  BY <1>2, <1>5, Untouched DEF Joins, MonitorJoins, ParentJoins, RelayMissesParent, QuietStep
<1>6. ASSUME NEW s \in Side, PeerLeft(s) PROVE QuietStep
  BY <1>2, <1>6, TornDownMoves DEF PeerLeft, TornDown, QuietStep
<1>7. ASSUME NEW s \in Side, CandidateSignal(s) PROVE QuietStep
  <2>1. CASE pc' = pc /\ made' = made
    BY <1>2, <1>7, <2>1, Untouched DEF CandidateSignal, QuietStep
  <2>2. CASE ~(pc' = pc /\ made' = made)
    <3> DEFINE new == [Existing(s) EXCEPT !.pending = Add(s, Head(to[s]).pc)]
    <3>1. Adopt(s, new) /\ talkStream' = talkStream /\ pc'[s] = new
      BY <1>7, <2>2 DEF CandidateSignal, TypeOK, Adopt
    <3>2. /\ new.id = Existing(s).id /\ new.ready = Existing(s).ready /\ new.talk = Existing(s).talk
          /\ new.remote = Existing(s).remote /\ new.sig = Existing(s).sig
      BY ExistingFacts DEF Connection
    <3>3. new \in Connection
      BY <1>7, <3>1, DeliverTypes DEF Delivers, TypeOK
    <3> HIDE DEF new
    <3>4. CASE Existing(s) = pc[s]
      BY <3>1, <3>2, <3>3, <3>4, <1>2, <1>7, AdoptMoves DEF QuietStep, CandidateSignal
    <3>5. CASE Existing(s) = Fresh(s)
      BY <3>1, <3>2, <3>3, <3>5, <1>2, <1>7, AdoptMoves, FreshFacts DEF QuietStep, CandidateSignal
    <3> QED
      BY <3>4, <3>5, ExistingFacts
  <2> QED
    BY <2>1, <2>2
<1>8. ASSUME NEW s \in Side, Trickle(s) PROVE QuietStep
  <2>1. /\ pc'[s] = [pc[s] EXCEPT !.trickled = TRUE] /\ made' = made /\ calls' = calls
        /\ \A t \in Side \ {s} : pc'[t] = pc[t]
    BY <1>8 DEF Trickle, TypeOK
  <2>2. Kept(s) /\ Waits(s)
    BY <2>1, PcTypes DEF Kept, Waits, Connection
  <2> QED
    BY <1>2, <2>1, <2>2, Stays DEF QuietStep, Moves
<1>9. ASSUME NEW s \in Side, Drop(s) PROVE QuietStep
  BY <1>2, <1>9, Untouched DEF Drop, QuietStep
<1>10. ASSUME NEW s \in Side, Restart(s) PROVE QuietStep
  <2>1. CallsGoOn /\ CallsNumbered
    BY <1>10 DEF Restart, CallsGoOn, CallsNumbered
  <2>2. CASE s = "monitor"
    BY <1>10, <2>1, <2>2, TornDownMoves DEF Restart, QuietStep
  <2>3. CASE s = "parent"
    <3>1. Adopt(s, NewPc(made[s] + 1, FALSE)) /\ talkStream' = FALSE /\ made[s] \in Nat
      BY <1>10, <2>3, PcTypes DEF Restart
    <3>2. /\ NewPc(made[s] + 1, FALSE) \in Connection /\ NewPc(made[s] + 1, FALSE).id = made[s] + 1
          /\ NewPc(made[s] + 1, FALSE).ready = FALSE
      BY <3>1 DEF NewPc, Connection
    <3>3. Anew(s) /\ \A t \in Side \ {s} : pc'[t] = pc[t] /\ made'[t] = made[t]
      <4> DEFINE new == NewPc(made[s] + 1, FALSE)
      <4> HIDE DEF new
      <4>1. new \in Connection /\ Adopt(s, new) /\ new.id = made[s] + 1 /\ new.ready = FALSE
        BY <3>1, <3>2 DEF new
      <4>2. /\ pc'[s] = new /\ made'[s] = IF new.id > made[s] THEN new.id ELSE made[s]
            /\ \A t \in Side \ {s} : pc'[t] = pc[t] /\ made'[t] = made[t]
        BY <4>1, AdoptFacts
      <4> QED
        BY <3>1, <4>1, <4>2 DEF Anew
    <3> QED
      BY <2>1, <3>3, Stays DEF QuietStep, Moves
  <2> QED
    BY <2>2, <2>3 DEF Side
<1> QED
  BY <1>3, <1>4, <1>5, <1>6, <1>7, <1>8, <1>9, <1>10

\* The answer to an offer, and candidates given once a description is set.
ResolvedCalls(c) == MicOpens(c) \/ RemoteDescriptionSet(c) \/ LateFlush(c) \/ Answered(c)

SigsKept(c) ==
  \A s \in Side : pc'[s].sig = pc[s].sig \/ (Answered(c) /\ Open(c) /\ s = c.side)

ReadiesKept(c) ==
  \A s \in Side : \/ pc'[s].ready = TRUE => pc[s].ready = TRUE
                  \/ (RemoteDescriptionSet(c) /\ s = c.side) \/ LateFlush(c)

CallsReplaced(c) ==
  \A e \in calls' :
    \/ e \in calls
    \/ /\ e.at \in {"offering", "answering"} /\ e.side = c.side /\ e.pc = c.pc
       /\ e.kind = c.kind /\ c \notin calls'
       /\ \A f \in calls' : f \in calls \/ f = e

LEMMA ResolvedKeeps ==
  ASSUME TypeOK, NumberedInOrder, NEW c \in calls, ResolvedCalls(c)
  PROVE  (\A s \in Side : Kept(s)) /\ SigsKept(c) /\ ReadiesKept(c) /\ CallsReplaced(c)
<1>1. c \in CallInFlight /\ c.side \in Side /\ "parent" \in Side
      /\ c = Call(c.side, c.kind, c.pc, c.msg, c.at)
  BY CallTypes DEF Side
<1>2. \A s \in Side : pc[s] \in Connection
  BY PcTypes
<1>3. pc \in [Side -> Connection] /\ made' = made
  BY DEF TypeOK, ResolvedCalls, MicOpens, RemoteDescriptionSet, LateFlush, Answered
<1>4. ASSUME NEW s \in Side, NEW new, pc' = [pc EXCEPT ![s] = new], new.id = pc[s].id,
             new.remote = pc[s].remote, pc[s].talk = TRUE => new.talk = TRUE
      PROVE  (\A t \in Side : Kept(t)) /\ pc'[s] = new /\ (\A t \in Side : t # s => pc'[t] = pc[t])
  BY <1>3, <1>4 DEF Kept
<1>5. pc' = pc => \A s \in Side : Kept(s) /\ pc'[s] = pc[s]
  BY <1>3 DEF Kept
<1>6. Ends(c) => CallsReplaced(c)
  BY DEF Ends, CallsReplaced
<1>7. ASSUME NEW at \in {"offering", "answering"}, Goes(c, at), at # c.at
      PROVE  CallsReplaced(c)
  <2>1. [c EXCEPT !.at = at] = Call(c.side, c.kind, c.pc, c.msg, at)
    BY <1>1 DEF Call
  <2> QED
    BY <1>7, <2>1 DEF Goes, Call, CallsReplaced
<1>8. CASE MicOpens(c)
  <2>1. CASE Open(c)
    <3> DEFINE new == [pc["parent"] EXCEPT !.talk = TRUE]
    <3>1. /\ pc' = [pc EXCEPT !["parent"] = new] /\ new.talk = TRUE
          /\ new.id = pc["parent"].id /\ new.remote = pc["parent"].remote
          /\ new.sig = pc["parent"].sig /\ new.ready = pc["parent"].ready
      BY <1>1, <1>2, <1>3, <1>8, <2>1 DEF MicOpens, Connection
    <3>2. Goes(c, "offering") /\ c.at = "mic" /\ c.kind # "offer"
      BY <1>1, <1>8, <2>1 DEF MicOpens, CallInFlight
    <3> HIDE DEF new
    <3>3. (\A s \in Side : Kept(s)) /\ pc'["parent"] = new
          /\ (\A s \in Side : s # "parent" => pc'[s] = pc[s])
      BY <1>1, <1>4, <3>1
    <3>4. SigsKept(c) /\ ReadiesKept(c)
      BY <3>1, <3>3 DEF SigsKept, ReadiesKept
    <3> QED
      BY <1>7, <3>2, <3>3, <3>4
  <2>2. CASE ~Open(c)
    BY <1>5, <1>6, <1>8, <2>2 DEF MicOpens, SigsKept, ReadiesKept
  <2> QED
    BY <2>1, <2>2
<1>9. CASE RemoteDescriptionSet(c)
  <2> DEFINE new == [pc[c.side] EXCEPT !.ready = TRUE, !.pending = {}]
  <2>1. /\ pc' = [pc EXCEPT ![c.side] = new]
        /\ new.id = pc[c.side].id /\ new.remote = pc[c.side].remote
        /\ new.sig = pc[c.side].sig /\ new.talk = pc[c.side].talk
    <3>1. pc' = [pc EXCEPT ![c.side] = new]
      BY <1>1, <1>3, <1>9 DEF RemoteDescriptionSet
    <3> QED
      BY <3>1, <1>1, <1>2 DEF Connection
  <2>2. c.at = "describing" /\ (Goes(c, "answering") \/ Ends(c))
    BY <1>9 DEF RemoteDescriptionSet
  <2> HIDE DEF new
  <2>3. (\A s \in Side : Kept(s)) /\ pc'[c.side] = new
        /\ (\A s \in Side : s # c.side => pc'[s] = pc[s])
    BY <1>1, <1>4, <2>1
  <2>4. SigsKept(c) /\ ReadiesKept(c)
    BY <1>9, <2>1, <2>3 DEF SigsKept, ReadiesKept
  <2>5. CallsReplaced(c)
    BY <1>6, <1>7, <2>2
  <2> QED
    BY <2>3, <2>4, <2>5
<1>10. CASE LateFlush(c)
  <2> DEFINE new == [pc["parent"] EXCEPT !.ready = TRUE, !.pending = {}]
  <2>1. /\ pc' = pc \/ pc' = [pc EXCEPT !["parent"] = new]
        /\ new.id = pc["parent"].id /\ new.remote = pc["parent"].remote
        /\ new.sig = pc["parent"].sig /\ new.talk = pc["parent"].talk /\ Ends(c)
    BY <1>1, <1>2, <1>3, <1>10 DEF LateFlush, Connection
  <2> HIDE DEF new
  <2>2. (\A s \in Side : Kept(s)) /\ pc'["parent"] \in {pc["parent"], new}
        /\ (\A s \in Side : s # "parent" => pc'[s] = pc[s])
    BY <1>1, <1>4, <1>5, <2>1
  <2>3. SigsKept(c) /\ ReadiesKept(c)
    BY <1>10, <2>1, <2>2 DEF SigsKept, ReadiesKept
  <2> QED
    BY <1>6, <2>1, <2>2, <2>3
<1>11. CASE Answered(c)
  <2> DEFINE new == [pc[c.side] EXCEPT !.sig = "stable"]
  <2>1. /\ pc' = pc \/ (Open(c) /\ pc' = [pc EXCEPT ![c.side] = new])
        /\ new.id = pc[c.side].id /\ new.remote = pc[c.side].remote
        /\ new.ready = pc[c.side].ready /\ new.talk = pc[c.side].talk /\ Ends(c)
    BY <1>1, <1>2, <1>3, <1>11 DEF Answered, Connection
  <2> HIDE DEF new
  <2>2. (\A s \in Side : Kept(s)) /\ (pc'[c.side] = pc[c.side] \/ (Open(c) /\ pc'[c.side] = new))
        /\ (\A s \in Side : s # c.side => pc'[s] = pc[s])
    <3>1. CASE pc' = pc
      BY <1>1, <1>5, <3>1
    <3>2. CASE Open(c) /\ pc' = [pc EXCEPT ![c.side] = new]
      BY <1>1, <1>4, <2>1, <3>2
    <3> QED
      BY <2>1, <3>1, <3>2
  <2>3. SigsKept(c) /\ ReadiesKept(c)
    BY <1>11, <2>1, <2>2 DEF SigsKept, ReadiesKept
  <2> QED
    BY <1>6, <2>1, <2>2, <2>3
<1> QED
  BY <1>8, <1>9, <1>10, <1>11 DEF ResolvedCalls

LEMMA ResolvedDescribing ==
  ASSUME TypeOK, NumberedInOrder, DescribingKnown, NEW c \in calls, ResolvedCalls(c)
  PROVE  DescribingKnown'
<1>1. (\A s \in Side : Kept(s)) /\ SigsKept(c) /\ CallsReplaced(c)
  BY ResolvedKeeps
<1>2. ASSUME NEW x \in calls', x.at = "describing" PROVE x \in calls /\ x.side \in Side
  BY <1>1, <1>2, CallTypes DEF CallsReplaced
<1>3. ASSUME NEW x \in calls', x.at = "describing", Open(x)' PROVE Open(x) /\ pc'[x.side].remote # 0
  <2>1. Open(x)
    BY <1>1, <1>2, <1>3, OpenBefore
  <2> QED
    BY <1>1, <1>2, <1>3, <2>1 DEF DescribingKnown, Kept
<1>4. ASSUME NEW x \in calls', NEW e \in calls', x.side = "parent", e.side = "parent",
             x.kind = "offer", e.kind = "offer", x.pc = e.pc
      PROVE  x = e
  BY <1>1, <1>4 DEF CallsReplaced, DescribingKnown
<1>5. ASSUME NEW x \in calls', x.side = "parent", x.kind = "offer", x.at = "describing", Open(x)'
      PROVE  /\ pc'["parent"].sig = "haveRemote"
             /\ \A e \in calls' : e.side = "parent" /\ e.at = "describing" /\ e.pc = x.pc => e = x
  <2>1. /\ x \in calls /\ Open(x) /\ pc["parent"].sig = "haveRemote" /\ "parent" \in Side
        /\ \A e \in calls : e.side = "parent" /\ e.at = "describing" /\ e.pc = x.pc => e = x
    BY <1>2, <1>3, <1>5 DEF DescribingKnown
  <2>2. ~(Answered(c) /\ Open(c) /\ c.side = "parent")
    <3> SUFFICES ASSUME Answered(c), Open(c), c.side = "parent" PROVE FALSE
      OBVIOUS
    <3>1. c.at = "answering" /\ c.kind = "offer" /\ c.pc = x.pc
      BY <1>5, <2>1, CallTypes DEF Answered, CallInFlight, Open
    <3> QED
      BY <1>5, <2>1, <3>1 DEF DescribingKnown
  <2> QED
    BY <1>1, <1>2, <2>1, <2>2 DEF SigsKept
<1> QED
  BY <1>3, <1>4, <1>5 DEF DescribingKnown

LEMMA ResolvedCandidates ==
  ASSUME TypeOK, TypeOK', NumberedInOrder, DescribingKnown, CandidatesAwaitDescription,
         NEW c \in calls, ResolvedCalls(c)
  PROVE  CandidatesAwaitDescription'
<1> SUFFICES ASSUME "late" \notin history' PROVE CandidatesAwaitDescription'
  BY DEF CandidatesAwaitDescription
<1>1. (\A s \in Side : Kept(s)) /\ ReadiesKept(c) /\ CallsReplaced(c)
  BY ResolvedKeeps
<1>2. "late" \notin history /\ ~LateFlush(c) /\ c.side \in Side /\ "parent" \in Side
  BY CallTypes DEF ResolvedCalls, MicOpens, RemoteDescriptionSet, LateFlush, Answered, Side
<1>3. \A s \in Side : pc[s].ready \in BOOLEAN /\ pc'[s].ready \in BOOLEAN
  BY DEF TypeOK, Connection
<1>4. ASSUME NEW s \in Side, pc'[s].ready PROVE pc[s].ready \/ (RemoteDescriptionSet(c) /\ s = c.side)
  BY <1>1, <1>2, <1>3, <1>4 DEF ReadiesKept
<1>5. ASSUME NEW s \in Side, pc'[s].ready PROVE pc'[s].remote # 0
  <2>1. pc[s].remote # 0
    BY <1>2, <1>4, <1>5 DEF CandidatesAwaitDescription, DescribingKnown, RemoteDescriptionSet
  <2> QED
    BY <1>1, <2>1 DEF Kept
<1>6. ASSUME pc'["parent"].ready, NEW x \in calls', x.side = "parent", x.kind = "offer",
             x.at = "describing", Open(x)'
      PROVE  FALSE
  <2>1. x \in calls /\ Open(x)
    BY <1>1, <1>2, <1>6, OpenBefore DEF CallsReplaced
  <2>2. CASE pc["parent"].ready
    BY <1>2, <1>6, <2>1, <2>2 DEF CandidatesAwaitDescription
  <2>3. CASE RemoteDescriptionSet(c) /\ c.side = "parent"
    <3>1. c.at = "describing" /\ c.pc = x.pc
      BY <1>6, <2>1, <2>3 DEF RemoteDescriptionSet, Open
    <3>2. c = x
      BY <1>6, <2>1, <2>3, <3>1 DEF DescribingKnown
    <3>3. c \notin calls'
      <4>1. c = Call(c.side, c.kind, c.pc, c.msg, "describing") /\ [c EXCEPT !.at = "answering"] # c
        BY <3>1, CallTypes DEF Call
      <4> QED
        BY <2>3, <4>1 DEF RemoteDescriptionSet, Goes, Ends
    <3> QED
      BY <3>2, <3>3
  <2> QED
    BY <1>2, <1>4, <1>6, <2>2, <2>3
<1> QED
  BY <1>5, <1>6 DEF CandidatesAwaitDescription

\* A description that is accepted, or refused.
LEMMA SdpMoves ==
  ASSUME TypeOK, NumberedInOrder, NEW s \in Side, NEW kind \in {"offer", "answer"},
         NEW new \in Connection, NEW msg \in Message,
         new \in {pc[s], Fresh(s)}, s = "parent" /\ kind = "offer" => new = Fresh(s),
         msg.pc \in Nat \ {0}, msg.kind = kind, talkStream' = talkStream
  PROVE  /\ Adopt(s, new) => \A t \in Side : Moves(t)
         /\ SdpAccepted(s, kind, new, msg) => \A t \in Side : Moves(t)
<1>1. CASE Adopt(s, new)
  BY <1>1, AdoptMoves, FreshFacts
<1>2. CASE SdpAccepted(s, kind, new, msg)
  <2> DEFINE d == Described(new, msg)
  <2>1. /\ d \in Connection /\ d.id = new.id /\ d.remote # 0 /\ d.ready = new.ready
        /\ d.talk = new.talk
    BY DescribedFacts
  <2>2. Adopt(s, d) /\ Accepts(new.sig, kind)
    BY <1>2 DEF SdpAccepted
  <2>3. s = "parent" /\ new = pc[s] => pc[s].sig # "haveRemote" \/ new = Fresh(s)
    BY <2>2 DEF Accepts
  <2> HIDE DEF d
  <2>4. CASE new = Fresh(s)
    BY <2>1, <2>2, <2>4, AdoptMoves, FreshFacts
  <2>5. CASE new = pc[s] /\ new # Fresh(s)
    BY <2>1, <2>2, <2>3, <2>5, AdoptMoves
  <2> QED
    BY <2>4, <2>5
<1> QED
  BY <1>1, <1>2

LEMMA SdpKeeps ==
  ASSUME TypeOK, TypeOK', NumberedInOrder, DescribingKnown, CandidatesAwaitDescription,
         NEW s \in Side, NEW kind \in {"offer", "answer"}, SdpSignal(s, kind)
  PROVE  NumberedInOrder' /\ DescribingKnown' /\ CandidatesAwaitDescription'
         /\ (\A t \in Side : Moves(t)) /\ talkStream' = talkStream
         /\ ("stranded" \in history => "stranded" \in history')
<1>1. PICK new \in Connection, msg \in Message :
           /\ new \in {pc[s], Fresh(s)} /\ (s = "parent" /\ kind = "offer" => new = Fresh(s))
           /\ new.id \in Nat \ {0} /\ msg.pc \in Nat \ {0} /\ msg.kind = kind
           /\ \/ Adopt(s, new) /\ calls' = calls /\ history' = history /\ talkStream' = talkStream
              \/ /\ pc' = pc /\ made' = made /\ calls' = calls /\ history' = history
                 /\ talkStream' = talkStream
              \/ SdpAccepted(s, kind, new, msg) /\ talkStream' = talkStream
  BY SdpCases
<1>2. (\A t \in Side : Moves(t)) /\ talkStream' = talkStream
  BY <1>1, SdpMoves, Untouched
<1>3. history \subseteq history'
  BY <1>1 DEF SdpAccepted
<1>4. CASE ~SdpAccepted(s, kind, new, msg)
  <2>1. CallsGoOn /\ CallsNumbered
    BY <1>1, <1>4 DEF CallsGoOn, CallsNumbered
  <2> QED
    BY <1>2, <1>3, <2>1, NumberedKept, DescribingKept, CandidatesKept DEF Moves
<1>5. CASE SdpAccepted(s, kind, new, msg)
  <2> DEFINE call == Call(s, kind, new.id, msg, "describing")
  <2>1. /\ calls' = calls \cup {call} /\ call.side = s /\ call.kind = kind /\ call.pc = new.id
        /\ call.at = "describing" /\ Accepts(new.sig, kind)
    BY <1>5 DEF SdpAccepted, Call
  <2>2. /\ pc'[s] = Described(new, msg) /\ pc'[s].id = new.id /\ pc'[s].remote # 0
        /\ pc'[s].ready = new.ready
        /\ pc'[s].sig = IF kind = "offer" THEN "haveRemote" ELSE "stable"
        /\ made'[s] = IF new.id > made[s] THEN new.id ELSE made[s]
    BY <1>1, <1>5, DescribedFacts, AdoptFacts DEF SdpAccepted
  <2> HIDE DEF call
  <2>3. CallsNumbered
    <3>1. made[s] \in Nat /\ new.id \in Nat
      BY <1>1, PcTypes
    <3> QED
      BY <2>1, <2>2, <3>1 DEF CallsNumbered
  <2>4. NumberedInOrder'
    BY <1>2, <2>3, NumberedKept DEF Moves
  <2>5. ASSUME NEW x \in calls, x.at = "describing", Open(x)'
        PROVE  Open(x) /\ Kept(x.side) /\ Waits(x.side) /\ pc'[x.side].remote # 0 /\ x.side \in Side
    <3>1. x.side \in Side
      BY CallTypes
    <3>2. Open(x) /\ Kept(x.side) /\ Waits(x.side)
      BY <1>2, <2>5, <3>1, OpenBefore
    <3> QED
      BY <2>5, <3>1, <3>2 DEF DescribingKnown, Kept
  <2>6. ASSUME s = "parent", kind = "offer", NEW x \in calls, x.side = "parent"
        PROVE  x.pc # new.id
    <3>1. new.id = made[s] + 1 /\ made[s] \in Nat /\ x.pc \in Nat /\ x.pc <= made[s]
      BY <1>1, <2>6, FreshFacts, PcTypes, CallTypes DEF NumberedInOrder
    <3> QED
      BY <3>1
  <2>7. ASSUME s = "parent", kind = "answer", NEW x \in calls, x.side = "parent", x.kind = "offer",
               x.at = "describing", Open(x)'
        PROVE  x.pc # new.id
    <3>1. pc["parent"].sig = "haveRemote" /\ x.pc = pc["parent"].id
      BY <2>5, <2>7 DEF DescribingKnown, Open
    <3>2. new.sig = "haveLocal"
      BY <2>1, <2>7 DEF Accepts
    <3>3. new = Fresh(s)
      BY <1>1, <2>7, <3>1, <3>2
    <3> QED
      BY <2>7, <3>2, <3>3, FreshFacts
  <2>8. DescribingKnown'
    <3>1. ASSUME NEW x \in calls', x.at = "describing", Open(x)' PROVE pc'[x.side].remote # 0
      BY <2>1, <2>2, <2>5, <3>1
    <3>2. ASSUME NEW x \in calls', NEW e \in calls', x.side = "parent", e.side = "parent",
                 x.kind = "offer", e.kind = "offer", x.pc = e.pc
          PROVE  x = e
      BY <2>1, <2>6, <3>2 DEF DescribingKnown
    <3>3. ASSUME NEW x \in calls', x.side = "parent", x.kind = "offer", x.at = "describing", Open(x)'
          PROVE  /\ pc'["parent"].sig = "haveRemote"
                 /\ \A e \in calls' : e.side = "parent" /\ e.at = "describing" /\ e.pc = x.pc => e = x
      <4>1. CASE x \in calls
        <5>1. Open(x) /\ Waits("parent") /\ pc["parent"].sig = "haveRemote"
              /\ \A e \in calls : e.side = "parent" /\ e.at = "describing" /\ e.pc = x.pc => e = x
          BY <2>5, <3>3, <4>1 DEF DescribingKnown
        <5>2. call.side = "parent" => call.pc # x.pc
          BY <2>1, <2>6, <2>7, <3>3, <4>1
        <5> QED
          BY <2>1, <5>1, <5>2 DEF Waits
      <4>2. CASE x = call
        BY <2>1, <2>2, <2>6, <3>3, <4>2
      <4> QED
        BY <2>1, <4>1, <4>2
    <3> QED
      BY <3>1, <3>2, <3>3 DEF DescribingKnown
  <2>9. CandidatesAwaitDescription'
    <3> SUFFICES ASSUME "late" \notin history' PROVE CandidatesAwaitDescription'
      BY DEF CandidatesAwaitDescription
    <3>1. \A t \in Side : pc[t].ready \in BOOLEAN /\ pc'[t].ready \in BOOLEAN
      BY DEF TypeOK, Connection
    <3>2. ASSUME NEW t \in Side, pc'[t].ready PROVE pc[t].ready /\ Kept(t)
      BY <1>2, <3>1, <3>2 DEF Moves, Gone, Anew, Waits
    <3>3. ASSUME NEW t \in Side, pc'[t].ready PROVE pc'[t].remote # 0
      BY <1>3, <3>2, <3>3 DEF CandidatesAwaitDescription, Kept
    <3>4. ASSUME pc'["parent"].ready, NEW x \in calls', x.side = "parent", x.kind = "offer",
                 x.at = "describing", Open(x)'
          PROVE  FALSE
      <4>1. "parent" \in Side
        BY DEF Side
      <4>2. CASE x \in calls
        BY <1>3, <2>5, <3>2, <3>4, <4>1, <4>2 DEF CandidatesAwaitDescription
      <4>3. CASE x = call
        BY <1>1, <2>1, <2>2, <3>4, <4>1, <4>3, FreshFacts
      <4> QED
        BY <2>1, <4>2, <4>3
    <3> QED
      BY <3>3, <3>4 DEF CandidatesAwaitDescription
  <2> QED
    BY <1>2, <1>3, <2>4, <2>8, <2>9
<1> QED
  BY <1>4, <1>5

LEMMA TalkKept ==
  ASSUME TypeOK, TypeOK', TalkTrackOnConnection,
         Gone("parent") \/ Anew("parent") \/ Kept("parent"),
         talkStream' => talkStream,
         talkStream' /\ "stranded" \in history => "stranded" \in history'
  PROVE  TalkTrackOnConnection'
<1>1. pc["parent"].talk \in BOOLEAN /\ pc'["parent"].talk \in BOOLEAN
  BY DEF TypeOK, Connection, Side
<1> QED
  BY <1>1 DEF TalkTrackOnConnection, Gone, Anew, Kept

LEMMA MicKeepsTalk ==
  ASSUME TypeOK, TypeOK', NEW c \in calls, MicOpens(c)
  PROVE  TalkTrackOnConnection'
<1>1. "parent" \in Side
  BY DEF Side
<1>2. CASE Open(c)
  <2> DEFINE new == [pc["parent"] EXCEPT !.talk = TRUE]
  <2>1. pc \in [Side -> Connection] /\ pc' = [pc EXCEPT !["parent"] = new] /\ new.talk = TRUE
    <3>1. pc \in [Side -> Connection] /\ pc["parent"] \in Connection
      BY <1>1 DEF TypeOK
    <3>2. pc' = [pc EXCEPT !["parent"] = new]
      BY <1>1, <1>2, <3>1 DEF MicOpens
    <3> QED
      BY <3>1, <3>2 DEF Connection
  <2> HIDE DEF new
  <2>2. pc'["parent"].talk = TRUE
    BY <1>1, <2>1
  <2> QED
    BY <2>2 DEF TalkTrackOnConnection
<1>3. CASE ~Open(c)
  BY <1>3 DEF MicOpens, TalkTrackOnConnection
<1> QED
  BY <1>2, <1>3

-----------------------------------------------------------------------------
(* The invariant.                                                          *)

LEMMA InitHolds == Init => NegotiationInv
<1> SUFFICES ASSUME Init PROVE NegotiationInv
  OBVIOUS
<1>1. NewPc(1, FALSE) \in Connection /\ NoPc \in Connection /\ NewPc(1, FALSE).ready = FALSE
      /\ NewPc(1, FALSE).id = 1 /\ NoPc.id = 0 /\ NoPc.ready = FALSE
  BY DEF NoPc, NewPc, Connection
<1>2. /\ pc \in [Side -> Connection] /\ made \in [Side -> Nat]
      /\ \A s \in Side : pc[s].id = made[s] /\ pc[s].ready = FALSE
  BY <1>1 DEF Init
<1>3. TypeOK
  <2>1. to \in [Side -> Seq(Message)]
    <3> HIDE DEF Message
    <3> QED
      BY DEF Init
  <2>2. up \in [Side -> BOOLEAN] /\ listed \in BOOLEAN /\ talkStream \in BOOLEAN
    BY DEF Init
  <2>3. calls = {} /\ history = {} /\ offers = 0 /\ faults = 0 /\ 0 \in 0..MaxFaults
    BY NegotiationAssumption DEF Init
  <2> QED
    BY <1>2, <2>1, <2>2, <2>3 DEF TypeOK
<1>4. NumberedInOrder /\ DescribingKnown
  BY <1>2 DEF Init, NumberedInOrder, DescribingKnown
<1>5. CandidatesAwaitDescription /\ TalkTrackOnConnection
  BY <1>2 DEF Init, CandidatesAwaitDescription, TalkTrackOnConnection, Side
<1> QED
  BY <1>3, <1>4, <1>5 DEF NegotiationInv

LEMMA NextKeeps == NegotiationInv /\ [Next]_vars => NegotiationInv'
<1> SUFFICES ASSUME NegotiationInv, [Next]_vars PROVE NegotiationInv'
  OBVIOUS
<1>1. TypeOK /\ NumberedInOrder /\ DescribingKnown /\ CandidatesAwaitDescription
      /\ TalkTrackOnConnection /\ TypeOK' /\ "parent" \in Side
  BY TypesKept DEF NegotiationInv, Side
<1>2. ASSUME QuietStep, "late" \in history => "late" \in history', talkStream' => talkStream,
             talkStream' /\ "stranded" \in history => "stranded" \in history'
      PROVE  NegotiationInv'
  <2>1. CallsGoOn /\ CallsNumbered /\ (\A s \in Side : Moves(s))
        /\ \A s \in Side : Gone(s) \/ Anew(s) \/ Kept(s)
    BY <1>2 DEF QuietStep, Moves
  <2>2. NumberedInOrder' /\ DescribingKnown' /\ CandidatesAwaitDescription'
    BY <1>1, <1>2, <2>1, NumberedKept, DescribingKept, CandidatesKept
  <2>3. TalkTrackOnConnection'
    BY <1>1, <1>2, <2>1, TalkKept
  <2> QED
    BY <1>1, <2>2, <2>3 DEF NegotiationInv
<1>3. ASSUME NEW s \in Side, NEW kind \in {"offer", "answer"}, SdpSignal(s, kind)
      PROVE  NegotiationInv'
  <2>1. /\ NumberedInOrder' /\ DescribingKnown' /\ CandidatesAwaitDescription'
        /\ (\A t \in Side : Gone(t) \/ Anew(t) \/ Kept(t)) /\ talkStream' = talkStream
        /\ ("stranded" \in history => "stranded" \in history')
    BY <1>1, <1>3, SdpKeeps DEF Moves
  <2>2. TalkTrackOnConnection'
    BY <1>1, <2>1, TalkKept
  <2> QED
    BY <1>1, <2>1, <2>2 DEF NegotiationInv
<1>4. ASSUME NEW c \in calls, ResolvedCalls(c) PROVE NegotiationInv'
  <2>1. (\A s \in Side : Kept(s)) /\ CallsReplaced(c)
    BY <1>1, <1>4, ResolvedKeeps
  <2>2. CallsNumbered
    <3>1. c.pc <= made'[c.side]
      BY <1>1, <2>1, CallTypes DEF NumberedInOrder, Kept
    <3> QED
      BY <2>1, <3>1 DEF CallsReplaced, CallsNumbered
  <2>3. NumberedInOrder' /\ DescribingKnown' /\ CandidatesAwaitDescription'
    BY <1>1, <1>4, <2>1, <2>2, NumberedKept, ResolvedDescribing, ResolvedCandidates
  <2>4. TalkTrackOnConnection'
    <3>1. CASE MicOpens(c)
      BY <1>1, <3>1, MicKeepsTalk
    <3>2. CASE ~MicOpens(c)
      <4>1. talkStream' = talkStream /\ history \subseteq history'
        BY <1>4, <3>2 DEF ResolvedCalls, RemoteDescriptionSet, LateFlush, Answered
      <4> QED
        BY <1>1, <2>1, <4>1, TalkKept
    <3> QED
      BY <3>1, <3>2
  <2> QED
    BY <1>1, <2>3, <2>4 DEF NegotiationInv
<1>5. ASSUME NEW c \in calls, Resolves(c) PROVE NegotiationInv'
  <2>1. CASE ResolvedCalls(c)
    BY <1>4, <2>1
  <2>2. CASE \/ CreateOfferFor(c) \/ OfferMade(c) \/ OfferFails(c) \/ MicDenied(c)
             \/ HandleSignalFails(c)
    <3>1. talkStream' = talkStream /\ history \subseteq history'
      BY <2>2 DEF CreateOfferFor, OfferMade, OfferFails, MicDenied, HandleSignalFails
    <3> QED
      BY <1>1, <1>2, <2>2, <3>1, ResolveMoves
  <2> QED
    BY <1>5, <2>1, <2>2 DEF Resolves, ResolvedCalls
<1>6. CASE \/ PeerJoined \/ StartTalking \/ Joins \/ RelayMissesParent
           \/ \E s \in Side : \/ PeerLeft(s) \/ CandidateSignal(s) \/ Trickle(s)
                              \/ Drop(s) \/ Restart(s)
  <2>1. /\ "late" \in history => "late" \in history'
        /\ talkStream' => talkStream
        /\ talkStream' /\ "stranded" \in history => "stranded" \in history'
    BY <1>6 DEF PeerJoined, StartTalking, Joins, MonitorJoins, ParentJoins, RelayMissesParent,
                PeerLeft, CandidateSignal, Trickle, Drop, Restart
  <2> QED
    BY <1>1, <1>2, <1>6, <2>1, OtherMoves
<1>7. CASE UNCHANGED vars
  <2>1. QuietStep
    BY <1>7, Untouched DEF vars, QuietStep, CallsGoOn, CallsNumbered
  <2> QED
    BY <1>2, <1>7, <2>1 DEF vars
<1> QED
  BY <1>3, <1>5, <1>6, <1>7 DEF Next, Delivers

\* All parts of the invariant always hold.
THEOREM NegotiationInvariant == Spec => []NegotiationInv
<1> QED
  BY InitHolds, NextKeeps, PTL DEF Spec

\* The state of both ends of the negotiation keeps its types: a call waits where
\* calls of its kind do, a description on its way names its connection.
THEOREM NegotiationTypeOK == Spec => []TypeOK
<1>1. NegotiationInv => TypeOK
  BY DEF NegotiationInv
<1> QED
  BY <1>1, NegotiationInvariant, PTL

\* No candidate is given to a connection before its remote description is set
\* (IceCandidateQueue), whatever calls of replaced connections are in flight, as
\* long as none of them resolves late.
THEOREM NegotiationCandidatesAwaitDescription == Spec => []CandidatesAwaitDescription
<1>1. NegotiationInv => CandidatesAwaitDescription
  BY DEF NegotiationInv
<1> QED
  BY <1>1, NegotiationInvariant, PTL

\* While the microphone of the Parent is open every connection it has carries
\* the talk track (setupPeerConnection), however often it is replaced.
THEOREM NegotiationTalkTrackOnConnection == Spec => []TalkTrackOnConnection
<1>1. NegotiationInv => TalkTrackOnConnection
  BY DEF NegotiationInv
<1> QED
  BY <1>1, NegotiationInvariant, PTL

-----------------------------------------------------------------------------
(* Which offer the two sides agree on.                                     *)

\* No call outlived its connection, no answer was taken for another offer.
Clean == "late" \notin history /\ "crossed" \notin history

Description(msg) == msg.kind \in {"offer", "answer"}

\* No description is on its way to side s.
Drained(s) == \A i \in 1..Len(to[s]) : ~Description(to[s][i])

\* The call c answers, on side s, an offer for the connection of now.
Answering(s, c) == c \in calls /\ c.side = s /\ c.kind = "offer" /\ Open(c)

\* Offers and connections are numbered as they are made.
Numbered ==
  /\ \A s \in Side :
       /\ pc[s].offer <= offers
       /\ pc[s].id = 0 => pc[s].remote = 0 /\ pc[s].offer = 0
       /\ \A i \in 1..Len(to[s]) :
            Description(to[s][i]) => /\ to[s][i].offer \in 1..offers
                                     /\ to[s][i].pc \in 1..made[Other(s)]
  /\ pc["monitor"].remote <= made["parent"]
  /\ \A c \in calls : /\ c.kind = "offer" => c.msg.offer \in 1..offers
                      /\ c.kind = "join" => c.side = "monitor"
                      /\ c.kind = "talk" => c.side = "parent"

\* The Monitor has a connection to make an offer with it.
MonitorOffers ==
  pc["monitor"].id # 0 /\ pc["monitor"].offer = 0 =>
    \E c \in calls : c.side = "monitor" /\ c.at = "offering" /\ Open(c)

\* A side answers one offer at a time, and makes none meanwhile.
OneOffer ==
  \A s \in Side, c \in calls :
    Answering(s, c) => /\ pc[s].sig = "haveRemote"
                       /\ \A e \in calls : Answering(s, e) => e = c

\* The Monitor gets the descriptions of the Parent's connections in order, and
\* an offer with the number of the Parent's last is of its present connection.
InOrder ==
  LET s == to["monitor"]
  IN  /\ \A i, j \in 1..Len(s) :
           i < j /\ Description(s[i]) /\ Description(s[j]) => s[i].pc <= s[j].pc
      /\ \A i \in 1..Len(s) :
           s[i].kind = "offer" /\ s[i].offer = pc["parent"].offer => s[i].pc = pc["parent"].id

\* The last offer of the Monitor is not answered yet: it is on its way, behind
\* every other description; or it is being answered; or its answer is on its way.
Asked ==
  LET m == pc["monitor"]
      p == pc["parent"]
      s == to["parent"]
      t == to["monitor"]
  IN  /\ \A i \in 1..Len(s) :
           s[i].kind = "offer" /\ s[i].offer = m.offer
           => s[i].pc = m.id /\ \A j \in 1..Len(s) : i < j => ~Description(s[j])
      /\ \A c \in calls :
           Answering("parent", c) /\ c.msg.offer = m.offer
           => p.remote = m.id /\ Drained("parent")
      /\ \A i \in 1..Len(t) :
           t[i].kind = "answer" /\ t[i].offer = m.offer
           => /\ Drained("parent")
              /\ \A c \in calls : ~Answering("parent", c)
              /\ p.remote # 0 => p.remote = m.id /\ p.id = t[i].pc

\* The last offer of the Monitor was answered: no other is on its way, and what
\* the Parent has described since, it has described to this connection.
Agreed ==
  LET m == pc["monitor"]
      p == pc["parent"]
      s == to["parent"]
      t == to["monitor"]
  IN  /\ \A c \in calls : ~Answering("parent", c)
      /\ \A i \in 1..Len(s) :
           Description(s[i]) => /\ s[i].kind = "answer" /\ s[i].pc = m.id
                                /\ s[i].offer = p.offer => m.remote = p.id
      /\ \A c \in calls :
           Answering("monitor", c) /\ c.msg.offer = p.offer => m.remote = p.id
      /\ p.remote # 0 => p.remote = m.id /\ m.remote = p.id
      /\ \A i \in 1..Len(t) : Description(t[i]) => m.remote <= t[i].pc

Stage ==
  /\ pc["monitor"].sig = "haveLocal" => Asked
  /\ pc["monitor"].sig # "haveLocal" /\ pc["monitor"].offer # 0 => Agreed

PairInv == Clean => Numbered /\ MonitorOffers /\ OneOffer /\ InOrder /\ Stage

-----------------------------------------------------------------------------
(* Steps that describe nothing.                                            *)

Same(s) ==
  /\ pc'[s].id = pc[s].id /\ pc'[s].sig = pc[s].sig /\ pc'[s].offer = pc[s].offer
  /\ pc'[s].remote = pc[s].remote /\ made'[s] = made[s]

Blank(s) ==
  /\ pc'[s].sig = "stable" /\ pc'[s].offer = 0 /\ pc'[s].remote = 0
  /\ \/ pc'[s].id = 0 /\ made'[s] = made[s]
     \/ pc'[s].id = made[s] + 1 /\ made'[s] = made[s] + 1

\* What was on its way to side s is, but for the first message or all.
Thins(s) ==
  \E d \in {0, 1} : \A i \in 1..Len(to'[s]) :
    Description(to'[s][i]) => i + d \in 1..Len(to[s]) /\ to'[s][i] = to[s][i + d]

\* A call that answers an offer goes on at most.
OffersGoOn ==
  \/ \A e \in calls' : e.kind = "offer" => e \in calls
  \/ \E c \in calls : /\ c.kind = "offer"
                      /\ calls' = (calls \ {c}) \cup {[c EXCEPT !.at = "answering"]}

PlainStep ==
  /\ \A s \in Side : (Same(s) \/ Blank(s)) /\ Thins(s)
  /\ OffersGoOn /\ offers' = offers
  /\ \A e \in calls' : \/ e \in calls \/ e.kind = "offer"
                       \/ e.kind = "join" /\ e.side = "monitor"
                       \/ e.kind = "talk" /\ e.side = "parent"

LEMMA QueueFacts ==
  ASSUME TypeOK, NEW s \in Side
  PROVE  to[s] \in Seq(Message) /\ Len(to[s]) \in Nat /\ \A i \in 1..Len(to[s]) : to[s][i] \in Message
<1> HIDE DEF Message
<1> QED
  BY DEF TypeOK

LEMMA Thinned ==
  ASSUME TypeOK, NEW s \in Side
  PROVE  /\ to'[s] = to[s] => Thins(s)
         /\ to[s] # << >> /\ to'[s] = Tail(to[s]) => Thins(s)
         /\ to'[s] = << >> => Thins(s)
         /\ \A msg \in Message : ~Description(msg) /\ to'[s] = <<msg>> => Thins(s)
         /\ \A msg \in Message : ~Description(msg) /\ to'[s] = Append(to[s], msg) => Thins(s)
<1>1. to[s] \in Seq(Message) /\ Len(to[s]) \in Nat
  BY QueueFacts
<1> HIDE DEF Message
<1>2. to'[s] = to[s] => Thins(s)
  BY <1>1 DEF Thins
<1>3. ASSUME to[s] # << >>, to'[s] = Tail(to[s]) PROVE Thins(s)
  <2>1. Len(Tail(to[s])) = Len(to[s]) - 1 /\ \A i \in 1..(Len(to[s]) - 1) : Tail(to[s])[i] = to[s][i + 1]
    BY <1>1, <1>3
  <2>2. \A i \in 1..Len(to'[s]) : i + 1 \in 1..Len(to[s]) /\ to'[s][i] = to[s][i + 1]
    BY <1>1, <1>3, <2>1
  <2> QED
    BY <2>2 DEF Thins
<1>4. to'[s] = << >> => Thins(s)
  BY DEF Thins
<1>5. ASSUME NEW msg \in Message, ~Description(msg), to'[s] = <<msg>> PROVE Thins(s)
  BY <1>5 DEF Thins
<1>6. ASSUME NEW msg \in Message, ~Description(msg), to'[s] = Append(to[s], msg) PROVE Thins(s)
  <2>1. /\ Len(to'[s]) = Len(to[s]) + 1 /\ to'[s][Len(to[s]) + 1] = msg
        /\ \A i \in 1..Len(to[s]) : to'[s][i] = to[s][i]
    BY <1>1, <1>6
  <2>2. \A i \in 1..Len(to'[s]) : Description(to'[s][i]) => i + 0 \in 1..Len(to[s]) /\ to'[s][i] = to[s][i + 0]
    BY <1>1, <1>6, <2>1
  <2> QED
    BY <2>2 DEF Thins
<1> QED
  BY <1>2, <1>3, <1>4, <1>5, <1>6

LEMMA Appended ==
  ASSUME TypeOK, NEW s \in Side, NEW msg \in Message, to'[s] = Append(to[s], msg)
  PROVE  /\ Len(to'[s]) = Len(to[s]) + 1 /\ to'[s][Len(to[s]) + 1] = msg
         /\ \A i \in 1..Len(to[s]) : to'[s][i] = to[s][i]
<1>1. to[s] \in Seq(Message) /\ Len(to[s]) \in Nat
  BY QueueFacts
<1> HIDE DEF Message
<1> QED
  BY <1>1

LEMMA BlankFacts ==
  ASSUME TypeOK, NumberedInOrder, NEW s \in Side
  PROVE  /\ pc'[s] = NoPc /\ made'[s] = made[s] => Blank(s)
         /\ \A talk \in BOOLEAN, new \in Connection :
              /\ new = NewPc(made[s] + 1, talk) /\ Adopt(s, new)
              => Blank(s) /\ \A t \in Side \ {s} : Same(t)
         /\ \A new \in Connection :
              /\ Adopt(s, new) /\ new.id = Existing(s).id /\ new.sig = Existing(s).sig
              /\ new.offer = Existing(s).offer /\ new.remote = Existing(s).remote
              => (Blank(s) \/ Same(s)) /\ \A t \in Side \ {s} : Same(t)
<1>1. made[s] \in Nat /\ pc[s].id \in {0, made[s]}
  BY PcTypes DEF NumberedInOrder
<1>2. pc'[s] = NoPc /\ made'[s] = made[s] => Blank(s)
  BY DEF NoPc, NewPc, Blank
<1>3. ASSUME NEW new \in Connection, Adopt(s, new), new.id = made[s] + 1, new.sig = "stable",
             new.offer = 0, new.remote = 0
      PROVE  Blank(s) /\ \A t \in Side \ {s} : Same(t)
  BY <1>1, <1>3, AdoptFacts DEF Blank, Same
<1>4. ASSUME NEW talk \in BOOLEAN, NEW new \in Connection, new = NewPc(made[s] + 1, talk),
             Adopt(s, new)
      PROVE  Blank(s) /\ \A t \in Side \ {s} : Same(t)
  BY <1>3, <1>4 DEF NewPc
<1>5. ASSUME NEW new \in Connection, Adopt(s, new), new.id = Existing(s).id,
             new.sig = Existing(s).sig, new.offer = Existing(s).offer,
             new.remote = Existing(s).remote
      PROVE  (Blank(s) \/ Same(s)) /\ \A t \in Side \ {s} : Same(t)
  <2>1. CASE Existing(s) = pc[s] /\ pc[s].id = made[s]
    BY <1>1, <1>5, <2>1, AdoptFacts DEF Same
  <2>2. CASE Existing(s) = Fresh(s)
    <3>1. Fresh(s).id = made[s] + 1 /\ Fresh(s).sig = "stable" /\ Fresh(s).offer = 0 /\ Fresh(s).remote = 0
      BY DEF Fresh, NewPc
    <3> QED
      BY <1>3, <1>5, <2>2, <3>1
  <2> QED
    BY <2>1, <2>2, ExistingFacts
<1> QED
  BY <1>2, <1>4, <1>5

LEMMA CleanBefore ==
  ASSUME Clean', [Next]_vars
  PROVE  Clean
BY DEF Clean, Next, vars, PeerJoined, StartTalking, Joins, MonitorJoins, ParentJoins,
  RelayMissesParent, Resolves, CreateOfferFor, OfferMade, OfferFails, MicOpens, MicDenied,
  RemoteDescriptionSet, LateFlush, Answered, HandleSignalFails, Delivers, PeerLeft, SdpSignal,
  CandidateSignal, Trickle, Drop, Restart

\* What is put on its way besides descriptions.
LEMMA NoDescriptions ==
  /\ \A n, k \in Nat : /\ Msg("joined", n, k) \in Message /\ ~Description(Msg("joined", n, k))
                       /\ Msg("left", n, k) \in Message /\ ~Description(Msg("left", n, k))
                       /\ Msg("candidate", n, k) \in Message /\ ~Description(Msg("candidate", n, k))
BY MsgFacts DEF Msg, Description

LEMMA Unmoved == pc' = pc /\ made' = made => \A s \in Side : Same(s)
BY DEF Same

LEMMA PlainOthers ==
  ASSUME TypeOK, NumberedInOrder,
         \/ PeerJoined \/ StartTalking \/ Joins \/ RelayMissesParent
         \/ \E s \in Side : Drop(s) \/ Restart(s)
  PROVE  PlainStep
<1> USE DEF PlainStep
<1>1. "monitor" \in Side /\ "parent" \in Side /\ \A s \in Side : s = "monitor" \/ s = "parent"
  BY DEF Side
<1>2. to' = to => \A s \in Side : Thins(s)
  BY Thinned
<1>3. calls' \subseteq calls => OffersGoOn /\ \A e \in calls' : e \in calls
  BY DEF OffersGoOn
<1>4. CASE PeerJoined
  <2>1. \A s \in Side : Thins(s)
    BY <1>1, <1>4, Thinned DEF PeerJoined, Receives, Received, TypeOK
  <2>2. ASSUME NEW e \in calls', e \notin calls PROVE e.kind = "join" /\ e.side = "monitor"
    BY <1>4, <2>2 DEF PeerJoined, Call
  <2>3. OffersGoOn
    BY <2>2 DEF OffersGoOn
  <2> QED
    BY <1>4, <2>1, <2>2, <2>3, Unmoved DEF PeerJoined
<1>5. CASE StartTalking
  <2>1. ASSUME NEW e \in calls', e \notin calls PROVE e.kind = "talk" /\ e.side = "parent"
    BY <1>5, <2>1 DEF StartTalking, Call
  <2>2. OffersGoOn
    BY <2>1 DEF OffersGoOn
  <2>3. \A s \in Side : Same(s) \/ Blank(s)
    <3>1. Existing("parent") \in Connection /\ Adopt("parent", Existing("parent"))
      BY <1>1, <1>5, ExistingFacts DEF StartTalking
    <3>2. (Blank("parent") \/ Same("parent")) /\ \A t \in Side \ {"parent"} : Same(t)
      BY <1>1, <3>1, BlankFacts
    <3> QED
      BY <3>2
  <2> QED
    BY <1>2, <1>5, <2>1, <2>2, <2>3 DEF StartTalking
<1>6. CASE Joins \/ RelayMissesParent
  <2>1. UNCHANGED <<pc, made, calls, offers>> /\ faults \in Nat
    BY <1>6, NegotiationAssumption DEF Joins, MonitorJoins, ParentJoins, RelayMissesParent, TypeOK
  <2>2. /\ to'["parent"] = to["parent"]
        /\ \/ to'["monitor"] \in {to["monitor"], << >>, <<Msg("joined", faults, 0)>>}
           \/ to'["monitor"] = Append(to["monitor"], Msg("joined", faults, 0))
           \/ to'["monitor"] = Append(to["monitor"], Msg("left", 0, 0))
    BY <1>1, <1>6 DEF Joins, MonitorJoins, ParentJoins, RelayMissesParent, TypeOK
  <2>3. \A s \in Side : Thins(s)
    BY <1>1, <2>1, <2>2, NoDescriptions, Thinned
  <2> QED
    BY <1>3, <2>1, <2>3, Unmoved
<1>7. ASSUME NEW s \in Side, Loses(s) PROVE \A t \in Side : Thins(t)
  <2>1. \A t \in Side : to'[t] \in {to[t], << >>, Append(to[t], Msg("left", 0, 0))}
    BY <1>1, <1>7 DEF Loses, TypeOK
  <2> QED
    BY <2>1, NoDescriptions, Thinned
<1>8. ASSUME NEW s \in Side, Drop(s) PROVE PlainStep
  BY <1>3, <1>7, <1>8, Unmoved DEF Drop
<1>9. ASSUME NEW s \in Side, Restart(s) PROVE PlainStep
  <2>1. calls' \subseteq calls /\ offers' = offers /\ Loses(s)
    BY <1>9 DEF Restart
  <2>2. CASE s = "monitor"
    <3>1. pc'[s] = NoPc /\ made' = made /\ pc'["parent"] = pc["parent"]
      BY <1>1, <1>9, <2>2 DEF Restart, TypeOK
    <3>2. Blank(s) /\ Same("parent")
      BY <3>1, BlankFacts DEF Same
    <3> QED
      BY <1>1, <1>3, <1>7, <2>1, <2>2, <3>2
  <2>3. CASE s = "parent"
    <3> DEFINE new == NewPc(made[s] + 1, FALSE)
    <3>1. Adopt(s, new) /\ new \in Connection
      BY <1>9, <2>3, PcTypes DEF Restart, NewPc, Connection
    <3>2. new = NewPc(made[s] + 1, FALSE)
      OBVIOUS
    <3> HIDE DEF new
    <3>3. Blank(s) /\ \A t \in Side \ {s} : Same(t)
      BY <3>1, <3>2, BlankFacts
    <3> QED
      BY <1>3, <1>7, <2>1, <3>3
  <2> QED
    BY <1>1, <2>2, <2>3
<1> QED
  BY <1>4, <1>5, <1>6, <1>8, <1>9

\* A connection of one side changes in what the descriptions do not tell.
LEMMA Unseen ==
  ASSUME TypeOK, NEW s \in Side, NEW new, pc' = [pc EXCEPT ![s] = new], made' = made,
         new.id = pc[s].id, new.sig = pc[s].sig, new.offer = pc[s].offer, new.remote = pc[s].remote
  PROVE  \A t \in Side : Same(t)
BY DEF TypeOK, Same

LEMMA PlainResolves ==
  ASSUME TypeOK, NumberedInOrder, Clean', NEW c \in calls,
         \/ CreateOfferFor(c) \/ OfferFails(c) \/ MicOpens(c) \/ MicDenied(c)
         \/ RemoteDescriptionSet(c) \/ HandleSignalFails(c)
  PROVE  PlainStep
<1> USE DEF PlainStep
<1>1. /\ "monitor" \in Side /\ "parent" \in Side /\ c.side \in Side /\ c \in CallInFlight
      /\ \A s \in Side : pc[s] \in Connection
  BY CallTypes, PcTypes DEF Side
<1>2. to' = to => \A s \in Side : Thins(s)
  BY Thinned
<1>3. Ends(c) => OffersGoOn /\ \A e \in calls' : e \in calls
  BY DEF OffersGoOn, Ends
<1>4. CASE CreateOfferFor(c)
  <2> DEFINE e == [c EXCEPT !.pc = Existing("monitor").id, !.at = "offering"]
  <2>1. calls' = (calls \ {c}) \cup {e} /\ e.kind = "join" /\ e.side = "monitor"
    BY <1>1, <1>4 DEF CreateOfferFor, CallInFlight
  <2> HIDE DEF e
  <2>2. OffersGoOn /\ \A f \in calls' : f \in calls \/ (f.kind = "join" /\ f.side = "monitor")
    BY <2>1 DEF OffersGoOn
  <2>3. \A s \in Side : Same(s) \/ Blank(s)
    <3>1. Existing("monitor") \in Connection /\ Adopt("monitor", Existing("monitor"))
      BY <1>1, <1>4, ExistingFacts DEF CreateOfferFor
    <3>2. (Blank("monitor") \/ Same("monitor")) /\ \A t \in Side \ {"monitor"} : Same(t)
      BY <1>1, <3>1, BlankFacts
    <3> QED
      BY <3>2
  <2> QED
    BY <1>2, <1>4, <2>2, <2>3 DEF CreateOfferFor
<1>5. CASE OfferFails(c)
  <2>1. \A s \in Side : Same(s) \/ Blank(s)
    <3>1. made' = made /\ (pc' = pc \/ pc' = [pc EXCEPT !["monitor"] = NoPc])
      BY <1>5 DEF OfferFails, TornDown
    <3>2. ASSUME pc' = [pc EXCEPT !["monitor"] = NoPc] PROVE Blank("monitor") /\ Same("parent")
      BY <1>1, <3>1, <3>2, BlankFacts DEF Same, TypeOK
    <3> QED
      BY <3>1, <3>2, Unmoved DEF Side
  <2> QED
    BY <1>2, <1>3, <1>5, <2>1 DEF OfferFails
<1>6. CASE MicOpens(c)
  <2>1. \A s \in Side : Same(s)
    <3> DEFINE new == [pc["parent"] EXCEPT !.talk = TRUE]
    <3>1. made' = made /\ (pc' = pc \/ pc' = [pc EXCEPT !["parent"] = new])
      BY <1>1, <1>6 DEF MicOpens, TypeOK
    <3>2. /\ new.id = pc["parent"].id /\ new.sig = pc["parent"].sig
          /\ new.offer = pc["parent"].offer /\ new.remote = pc["parent"].remote
      BY <1>1 DEF Connection
    <3> HIDE DEF new
    <3> QED
      BY <1>1, <3>1, <3>2, Unmoved, Unseen
  <2>2. OffersGoOn /\ \A e \in calls' : e \in calls \/ (e.kind = "talk" /\ e.side = "parent")
    <3> DEFINE e == [c EXCEPT !.at = "offering"]
    <3>1. e.kind = "talk" /\ e.side = "parent"
      BY <1>1, <1>6 DEF MicOpens, CallInFlight
    <3>2. Ends(c) \/ calls' = (calls \ {c}) \cup {e}
      BY <1>6 DEF MicOpens, Goes
    <3> HIDE DEF e
    <3> QED
      BY <1>3, <3>1, <3>2 DEF OffersGoOn
  <2> QED
    BY <1>2, <1>6, <2>1, <2>2 DEF MicOpens
<1>7. CASE MicDenied(c) \/ HandleSignalFails(c)
  BY <1>2, <1>3, <1>7, Unmoved DEF MicDenied, HandleSignalFails
<1>8. CASE RemoteDescriptionSet(c)
  <2>1. \A s \in Side : Same(s)
    <3> DEFINE new == [pc[c.side] EXCEPT !.ready = TRUE, !.pending = {}]
    <3>1. made' = made /\ pc' = [pc EXCEPT ![c.side] = new]
      BY <1>1, <1>8 DEF RemoteDescriptionSet, TypeOK
    <3>2. /\ new.id = pc[c.side].id /\ new.sig = pc[c.side].sig
          /\ new.offer = pc[c.side].offer /\ new.remote = pc[c.side].remote
      BY <1>1 DEF Connection
    <3> HIDE DEF new
    <3> QED
      BY <1>1, <3>1, <3>2, Unseen
  <2>2. OffersGoOn /\ \A e \in calls' : e \in calls \/ e.kind = "offer"
    <3>1. c.kind = "offer" => [c EXCEPT !.at = "answering"].kind = "offer"
      BY <1>1 DEF CallInFlight
    <3>2. CASE c.kind = "offer"
      BY <1>8, <3>1, <3>2 DEF RemoteDescriptionSet, Goes, OffersGoOn
    <3>3. CASE c.kind # "offer"
      BY <1>3, <1>8, <3>3 DEF RemoteDescriptionSet
    <3> QED
      BY <3>2, <3>3
  <2> QED
    BY <1>2, <1>8, <2>1, <2>2 DEF RemoteDescriptionSet
<1> QED
  BY <1>4, <1>5, <1>6, <1>7, <1>8

LEMMA PlainDeliveries ==
  ASSUME TypeOK, TypeOK', NumberedInOrder, NEW s \in Side, PeerLeft(s) \/ CandidateSignal(s) \/ Trickle(s)
  PROVE  PlainStep
<1> USE DEF PlainStep
<1>1. /\ "monitor" \in Side /\ "parent" \in Side /\ Other(s) \in Side
      /\ \A t \in Side : t = s \/ t = Other(s)
  BY DEF Side, Other
<1>2. to' = to => \A t \in Side : Thins(t)
  BY Thinned
<1>3. calls' = calls => OffersGoOn /\ \A e \in calls' : e \in calls
  BY DEF OffersGoOn
<1>4. ASSUME NEW kind, Receives(s, kind), Received(s) PROVE \A t \in Side : Thins(t)
  BY <1>4, Thinned DEF Receives, Received, TypeOK
<1>5. CASE PeerLeft(s)
  <2>1. Blank(s) /\ \A t \in Side \ {s} : Same(t)
    BY <1>5, BlankFacts DEF PeerLeft, TornDown, Same, TypeOK
  <2> QED
    BY <1>3, <1>4, <1>5, <2>1 DEF PeerLeft
<1>6. CASE CandidateSignal(s)
  <2>1. \A t \in Side : Same(t) \/ Blank(t)
    <3>1. CASE pc' = pc /\ made' = made
      BY <3>1, Unmoved
    <3>2. CASE ~(pc' = pc /\ made' = made)
      <4> DEFINE new == [Existing(s) EXCEPT !.pending = Add(s, Head(to[s]).pc)]
      <4>1. Adopt(s, new) /\ pc'[s] = new
        BY <1>6, <3>2 DEF CandidateSignal, TypeOK, Adopt
      <4>2. /\ new.id = Existing(s).id /\ new.offer = Existing(s).offer
            /\ new.remote = Existing(s).remote /\ new.sig = Existing(s).sig
        BY ExistingFacts DEF Connection
      <4> HIDE DEF new
      <4>3. new \in Connection
        <5>1. pc' \in [Side -> Connection]
          BY DEF TypeOK
        <5> HIDE DEF PlainStep
        <5> QED
          BY <4>1, <5>1
      <4> QED
        BY <4>1, <4>2, <4>3, BlankFacts
    <3> QED
      BY <3>1, <3>2
  <2> QED
    BY <1>3, <1>4, <1>6, <2>1 DEF CandidateSignal
<1>7. CASE Trickle(s)
  <2>1. \A t \in Side : Same(t)
    <3> DEFINE new == [pc[s] EXCEPT !.trickled = TRUE]
    <3>1. made' = made /\ pc' = [pc EXCEPT ![s] = new]
      BY <1>7 DEF Trickle, TypeOK
    <3>2. /\ new.id = pc[s].id /\ new.sig = pc[s].sig
          /\ new.offer = pc[s].offer /\ new.remote = pc[s].remote
      BY PcTypes DEF Connection
    <3> HIDE DEF new
    <3> QED
      BY <3>1, <3>2, Unseen
  <2>2. \A t \in Side : to'[t] \in {to[t], Append(to[t], Msg("candidate", pc[s].id, 0))}
    BY <1>1, <1>7 DEF Trickle, SendSignal, TypeOK
  <2>3. \A t \in Side : Thins(t)
    BY <2>2, PcTypes, NoDescriptions, Thinned
  <2> QED
    BY <1>3, <1>7, <2>1, <2>3 DEF Trickle
<1> QED
  BY <1>5, <1>6, <1>7

-----------------------------------------------------------------------------
(* Steps that describe nothing keep the invariant.                         *)

\* The connection a call answers on after a step was there before.
LEMMA OpenStays ==
  ASSUME TypeOK, NumberedInOrder, NEW c \in calls, c.kind = "offer", NEW s \in Side, c.side = s,
         Same(s) \/ Blank(s), pc'[s].id = c.pc
  PROVE  Same(s) /\ Open(c)
<1>1. c.pc \in Nat \ {0} /\ made[s] \in Nat /\ c.pc <= made[s]
  BY CallTypes, PcTypes DEF NumberedInOrder, CallInFlight
<1> QED
  BY <1>1 DEF Same, Blank, Open

LEMMA PlainAnswering ==
  ASSUME TypeOK, NumberedInOrder, OneOffer, PlainStep
  PROVE  /\ \A e \in calls' : e.kind = "offer" => \E c \in calls : c.kind = "offer" /\ c.msg = e.msg
         /\ \A s \in Side, e \in calls' : Answering(s, e)' =>
              /\ Same(s)
              /\ \E c \in calls : Answering(s, c) /\ c.msg = e.msg
              /\ \A f \in calls' : Answering(s, f)' => f = e
<1>1. CASE \A e \in calls' : e.kind = "offer" => e \in calls
  <2>1. ASSUME NEW s \in Side, NEW e \in calls', Answering(s, e)'
        PROVE  Same(s) /\ Answering(s, e)
    <3>1. e \in calls /\ e.side = s /\ e.kind = "offer" /\ pc'[s].id = e.pc
      BY <1>1, <2>1 DEF Answering, Open
    <3> QED
      BY <3>1, OpenStays DEF PlainStep, Answering
  <2> QED
    BY <1>1, <2>1 DEF OneOffer, Answering
<1>2. ASSUME NEW c \in calls, c.kind = "offer",
             calls' = (calls \ {c}) \cup {[c EXCEPT !.at = "answering"]}
      PROVE  /\ \A e \in calls' : e.kind = "offer" => \E x \in calls : x.kind = "offer" /\ x.msg = e.msg
             /\ \A s \in Side, e \in calls' : Answering(s, e)' =>
                  /\ Same(s)
                  /\ \E x \in calls : Answering(s, x) /\ x.msg = e.msg
                  /\ \A f \in calls' : Answering(s, f)' => f = e
  <2> DEFINE d == [c EXCEPT !.at = "answering"]
  <2>1. d.kind = "offer" /\ d.msg = c.msg /\ d.side = c.side /\ d.pc = c.pc
    <3>1. c = Call(c.side, c.kind, c.pc, c.msg, c.at)
      BY CallTypes
    <3> QED
      BY <1>2, <3>1 DEF Call
  <2>2. calls' = (calls \ {c}) \cup {d}
    BY <1>2
  <2> HIDE DEF d
  <2>3. ASSUME NEW e \in calls', e.kind = "offer"
        PROVE  \E x \in calls : /\ x.kind = "offer" /\ x.msg = e.msg /\ x.side = e.side /\ x.pc = e.pc
                                /\ (e = x /\ x # c) \/ (e = d /\ x = c)
    BY <1>2, <2>1, <2>2, <2>3
  <2>4. ASSUME NEW s \in Side, NEW e \in calls', Answering(s, e)'
        PROVE  /\ Same(s)
               /\ \E x \in calls : /\ Answering(s, x) /\ x.msg = e.msg
                                   /\ (e = x /\ x # c) \/ (e = d /\ x = c)
    <3>1. e.kind = "offer" /\ e.side = s /\ pc'[s].id = e.pc
      BY <2>4 DEF Answering, Open
    <3>2. PICK x \in calls : /\ x.kind = "offer" /\ x.msg = e.msg /\ x.side = e.side /\ x.pc = e.pc
                             /\ (e = x /\ x # c) \/ (e = d /\ x = c)
      BY <2>3, <3>1
    <3>3. Same(s) /\ Open(x)
      BY <3>1, <3>2, OpenStays DEF PlainStep
    <3> QED
      BY <3>1, <3>2, <3>3 DEF Answering
  <2> QED
    BY <2>3, <2>4 DEF OneOffer
<1> QED
  BY <1>1, <1>2 DEF PlainStep, OffersGoOn

LEMMA PlainOneOffer ==
  ASSUME TypeOK, NumberedInOrder, OneOffer, PlainStep
  PROVE  OneOffer'
<1> SUFFICES ASSUME NEW s \in Side, NEW e \in calls', Answering(s, e)'
             PROVE  /\ pc'[s].sig = "haveRemote"
                    /\ \A f \in calls' : Answering(s, f)' => f = e
  BY DEF OneOffer
<1>1. /\ Same(s) /\ \E c \in calls : Answering(s, c)
      /\ \A f \in calls' : Answering(s, f)' => f = e
  BY PlainAnswering
<1> QED
  BY <1>1 DEF OneOffer, Same

LEMMA PlainNumbered ==
  ASSUME TypeOK, TypeOK', NumberedInOrder, OneOffer, Numbered, PlainStep
  PROVE  Numbered'
<1>1. "monitor" \in Side /\ "parent" \in Side /\ \A s \in Side : Other(s) \in Side
  BY DEF Side, Other
<1>2. offers' = offers /\ offers \in Nat
  BY DEF PlainStep, TypeOK
<1>3. \A s \in Side : /\ made[s] \in Nat /\ made'[s] \in Nat /\ made[s] <= made'[s]
                      /\ Same(s) \/ Blank(s)
  BY DEF PlainStep, Same, Blank, TypeOK
<1>4. ASSUME NEW s \in Side
      PROVE  pc'[s].offer <= offers' /\ (pc'[s].id = 0 => pc'[s].remote = 0 /\ pc'[s].offer = 0)
  BY <1>2, <1>3 DEF Numbered, Same, Blank
<1>5. ASSUME NEW s \in Side, NEW i \in 1..Len(to'[s]), Description(to'[s][i])
      PROVE  to'[s][i].offer \in 1..offers' /\ to'[s][i].pc \in 1..made'[Other(s)]
  <2>1. PICK d \in {0, 1} : i + d \in 1..Len(to[s]) /\ to'[s][i] = to[s][i + d]
    BY <1>5 DEF PlainStep, Thins
  <2>2. to'[s][i].offer \in 1..offers /\ to'[s][i].pc \in 1..made[Other(s)]
    BY <1>5, <2>1 DEF Numbered
  <2> QED
    BY <1>1, <1>2, <1>3, <2>2
<1>6. pc'["monitor"].remote <= made'["parent"]
  <2>1. pc["monitor"].remote \in Nat /\ pc["monitor"].remote <= made["parent"]
    BY <1>1, PcTypes DEF Numbered
  <2> QED
    BY <1>1, <1>3, <2>1 DEF Same, Blank
<1>7. ASSUME NEW e \in calls'
      PROVE  /\ e.kind = "offer" => e.msg.offer \in 1..offers'
             /\ e.kind = "join" => e.side = "monitor"
             /\ e.kind = "talk" => e.side = "parent"
  <2>1. e.kind = "offer" => \E c \in calls : c.kind = "offer" /\ c.msg = e.msg
    BY PlainAnswering
  <2> QED
    BY <1>2, <2>1 DEF PlainStep, Numbered
<1> QED
  BY <1>4, <1>5, <1>6, <1>7 DEF Numbered, Description

LEMMA PlainInOrder ==
  ASSUME TypeOK, NumberedInOrder, Numbered, InOrder, PlainStep
  PROVE  InOrder'
<1> DEFINE s == to["monitor"]
           t == to'["monitor"]
<1>1. "monitor" \in Side /\ "parent" \in Side
  BY DEF Side
<1>2. PICK d \in {0, 1} :
        \A i \in 1..Len(t) : Description(t[i]) => i + d \in 1..Len(s) /\ t[i] = s[i + d]
  BY <1>1 DEF PlainStep, Thins
<1>3. ASSUME NEW i \in 1..Len(t), NEW j \in 1..Len(t), i < j, Description(t[i]), Description(t[j])
      PROVE  t[i].pc <= t[j].pc
  <2>1. /\ i + d \in 1..Len(s) /\ t[i] = s[i + d] /\ j + d \in 1..Len(s) /\ t[j] = s[j + d]
        /\ i + d < j + d
    BY <1>2, <1>3
  <2> HIDE DEF s, t
  <2> QED
    BY <1>3, <2>1 DEF InOrder, s
<1>4. ASSUME NEW i \in 1..Len(t), t[i].kind = "offer", t[i].offer = pc'["parent"].offer
      PROVE  t[i].pc = pc'["parent"].id
  <2>1. i + d \in 1..Len(s) /\ t[i] = s[i + d] /\ Description(t[i])
    BY <1>2, <1>4 DEF Description
  <2>2. t[i].offer \in 1..offers
    BY <1>1, <2>1 DEF Numbered
  <2>3. Same("parent")
    BY <1>1, <1>4, <2>2 DEF PlainStep, Blank
  <2> QED
    BY <1>4, <2>1, <2>3 DEF InOrder, Same
<1> QED
  BY <1>3, <1>4 DEF InOrder, Description

LEMMA PlainStage ==
  ASSUME TypeOK, NumberedInOrder, Numbered, OneOffer, Stage, PlainStep
  PROVE  Stage'
<1>1. "monitor" \in Side /\ "parent" \in Side
  BY DEF Side
<1>2. ASSUME NEW s \in Side, NEW i \in 1..Len(to'[s]), Description(to'[s][i])
      PROVE  \E k \in 1..Len(to[s]) : to[s][k] = to'[s][i]
  BY <1>2 DEF PlainStep, Thins
<1>3. ASSUME NEW s \in Side, Drained(s)
      PROVE  Drained(s)'
  BY <1>2, <1>3 DEF Drained, Description
<1>4. ASSUME NEW s \in Side, NEW e \in calls', Answering(s, e)'
      PROVE  Same(s) /\ \E c \in calls : Answering(s, c) /\ c.msg = e.msg
  BY <1>4, PlainAnswering
<1>5. ASSUME NEW s \in Side, NEW i \in 1..Len(to'[s]), Description(to'[s][i])
      PROVE  to'[s][i].offer \in 1..offers
  BY <1>2, <1>5 DEF Numbered
<1>6. Same("parent") \/ Blank("parent")
  BY <1>1 DEF PlainStep
<1>7. ASSUME pc'["monitor"].sig = "haveLocal"
      PROVE  Asked'
  <2>1. Same("monitor") /\ Asked
    BY <1>1, <1>7 DEF PlainStep, Same, Blank, Stage
  <2> DEFINE m == pc["monitor"]
             s == to'["parent"]
             t == to'["monitor"]
  <2>2. ASSUME NEW i \in 1..Len(s), s[i].kind = "offer", s[i].offer = m.offer
        PROVE  s[i].pc = m.id /\ \A j \in 1..Len(s) : i < j => ~Description(s[j])
    <3> DEFINE u == to["parent"]
    <3>1. PICK d \in {0, 1} :
            \A k \in 1..Len(s) : Description(s[k]) => k + d \in 1..Len(u) /\ s[k] = u[k + d]
      BY <1>1 DEF PlainStep, Thins
    <3>2. i + d \in 1..Len(u) /\ s[i] = u[i + d]
      BY <2>2, <3>1 DEF Description
    <3>3. u[i + d].pc = m.id /\ \A j \in 1..Len(u) : i + d < j => ~Description(u[j])
      BY <2>1, <2>2, <3>2 DEF Asked
    <3>4. ASSUME NEW j \in 1..Len(s), i < j, Description(s[j]) PROVE FALSE
      <4>1. j + d \in 1..Len(u) /\ s[j] = u[j + d] /\ i + d < j + d
        BY <3>1, <3>4
      <4> QED
        BY <3>3, <3>4, <4>1
    <3> QED
      BY <3>2, <3>3, <3>4
  <2>3. ASSUME NEW e \in calls', Answering("parent", e)', e.msg.offer = m.offer
        PROVE  pc'["parent"].remote = m.id /\ Drained("parent")'
    <3>1. PICK c \in calls : Answering("parent", c) /\ c.msg = e.msg
      BY <1>1, <1>4, <2>3
    <3>2. pc["parent"].remote = m.id /\ Drained("parent") /\ Same("parent")
      BY <1>1, <1>4, <2>1, <2>3, <3>1 DEF Asked
    <3> QED
      BY <1>1, <1>3, <3>2 DEF Same
  <2>4. ASSUME NEW i \in 1..Len(t), t[i].kind = "answer", t[i].offer = m.offer
        PROVE  /\ Drained("parent")'
               /\ \A e \in calls' : ~Answering("parent", e)'
               /\ pc'["parent"].remote # 0 => pc'["parent"].remote = m.id /\ pc'["parent"].id = t[i].pc
    <3>1. PICK k \in 1..Len(to["monitor"]) : to["monitor"][k] = t[i]
      BY <1>1, <1>2, <2>4 DEF Description
    <3>2. /\ Drained("parent") /\ \A c \in calls : ~Answering("parent", c)
          /\ pc["parent"].remote # 0 => pc["parent"].remote = m.id /\ pc["parent"].id = t[i].pc
      BY <2>1, <2>4, <3>1 DEF Asked
    <3> QED
      BY <1>1, <1>3, <1>4, <1>6, <3>2 DEF Same, Blank
  <2> QED
    BY <2>1, <2>2, <2>3, <2>4 DEF Asked, Same, Description
<1>8. ASSUME pc'["monitor"].sig # "haveLocal", pc'["monitor"].offer # 0
      PROVE  Agreed'
  <2>1. Same("monitor") /\ Agreed
    BY <1>1, <1>8 DEF PlainStep, Same, Blank, Stage
  <2> DEFINE m == pc["monitor"]
             s == to'["parent"]
             t == to'["monitor"]
  <2>2. \A e \in calls' : ~Answering("parent", e)'
    BY <1>1, <1>4, <2>1 DEF Agreed
  <2>3. ASSUME NEW i \in 1..Len(s), Description(s[i])
        PROVE  /\ s[i].kind = "answer" /\ s[i].pc = m.id
               /\ s[i].offer = pc'["parent"].offer => m.remote = pc'["parent"].id
    <3>1. PICK k \in 1..Len(to["parent"]) : to["parent"][k] = s[i]
      BY <1>1, <1>2, <2>3
    <3>2. /\ s[i].kind = "answer" /\ s[i].pc = m.id
          /\ s[i].offer = pc["parent"].offer => m.remote = pc["parent"].id
      BY <2>1, <2>3, <3>1 DEF Agreed
    <3>3. s[i].offer # 0
      BY <1>1, <1>5, <2>3
    <3> QED
      BY <1>6, <3>2, <3>3 DEF Same, Blank
  <2>4. ASSUME NEW e \in calls', Answering("monitor", e)', e.msg.offer = pc'["parent"].offer
        PROVE  m.remote = pc'["parent"].id
    <3>1. PICK c \in calls : Answering("monitor", c) /\ c.msg = e.msg
      BY <1>1, <1>4, <2>4
    <3>2. e.msg.offer \in 1..offers
      BY <3>1 DEF Numbered, Answering
    <3>3. Same("parent")
      BY <1>6, <2>4, <3>2 DEF Blank
    <3> QED
      BY <2>1, <2>4, <3>1, <3>3 DEF Agreed, Same
  <2>5. pc'["parent"].remote # 0 => pc'["parent"].remote = m.id /\ m.remote = pc'["parent"].id
    BY <1>6, <2>1 DEF Agreed, Same, Blank
  <2>6. ASSUME NEW i \in 1..Len(t), Description(t[i])
        PROVE  m.remote <= t[i].pc
    BY <1>1, <1>2, <2>1, <2>6 DEF Agreed
  <2> QED
    BY <2>1, <2>2, <2>3, <2>4, <2>5, <2>6 DEF Agreed, Same, Description
<1> QED
  BY <1>7, <1>8 DEF Stage

-----------------------------------------------------------------------------
(* Steps that make, take or answer an offer.                               *)

\* Side s put msg on its way to the other, or it was lost.
Sent(s, msg) ==
  LET t == Other(s)
  IN  /\ to'[s] = to[s]
      /\ \/ to'[t] = to[t]
         \/ /\ Len(to'[t]) = Len(to[t]) + 1 /\ to'[t][Len(to[t]) + 1] = msg
            /\ \A i \in 1..Len(to[t]) : to'[t][i] = to[t][i]

LEMMA SendIsSent ==
  ASSUME TypeOK, NEW s \in Side, NEW msg \in Message, SendSignal(s, msg)
  PROVE  Sent(s, msg)
<1>1. Other(s) \in Side /\ Other(s) # s
  BY DEF Side, Other
<1>2. to'[s] = to[s] /\ (to'[Other(s)] = to[Other(s)] \/ to'[Other(s)] = Append(to[Other(s)], msg))
  BY <1>1 DEF SendSignal, TypeOK
<1> QED
  BY <1>1, <1>2, Appended DEF Sent

Offered(c) ==
  LET s == c.side
      t == Other(s)
  IN  /\ s \in Side /\ Open(c) /\ c.kind # "offer" /\ pc[s].sig # "haveRemote"
      /\ pc'[s].id = pc[s].id /\ pc'[s].remote = pc[s].remote
      /\ pc'[s].sig = "haveLocal" /\ pc'[s].offer = offers + 1 /\ offers' = offers + 1
      /\ pc'[t] = pc[t] /\ made' = made /\ calls' = calls \ {c}
      /\ Sent(s, Msg("offer", c.pc, offers + 1)) /\ c.pc \in 1..made[s]

LEMMA OfferFacts ==
  ASSUME TypeOK, NumberedInOrder, NEW c \in calls, OfferMade(c), Clean'
  PROVE  Offered(c)
<1>1. /\ c \in CallInFlight /\ c.side \in Side /\ Other(c.side) \in Side /\ Other(c.side) # c.side
      /\ pc[c.side] \in Connection /\ made[c.side] \in Nat
  BY CallTypes, PcTypes DEF Side, Other
<1>2. Open(c) /\ pc[c.side].sig \in {"stable", "haveLocal"}
  BY DEF OfferMade, Clean
<1>3. c.pc \in 1..made[c.side] /\ c.kind # "offer" /\ offers \in Nat
  BY <1>1 DEF OfferMade, CallInFlight, NumberedInOrder, TypeOK
<1>4. Sent(c.side, Msg("offer", c.pc, offers + 1))
  BY <1>1, <1>3, MsgFacts, SendIsSent DEF OfferMade
<1>5. /\ pc'[c.side] = [pc[c.side] EXCEPT !.sig = "haveLocal", !.offer = offers + 1]
      /\ pc'[Other(c.side)] = pc[Other(c.side)]
  <2> DEFINE new == [pc[c.side] EXCEPT !.sig = "haveLocal", !.offer = offers + 1]
  <2>1. pc' = [pc EXCEPT ![c.side] = new]
    BY <1>1, <1>2 DEF OfferMade, TypeOK
  <2> HIDE DEF new
  <2>2. pc'[c.side] = new /\ pc'[Other(c.side)] = pc[Other(c.side)]
    BY <1>1, <2>1 DEF TypeOK
  <2> QED
    BY <2>2 DEF new
<1>6. offers' = offers + 1 /\ made' = made /\ calls' = calls \ {c}
  BY DEF OfferMade, Ends
<1> QED
  BY <1>1, <1>2, <1>3, <1>4, <1>5, <1>6 DEF Offered, Connection

Answers(c) ==
  LET s == c.side
      t == Other(s)
  IN  /\ s \in Side /\ Answering(s, c)
      /\ pc'[s].id = pc[s].id /\ pc'[s].remote = pc[s].remote
      /\ pc'[s].sig = "stable" /\ pc'[s].offer = pc[s].offer /\ offers' = offers
      /\ pc'[t] = pc[t] /\ made' = made /\ calls' = calls \ {c}
      /\ Sent(s, Msg("answer", c.pc, c.msg.offer)) /\ c.pc \in 1..made[s]

LEMMA AnswerFacts ==
  ASSUME TypeOK, NumberedInOrder, NEW c \in calls, Answered(c), Clean'
  PROVE  Answers(c)
<1>1. /\ c \in CallInFlight /\ c.side \in Side /\ Other(c.side) \in Side /\ Other(c.side) # c.side
      /\ pc[c.side] \in Connection /\ made[c.side] \in Nat
  BY CallTypes, PcTypes DEF Side, Other
<1>2. Open(c)
  BY DEF Answered, Clean
<1>3. c.pc \in 1..made[c.side] /\ c.kind = "offer" /\ c.msg.offer \in Nat
  BY <1>1 DEF Answered, CallInFlight, NumberedInOrder, Message
<1>4. Sent(c.side, Msg("answer", c.pc, c.msg.offer))
  BY <1>1, <1>3, MsgFacts, SendIsSent DEF Answered
<1>5. /\ pc'[c.side] = [pc[c.side] EXCEPT !.sig = "stable"]
      /\ pc'[Other(c.side)] = pc[Other(c.side)]
  <2> DEFINE new == [pc[c.side] EXCEPT !.sig = "stable"]
  <2>1. pc' = [pc EXCEPT ![c.side] = new]
    BY <1>1, <1>2 DEF Answered, TypeOK
  <2> HIDE DEF new
  <2>2. pc'[c.side] = new /\ pc'[Other(c.side)] = pc[Other(c.side)]
    BY <1>1, <2>1 DEF TypeOK
  <2> QED
    BY <2>2 DEF new
<1>6. offers' = offers /\ made' = made /\ calls' = calls \ {c}
  BY DEF Answered, Ends
<1> QED
  BY <1>1, <1>2, <1>3, <1>4, <1>5, <1>6 DEF Answers, Answering, Connection

\* Side s takes a description.
Takes(s, kind, msg) ==
  LET t == Other(s)
  IN  /\ Len(to[s]) \in Nat \ {0} /\ msg = to[s][1] /\ msg.kind = kind /\ to'[t] = to[t]
      /\ \A i \in 1..Len(to'[s]) : i + 1 \in 1..Len(to[s]) /\ to'[s][i] = to[s][i + 1]
      /\ pc'[t] = pc[t] /\ made'[t] = made[t] /\ offers' = offers
      /\ pc'[s].remote = msg.pc /\ pc'[s].id # 0
      /\ calls' = calls \cup {Call(s, kind, pc'[s].id, msg, "describing")}

\* An answer to the last offer of the connection; an offer for a connection
\* made for it; an offer for a connection that has none pending.
TakesAnswer(s) ==
  /\ pc'[s].id = pc[s].id /\ pc'[s].offer = pc[s].offer /\ made'[s] = made[s]
  /\ pc[s].sig = "haveLocal" /\ pc'[s].sig = "stable" /\ to[s][1].offer = pc[s].offer

TakesOfferAnew(s) ==
  /\ pc'[s].id = made[s] + 1 /\ pc'[s].offer = 0 /\ made'[s] = made[s] + 1
  /\ pc'[s].sig = "haveRemote"

TakesOffer(s) ==
  /\ pc'[s].id = pc[s].id /\ pc'[s].offer = pc[s].offer /\ made'[s] = made[s]
  /\ pc[s].sig = "stable" /\ pc'[s].sig = "haveRemote"

Took(s, kind) ==
  /\ Takes(s, kind, to[s][1])
  /\ \/ kind = "answer" /\ TakesAnswer(s)
     \/ kind = "offer" /\ s = "parent" /\ TakesOfferAnew(s)
     \/ kind = "offer" /\ s = "monitor" /\ TakesOffer(s)

LEMMA SdpFacts ==
  ASSUME TypeOK, TypeOK', NumberedInOrder, Clean', NEW s \in Side, NEW kind \in {"offer", "answer"},
         SdpSignal(s, kind)
  PROVE  \/ PlainStep /\ (s = "monitor" => pc' = pc)
         \/ Took(s, kind)
<1> DEFINE new == PcFor(s, kind)
           msg == Head(to[s])
<1>1. /\ Other(s) \in Side /\ Other(s) # s /\ \A t \in Side : t = s \/ t = Other(s)
      /\ made[s] \in Nat /\ pc[s].id \in {0, made[s]}
  BY PcTypes DEF Side, Other, NumberedInOrder
<1>2. /\ Len(to[s]) \in Nat \ {0} /\ msg = to[s][1] /\ msg.kind = kind /\ to'[Other(s)] = to[Other(s)]
      /\ \A i \in 1..Len(to'[s]) : i + 1 \in 1..Len(to[s]) /\ to'[s][i] = to[s][i + 1]
      /\ to[s] # << >> /\ to'[s] = Tail(to[s])
  <2>1. /\ to[s] \in Seq(Message) /\ to[s] # << >> /\ to'[s] = Tail(to[s]) /\ msg.kind = kind
        /\ to'[Other(s)] = to[Other(s)]
    BY <1>1 DEF SdpSignal, Receives, Received, TypeOK
  <2> HIDE DEF Message
  <2> QED
    BY <2>1
<1>3. /\ new \in Connection /\ msg \in Message
      /\ \/ kind = "offer" /\ s = "parent" /\ new = Fresh(s)
         \/ kind = "answer" /\ (new = Fresh(s) \/ (new = pc[s] /\ pc[s].id # 0))
         \/ kind = "offer" /\ s = "monitor" /\ new = Existing(s)
  BY ReceivedFacts, FreshFacts, ExistingFacts DEF SdpSignal, PcFor, Side
<1>4. Fresh(s) = NewPc(made[s] + 1, s = "parent" /\ talkStream) /\ Fresh(s).id = made[s] + 1
      /\ Fresh(s).sig = "stable" /\ Fresh(s).offer = 0
  BY FreshFacts DEF Fresh, NewPc
<1>5. CASE (s = "monitor" /\ pc[s].id = 0) \/ ~Accepts(new.sig, kind)
  <2>1. calls' = calls /\ offers' = offers
    BY <1>5 DEF SdpSignal
  <2>2. \A t \in Side : Same(t) \/ Blank(t)
    <3>1. CASE s = "monitor"
      BY <1>5, <3>1, Unmoved DEF SdpSignal
    <3>2. CASE s = "parent"
      <4>1. Adopt(s, new)
        BY <1>5, <3>2 DEF SdpSignal
      <4>2. CASE new = Existing(s)
        BY <1>3, <4>1, <4>2, BlankFacts
      <4>3. CASE new = Fresh(s)
        <5>1. Fresh(s).remote = 0
          BY FreshFacts
        <5>2. Blank(s) /\ \A t \in Side \ {s} : Same(t)
          <6>1. new.id = made[s] + 1 /\ new.sig = "stable" /\ new.offer = 0 /\ new.remote = 0
            BY <1>4, <4>3, <5>1
          <6> HIDE DEF new
          <6>2. /\ pc'[s] = new /\ made'[s] = IF new.id > made[s] THEN new.id ELSE made[s]
                /\ \A t \in Side \ {s} : pc'[t] = pc[t] /\ made'[t] = made[t]
            BY <1>3, <4>1, AdoptFacts
          <6> QED
            BY <1>1, <6>1, <6>2 DEF Blank, Same
        <5> QED
          BY <5>2
      <4> QED
        BY <4>2, <4>3 DEF PcFor
    <3> QED
      BY <3>1, <3>2 DEF Side
  <2>3. \A t \in Side : Thins(t)
    BY <1>1, <1>2, Thinned
  <2>4. OffersGoOn
    BY <2>1 DEF OffersGoOn
  <2>5. s = "monitor" => pc' = pc
    BY <1>5 DEF SdpSignal
  <2> QED
    BY <2>1, <2>2, <2>3, <2>4, <2>5 DEF PlainStep
<1>6. CASE ~((s = "monitor" /\ pc[s].id = 0) \/ ~Accepts(new.sig, kind))
  <2>1. /\ Adopt(s, Described(new, msg)) /\ Accepts(new.sig, kind) /\ offers' = offers
        /\ calls' = calls \cup {Call(s, kind, new.id, msg, "describing")}
        /\ kind = "answer" /\ msg.offer # new.offer => "crossed" \in history'
    BY <1>6 DEF SdpSignal
  <2>2. kind = "answer" => msg.offer = new.offer
    BY <2>1 DEF Clean
  <2>3. new.id \in Nat \ {0}
    BY <1>1, <1>3, <1>4, ExistingFacts
  <2> DEFINE d == Described(new, msg)
  <2>4. /\ d \in Connection /\ d.id = new.id /\ d.remote = msg.pc /\ d.offer = new.offer
        /\ d.sig = IF kind = "offer" THEN "haveRemote" ELSE "stable"
    <3>1. d \in Connection /\ d.id = new.id /\ d.remote = msg.pc
          /\ d.sig = IF kind = "offer" THEN "haveRemote" ELSE "stable"
      BY <1>2, <1>3, DescribedFacts
    <3>2. d.offer = new.offer
      BY <1>3 DEF Described, Connection
    <3> QED
      BY <3>1, <3>2
  <2>5. /\ pc'[s] = d /\ made'[s] = IF d.id > made[s] THEN d.id ELSE made[s]
        /\ pc'[Other(s)] = pc[Other(s)] /\ made'[Other(s)] = made[Other(s)]
    <3> HIDE DEF d
    <3>1. Adopt(s, d)
      BY <2>1 DEF d
    <3> QED
      BY <1>1, <2>4, <3>1, AdoptFacts
  <2> HIDE DEF new, msg, d
  <2>6. Takes(s, kind, to[s][1])
    BY <1>2, <2>1, <2>3, <2>4, <2>5 DEF Takes
  <2>7. CASE kind = "answer"
    <3>1. new.sig = "haveLocal"
      BY <2>1, <2>7 DEF Accepts
    <3>2. new = pc[s] /\ pc[s].id = made[s]
      BY <1>1, <1>3, <1>4, <2>7, <3>1
    <3> QED
      BY <1>1, <1>2, <2>2, <2>4, <2>5, <2>6, <2>7, <3>1, <3>2 DEF TakesAnswer, Took
  <2>8. CASE kind = "offer" /\ s = "parent"
    <3>1. new = Fresh(s)
      BY <1>3, <2>8
    <3> QED
      BY <1>1, <1>4, <2>4, <2>5, <2>6, <2>8, <3>1 DEF TakesOfferAnew, Took
  <2>9. CASE kind = "offer" /\ s = "monitor"
    <3>1. new = pc[s] /\ pc[s].id = made[s] /\ new.sig = "stable"
      BY <1>1, <1>3, <1>6, <2>1, <2>9 DEF Existing, Accepts
    <3> QED
      BY <1>1, <2>4, <2>5, <2>6, <2>9, <3>1 DEF TakesOffer, Took
  <2> QED
    BY <2>6, <2>7, <2>8, <2>9 DEF Side, Took
<1> QED
  BY <1>5, <1>6

LEMMA OfferedKeeps ==
  ASSUME TypeOK, NumberedInOrder, Numbered, OneOffer, InOrder, Stage, NEW c \in calls, Offered(c)
  PROVE  Numbered' /\ OneOffer' /\ InOrder' /\ Stage'
<1> DEFINE s == c.side
           t == Other(s)
           msg == Msg("offer", c.pc, offers + 1)
<1>1. /\ s \in Side /\ t \in Side /\ t # s /\ \A u \in Side : (u = s \/ u = t) /\ Other(u) \in Side
      /\ \A u \in Side : made[u] \in Nat /\ pc[u].id \in {0, made[u]} /\ Len(to[u]) \in Nat
      /\ (s = "monitor" /\ t = "parent") \/ (s = "parent" /\ t = "monitor")
      /\ offers \in Nat /\ Other(t) = s
  BY QueueFacts DEF Offered, Side, Other, NumberedInOrder, TypeOK
<1>2. msg.kind = "offer" /\ msg.pc = c.pc /\ msg.offer = offers + 1
  BY DEF Msg
<1>3. /\ c.pc = pc[s].id /\ c.pc = made[s] /\ c.pc \in 1..made[s] /\ pc[s].sig # "haveRemote"
      /\ pc'[s].id = pc[s].id /\ pc'[s].remote = pc[s].remote /\ pc'[s].sig = "haveLocal"
      /\ pc'[s].offer = offers + 1 /\ offers' = offers + 1 /\ pc'[t] = pc[t] /\ made' = made
      /\ \A e \in calls' : e \in calls
  BY <1>1 DEF Offered, Open
<1>4. /\ to'[s] = to[s] /\ Len(to'[t]) \in Nat
      /\ \A i \in 1..Len(to'[t]) : \/ i \in 1..Len(to[t]) /\ to'[t][i] = to[t][i]
                                   \/ i = Len(to'[t]) /\ i > Len(to[t]) /\ to'[t][i] = msg
  BY <1>1 DEF Offered, Sent
<1> HIDE DEF msg
<1>5. ASSUME NEW u \in Side, NEW e \in calls', Answering(u, e)' PROVE Answering(u, e) /\ u = t
  <2>1. Answering(u, e)
    BY <1>1, <1>3, <1>5 DEF Answering, Open
  <2> QED
    BY <1>1, <1>3, <2>1 DEF OneOffer, Answering
<1>6. Numbered'
  <2>1. ASSUME NEW u \in Side
        PROVE  pc'[u].offer <= offers' /\ (pc'[u].id = 0 => pc'[u].remote = 0 /\ pc'[u].offer = 0)
    <3>1. pc[u].offer \in Nat /\ pc[u].offer <= offers
      BY PcTypes DEF Numbered, Connection
    <3>2. CASE u = s
      BY <1>1, <1>3, <3>2
    <3>3. CASE u = t
      BY <1>1, <1>3, <3>1, <3>3 DEF Numbered
    <3> QED
      BY <1>1, <3>2, <3>3
  <2>2. ASSUME NEW u \in Side, NEW i \in 1..Len(to'[u]), Description(to'[u][i])
        PROVE  to'[u][i].offer \in 1..offers' /\ to'[u][i].pc \in 1..made'[Other(u)]
    <3>1. CASE i \in 1..Len(to[u]) /\ to'[u][i] = to[u][i]
      <4>1. to[u][i].offer \in 1..offers /\ to[u][i].pc \in 1..made[Other(u)]
        BY <2>2, <3>1 DEF Numbered
      <4> QED
        BY <1>1, <1>3, <3>1, <4>1
    <3>2. CASE u = t /\ to'[t][i] = msg
      BY <1>1, <1>2, <1>3, <3>2
    <3> QED
      BY <1>1, <1>4, <3>1, <3>2
  <2>3. pc'["monitor"].remote <= made'["parent"]
    BY <1>1, <1>3 DEF Numbered
  <2>4. ASSUME NEW e \in calls'
        PROVE  /\ e.kind = "offer" => e.msg.offer \in 1..offers'
               /\ e.kind = "join" => e.side = "monitor"
               /\ e.kind = "talk" => e.side = "parent"
    BY <1>1, <1>3 DEF Numbered
  <2> QED
    BY <2>1, <2>2, <2>3, <2>4 DEF Numbered, Description
<1>7. OneOffer'
  BY <1>3, <1>5 DEF OneOffer
<1>8. CASE s = "monitor"
  <2>1. InOrder'
    <3>1. to'["monitor"] = to["monitor"] /\ pc'["parent"] = pc["parent"]
      BY <1>1, <1>3, <1>4, <1>8
    <3> QED
      BY <3>1 DEF InOrder, Description
  <2>2. Asked'
    <3>1. ASSUME NEW i \in 1..Len(to'[t]), to'[t][i].kind = "offer", to'[t][i].offer = offers + 1
          PROVE  to'[t][i].pc = pc[s].id /\ \A j \in 1..Len(to'[t]) : i < j => FALSE
      <4>1. CASE i \in 1..Len(to[t]) /\ to'[t][i] = to[t][i]
        BY <1>1, <3>1, <4>1 DEF Numbered, Description
      <4> QED
        BY <1>2, <1>3, <1>4, <4>1
    <3>2. ASSUME NEW e \in calls', Answering(t, e)', e.msg.offer = offers + 1 PROVE FALSE
      <4>1. e.kind = "offer" /\ e \in calls
        BY <1>1, <1>5, <3>2 DEF Answering
      <4> QED
        BY <1>1, <3>2, <4>1 DEF Numbered
    <3>3. ASSUME NEW i \in 1..Len(to'[s]), to'[s][i].kind = "answer", to'[s][i].offer = offers + 1
          PROVE  FALSE
      BY <1>1, <1>4, <3>3 DEF Numbered, Description
    <3> QED
      BY <1>1, <1>3, <1>8, <3>1, <3>2, <3>3 DEF Asked
  <2> QED
    BY <1>3, <1>6, <1>7, <1>8, <2>1, <2>2 DEF Stage
<1>9. CASE s = "parent"
  <2>1. ASSUME NEW i \in 1..Len(to'[t]), to'[t][i] = msg
        PROVE  to'[t][i].pc = pc'["parent"].id /\ to'[t][i].kind = "offer"
    BY <1>2, <1>3, <1>9, <2>1
  <2>2. InOrder'
    <3>1. ASSUME NEW i \in 1..Len(to'[t]), NEW j \in 1..Len(to'[t]), i < j,
                 Description(to'[t][i]), Description(to'[t][j])
          PROVE  to'[t][i].pc <= to'[t][j].pc
      <4>1. i \in 1..Len(to[t]) /\ to'[t][i] = to[t][i] /\ to[t][i].pc \in 1..made[s]
        BY <1>1, <1>4, <3>1 DEF Numbered
      <4>2. CASE j \in 1..Len(to[t]) /\ to'[t][j] = to[t][j]
        BY <1>1, <1>9, <3>1, <4>1, <4>2 DEF InOrder
      <4>3. CASE to'[t][j] = msg
        BY <1>1, <1>2, <1>3, <4>1, <4>3
      <4> QED
        BY <1>4, <4>2, <4>3
    <3>2. ASSUME NEW i \in 1..Len(to'[t]), to'[t][i].kind = "offer", to'[t][i].offer = offers + 1
          PROVE  to'[t][i].pc = pc'["parent"].id
      <4>1. CASE i \in 1..Len(to[t]) /\ to'[t][i] = to[t][i]
        BY <1>1, <3>2, <4>1 DEF Numbered, Description
      <4> QED
        BY <1>4, <2>1, <4>1
    <3> QED
      BY <1>1, <1>3, <1>9, <3>1, <3>2 DEF InOrder, Description
  <2>3. \A e \in calls' : ~Answering("parent", e)'
    BY <1>1, <1>5, <1>9
  <2>4. ASSUME pc'["monitor"].sig = "haveLocal" PROVE Asked'
    <3>1. Asked
      BY <1>1, <1>3, <1>9, <2>4 DEF Stage
    <3>2. ASSUME NEW i \in 1..Len(to'[t]), to'[t][i].kind = "answer", to'[t][i].offer = pc[t].offer
          PROVE  Drained(s) /\ (pc[s].remote # 0 => pc[s].remote = pc[t].id /\ pc[s].id = to'[t][i].pc)
      <4>1. i \in 1..Len(to[t]) /\ to'[t][i] = to[t][i]
        BY <1>2, <1>4, <3>2
      <4> QED
        BY <1>1, <1>9, <3>1, <3>2, <4>1 DEF Asked
    <3>3. Drained(s)' <=> Drained(s)
      BY <1>4 DEF Drained, Description
    <3>4. \A i \in 1..Len(to'[s]) :
            to'[s][i].kind = "offer" /\ to'[s][i].offer = pc'[t].offer
            => to'[s][i].pc = pc'[t].id /\ \A j \in 1..Len(to'[s]) : i < j => ~Description(to'[s][j])
      BY <1>1, <1>3, <1>4, <1>9, <3>1 DEF Asked
    <3> QED
      BY <1>1, <1>3, <1>9, <2>3, <3>2, <3>3, <3>4 DEF Asked, Description
  <2>5. ASSUME pc'["monitor"].sig # "haveLocal", pc'["monitor"].offer # 0 PROVE Agreed'
    <3>1. Agreed
      BY <1>1, <1>3, <1>9, <2>5 DEF Stage
    <3>2. ASSUME NEW i \in 1..Len(to'[s]), Description(to'[s][i])
          PROVE  /\ to'[s][i].kind = "answer" /\ to'[s][i].pc = pc[t].id
                 /\ to'[s][i].offer # offers + 1
      BY <1>1, <1>4, <1>9, <3>1, <3>2 DEF Agreed, Numbered
    <3>3. ASSUME NEW e \in calls', Answering("monitor", e)' PROVE e.msg.offer # offers + 1
      <4>1. e.kind = "offer" /\ e \in calls
        BY <1>1, <1>3, <3>3 DEF Answering
      <4> QED
        BY <1>1, <4>1 DEF Numbered
    <3>4. ASSUME NEW i \in 1..Len(to'[t]), Description(to'[t][i]) PROVE pc[t].remote <= to'[t][i].pc
      <4>1. CASE i \in 1..Len(to[t]) /\ to'[t][i] = to[t][i]
        BY <1>1, <1>9, <3>1, <3>4, <4>1 DEF Agreed
      <4>2. CASE to'[t][i] = msg
        BY <1>1, <1>2, <1>3, <1>9, <4>2 DEF Numbered
      <4> QED
        BY <1>4, <4>1, <4>2
    <3>5. pc'[s].remote # 0 => pc'[s].remote = pc[t].id /\ pc[t].remote = pc'[s].id
      BY <1>1, <1>3, <1>9, <3>1 DEF Agreed
    <3>6. /\ s = "parent" /\ t = "monitor" /\ pc'[t] = pc[t] /\ pc'[s].offer = offers + 1
      BY <1>1, <1>3, <1>9
    <3> HIDE DEF s, t
    <3> QED
      BY <2>3, <3>2, <3>3, <3>4, <3>5, <3>6 DEF Agreed, Description
  <2> QED
    BY <1>6, <1>7, <2>2, <2>4, <2>5 DEF Stage
<1> QED
  BY <1>1, <1>8, <1>9

LEMMA AnsweredKeeps ==
  ASSUME TypeOK, NumberedInOrder, Numbered, OneOffer, InOrder, Stage, NEW c \in calls, Answers(c)
  PROVE  Numbered' /\ OneOffer' /\ InOrder' /\ Stage'
<1> DEFINE s == c.side
           t == Other(s)
           msg == Msg("answer", c.pc, c.msg.offer)
<1>1. /\ s \in Side /\ t \in Side /\ t # s /\ \A u \in Side : (u = s \/ u = t) /\ Other(u) \in Side
      /\ \A u \in Side : made[u] \in Nat /\ pc[u].id \in {0, made[u]} /\ Len(to[u]) \in Nat
      /\ (s = "monitor" /\ t = "parent") \/ (s = "parent" /\ t = "monitor")
      /\ offers \in Nat /\ Other(t) = s
  BY QueueFacts DEF Answers, Side, Other, NumberedInOrder, TypeOK
<1>2. msg.kind = "answer" /\ msg.pc = c.pc /\ msg.offer = c.msg.offer
  BY DEF Msg
<1>3. /\ c.pc = pc[s].id /\ c.pc = made[s] /\ c.pc \in 1..made[s] /\ pc[s].sig = "haveRemote"
      /\ pc'[s].id = pc[s].id /\ pc'[s].remote = pc[s].remote /\ pc'[s].sig = "stable"
      /\ pc'[s].offer = pc[s].offer /\ offers' = offers /\ pc'[t] = pc[t] /\ made' = made
      /\ Answering(s, c) /\ c.msg.offer \in 1..offers
      /\ calls' = calls \ {c}
  <2>1. Answering(s, c) /\ c.kind = "offer" /\ c.pc = pc[s].id
    BY <1>1 DEF Answers, Answering, Open
  <2>2. pc[s].sig = "haveRemote" /\ c.msg.offer \in 1..offers
    BY <1>1, <2>1 DEF OneOffer, Numbered
  <2> QED
    BY <1>1, <2>1, <2>2 DEF Answers
<1>4. /\ to'[s] = to[s] /\ Len(to'[t]) \in Nat
      /\ \A i \in 1..Len(to'[t]) : \/ i \in 1..Len(to[t]) /\ to'[t][i] = to[t][i]
                                   \/ i = Len(to'[t]) /\ i > Len(to[t]) /\ to'[t][i] = msg
  BY <1>1 DEF Answers, Sent
<1> HIDE DEF msg
<1>5. ASSUME NEW u \in Side, NEW e \in calls', Answering(u, e)' PROVE Answering(u, e) /\ u = t
  <2>1. Answering(u, e)
    BY <1>1, <1>3, <1>5 DEF Answering, Open
  <2>2. u = s => e = c
    BY <1>1, <1>3, <2>1 DEF OneOffer
  <2> QED
    BY <1>1, <1>3, <2>1, <2>2
<1>6. Numbered'
  <2>1. ASSUME NEW u \in Side
        PROVE  pc'[u].offer <= offers' /\ (pc'[u].id = 0 => pc'[u].remote = 0 /\ pc'[u].offer = 0)
    <3>1. pc'[u].offer = pc[u].offer /\ pc'[u].id = pc[u].id /\ pc'[u].remote = pc[u].remote
      BY <1>1, <1>3
    <3> QED
      BY <1>3, <3>1 DEF Numbered
  <2>2. ASSUME NEW u \in Side, NEW i \in 1..Len(to'[u]), Description(to'[u][i])
        PROVE  to'[u][i].offer \in 1..offers' /\ to'[u][i].pc \in 1..made'[Other(u)]
    <3>1. CASE i \in 1..Len(to[u]) /\ to'[u][i] = to[u][i]
      BY <1>3, <2>2, <3>1 DEF Numbered
    <3>2. CASE u = t /\ to'[t][i] = msg
      BY <1>1, <1>2, <1>3, <3>2
    <3> QED
      BY <1>1, <1>4, <3>1, <3>2
  <2>3. pc'["monitor"].remote <= made'["parent"]
    BY <1>1, <1>3 DEF Numbered
  <2>4. ASSUME NEW e \in calls'
        PROVE  /\ e.kind = "offer" => e.msg.offer \in 1..offers'
               /\ e.kind = "join" => e.side = "monitor"
               /\ e.kind = "talk" => e.side = "parent"
    BY <1>1, <1>3 DEF Numbered
  <2> QED
    BY <2>1, <2>2, <2>3, <2>4 DEF Numbered, Description
<1>7. OneOffer'
  BY <1>3, <1>5 DEF OneOffer
<1>8. CASE s = "monitor"
  <2>1. InOrder'
    <3>1. to'["monitor"] = to["monitor"] /\ pc'["parent"] = pc["parent"]
      BY <1>1, <1>3, <1>4, <1>8
    <3> QED
      BY <3>1 DEF InOrder, Description
  <2>2. ASSUME pc'["monitor"].offer # 0 PROVE Agreed'
    <3>1. Agreed
      BY <1>3, <1>8, <2>2 DEF Stage
    <3>2. ASSUME NEW e \in calls', Answering("parent", e)' PROVE FALSE
      <4>1. Answering("parent", e) /\ e \in calls
        BY <1>1, <1>5, <3>2 DEF Answering
      <4> QED
        BY <3>1, <4>1 DEF Agreed
    <3>3. ASSUME NEW i \in 1..Len(to'[t]), Description(to'[t][i])
          PROVE  /\ to'[t][i].kind = "answer" /\ to'[t][i].pc = pc[s].id
                 /\ to'[t][i].offer = pc[t].offer => pc[s].remote = pc[t].id
      <4>1. CASE i \in 1..Len(to[t]) /\ to'[t][i] = to[t][i]
        BY <1>1, <1>8, <3>1, <3>3, <4>1 DEF Agreed
      <4>2. CASE to'[t][i] = msg
        BY <1>1, <1>2, <1>3, <1>8, <3>1, <4>2 DEF Agreed
      <4> QED
        BY <1>4, <4>1, <4>2
    <3>4. \A e \in calls' : ~Answering(s, e)'
      BY <1>1, <1>5
    <3>5. /\ pc[t].remote # 0 => pc[t].remote = pc[s].id /\ pc[s].remote = pc[t].id
          /\ \A i \in 1..Len(to'[s]) : Description(to'[s][i]) => pc[s].remote <= to'[s][i].pc
      BY <1>1, <1>4, <1>8, <3>1 DEF Agreed
    <3>6. s = "monitor" /\ t = "parent" /\ pc'[t] = pc[t] /\ pc'[s].remote = pc[s].remote
          /\ pc'[s].id = pc[s].id
      BY <1>1, <1>3, <1>8
    <3> HIDE DEF s, t
    <3> QED
      BY <3>2, <3>3, <3>4, <3>5, <3>6 DEF Agreed, Description
  <2> QED
    BY <1>3, <1>6, <1>7, <1>8, <2>1, <2>2 DEF Stage
<1>9. CASE s = "parent"
  <2>1. InOrder'
    <3>1. ASSUME NEW i \in 1..Len(to'[t]), NEW j \in 1..Len(to'[t]), i < j,
                 Description(to'[t][i]), Description(to'[t][j])
          PROVE  to'[t][i].pc <= to'[t][j].pc
      <4>1. i \in 1..Len(to[t]) /\ to'[t][i] = to[t][i] /\ to[t][i].pc \in 1..made[s]
        BY <1>1, <1>4, <3>1 DEF Numbered
      <4>2. CASE j \in 1..Len(to[t]) /\ to'[t][j] = to[t][j]
        BY <1>1, <1>9, <3>1, <4>1, <4>2 DEF InOrder
      <4>3. CASE to'[t][j] = msg
        BY <1>1, <1>2, <1>3, <4>1, <4>3
      <4> QED
        BY <1>4, <4>2, <4>3
    <3>2. ASSUME NEW i \in 1..Len(to'[t]), to'[t][i].kind = "offer", to'[t][i].offer = pc[s].offer
          PROVE  to'[t][i].pc = pc[s].id
      BY <1>1, <1>2, <1>4, <1>9, <3>2 DEF InOrder
    <3> QED
      BY <1>1, <1>3, <1>9, <3>1, <3>2 DEF InOrder, Description
  <2>2. ~Agreed
    BY <1>3, <1>9 DEF Agreed
  <2>3. ASSUME pc'["monitor"].sig = "haveLocal" PROVE Asked'
    <3>1. Asked
      BY <1>1, <1>3, <1>9, <2>3 DEF Stage
    <3>2. \A i \in 1..Len(to'[s]) :
            to'[s][i].kind = "offer" /\ to'[s][i].offer = pc'[t].offer
            => to'[s][i].pc = pc'[t].id /\ \A j \in 1..Len(to'[s]) : i < j => ~Description(to'[s][j])
      BY <1>1, <1>3, <1>4, <1>9, <3>1 DEF Asked
    <3>3. \A e \in calls' : ~Answering(s, e)'
      BY <1>1, <1>5
    <3>4. ASSUME NEW i \in 1..Len(to'[t]), to'[t][i].kind = "answer", to'[t][i].offer = pc[t].offer
          PROVE  Drained(s)' /\ pc[s].remote = pc[t].id /\ pc[s].id = to'[t][i].pc
      <4>1. ~(i \in 1..Len(to[t]) /\ to'[t][i] = to[t][i])
        BY <1>1, <1>3, <1>9, <3>1, <3>4 DEF Asked
      <4>2. to'[t][i].offer = c.msg.offer /\ to'[t][i].pc = c.pc
        BY <1>2, <1>4, <4>1
      <4>3. Drained(s) /\ pc[s].remote = pc[t].id
        BY <1>1, <1>3, <1>9, <3>1, <3>4, <4>2 DEF Asked
      <4> QED
        BY <1>3, <1>4, <4>2, <4>3 DEF Drained, Description
    <3>5. s = "parent" /\ t = "monitor" /\ pc'[t] = pc[t] /\ pc'[s].remote = pc[s].remote
          /\ pc'[s].id = pc[s].id
      BY <1>1, <1>3, <1>9
    <3> HIDE DEF s, t
    <3> QED
      BY <3>2, <3>3, <3>4, <3>5 DEF Asked, Description
  <2> QED
    BY <1>1, <1>3, <1>6, <1>7, <1>9, <2>1, <2>2, <2>3 DEF Stage
<1> QED
  BY <1>1, <1>8, <1>9

\* A description that was taken came from a numbered connection of the other
\* side; only an offer makes a call that answers.
LEMMA TookFacts ==
  ASSUME TypeOK, NumberedInOrder, Numbered, OneOffer, NEW s \in Side, NEW kind \in {"offer", "answer"},
         Took(s, kind)
  PROVE  /\ 1 \in 1..Len(to[s]) /\ Description(to[s][1]) /\ to[s][1].kind = kind
         /\ to[s][1].offer \in 1..offers /\ to[s][1].pc \in 1..made[Other(s)]
         /\ \A e \in calls' : e \in calls \/ e = Call(s, kind, pc'[s].id, to[s][1], "describing")
         /\ \A u \in Side, e \in calls' : Answering(u, e)' =>
              \/ u # s /\ Answering(u, e) /\ e \in calls
              \/ u = s /\ kind = "offer" /\ e = Call(s, kind, pc'[s].id, to[s][1], "describing")
         /\ Numbered' /\ OneOffer'
<1> DEFINE t == Other(s)
           msg == to[s][1]
           d == Call(s, kind, pc'[s].id, msg, "describing")
<1>1. /\ t \in Side /\ t # s /\ \A u \in Side : (u = s \/ u = t) /\ Other(u) \in Side
      /\ \A u \in Side : made[u] \in Nat /\ pc[u].id \in {0, made[u]} /\ Len(to[u]) \in Nat
                         /\ pc[u].offer \in Nat /\ pc[u].remote \in Nat
      /\ (s = "monitor" /\ t = "parent") \/ (s = "parent" /\ t = "monitor")
      /\ offers \in Nat /\ Other(t) = s
  BY QueueFacts, PcTypes DEF Side, Other, NumberedInOrder, TypeOK, Connection
<1>2. d.side = s /\ d.kind = kind /\ d.pc = pc'[s].id /\ d.msg = msg
  BY DEF Call
<1>3. /\ 1 \in 1..Len(to[s]) /\ msg.kind = kind /\ to'[t] = to[t] /\ pc'[t] = pc[t]
      /\ made'[t] = made[t] /\ offers' = offers /\ pc'[s].remote = msg.pc /\ pc'[s].id # 0
      /\ calls' = calls \cup {d}
      /\ \A i \in 1..Len(to'[s]) : i + 1 \in 1..Len(to[s]) /\ to'[s][i] = to[s][i + 1]
  BY DEF Took, Takes
<1> HIDE DEF d, msg
<1>4. Description(msg) /\ msg.offer \in 1..offers /\ msg.pc \in 1..made[t]
  BY <1>3 DEF Numbered, Description, msg
<1>5. /\ made'[s] \in {made[s], made[s] + 1} /\ pc'[s].offer \in {pc[s].offer, 0}
      /\ kind = "offer" => pc'[s].sig = "haveRemote"
  BY DEF Took, TakesAnswer, TakesOfferAnew, TakesOffer
<1>6. ASSUME NEW u \in Side, NEW e \in calls', Answering(u, e)'
      PROVE  \/ u # s /\ Answering(u, e) /\ e \in calls
             \/ u = s /\ kind = "offer" /\ e = d
  <2>1. e.side = u /\ e.kind = "offer" /\ pc'[u].id = e.pc
    BY <1>6 DEF Answering, Open
  <2>2. CASE e = d
    BY <1>2, <2>1, <2>2
  <2>3. CASE u # s /\ e \in calls
    BY <1>1, <1>3, <2>1, <2>3 DEF Answering, Open
  <2>4. CASE u = s /\ e \in calls
    <3>1. e.pc \in Nat /\ e.pc <= made[s]
      BY <2>1, <2>4, CallTypes DEF NumberedInOrder, CallInFlight
    <3>2. ~TakesOfferAnew(s)
      BY <1>1, <2>1, <2>4, <3>1 DEF TakesOfferAnew
    <3>3. pc'[s].id = pc[s].id /\ pc[s].sig # "haveRemote"
      BY <3>2 DEF Took, TakesAnswer, TakesOffer
    <3>4. Answering(s, e)
      BY <2>1, <2>4, <3>3 DEF Answering, Open
    <3> QED
      BY <2>4, <3>3, <3>4 DEF OneOffer
  <2> QED
    BY <1>3, <2>2, <2>3, <2>4
<1>7. OneOffer'
  <2> SUFFICES ASSUME NEW u \in Side, NEW e \in calls', Answering(u, e)'
               PROVE  pc'[u].sig = "haveRemote" /\ \A f \in calls' : Answering(u, f)' => f = e
    BY DEF OneOffer
  <2>1. CASE u = s
    BY <1>5, <1>6, <2>1
  <2>2. CASE u # s
    <3>1. pc'[u] = pc[u] /\ Answering(u, e) /\ e \in calls
      BY <1>1, <1>3, <1>6, <2>2
    <3>2. ASSUME NEW f \in calls', Answering(u, f)' PROVE Answering(u, f) /\ f \in calls
      BY <1>6, <2>2, <3>2
    <3> QED
      BY <3>1, <3>2 DEF OneOffer
  <2> QED
    BY <2>1, <2>2
<1>8. Numbered'
  <2>1. ASSUME NEW u \in Side
        PROVE  pc'[u].offer <= offers' /\ (pc'[u].id = 0 => pc'[u].remote = 0 /\ pc'[u].offer = 0)
    <3>1. CASE u = s
      BY <1>1, <1>3, <1>5, <3>1 DEF Numbered
    <3>2. CASE u = t
      BY <1>3, <3>2, <1>1 DEF Numbered
    <3> QED
      BY <1>1, <3>1, <3>2
  <2>2. ASSUME NEW u \in Side, NEW i \in 1..Len(to'[u]), Description(to'[u][i])
        PROVE  to'[u][i].offer \in 1..offers' /\ to'[u][i].pc \in 1..made'[Other(u)]
    <3>1. PICK k \in 1..Len(to[u]) : to'[u][i] = to[u][k]
      <4>1. CASE u = s
        BY <1>3, <2>2, <4>1
      <4>2. CASE u = t
        BY <1>3, <2>2, <4>2
      <4> QED
        BY <1>1, <4>1, <4>2
    <3>2. to[u][k].offer \in 1..offers /\ to[u][k].pc \in 1..made[Other(u)]
      BY <2>2, <3>1 DEF Numbered
    <3>3. made'[Other(u)] \in {made[Other(u)], made[Other(u)] + 1}
      BY <1>1, <1>3, <1>5
    <3> QED
      BY <1>1, <1>3, <3>1, <3>2, <3>3
  <2>3. pc'["monitor"].remote <= made'["parent"]
    <3>1. CASE s = "monitor"
      BY <1>1, <1>3, <1>4, <3>1
    <3>2. CASE s = "parent"
      BY <1>1, <1>3, <1>5, <3>2 DEF Numbered
    <3> QED
      BY <1>1, <3>1, <3>2
  <2>4. ASSUME NEW e \in calls'
        PROVE  /\ e.kind = "offer" => e.msg.offer \in 1..offers'
               /\ e.kind = "join" => e.side = "monitor"
               /\ e.kind = "talk" => e.side = "parent"
    BY <1>2, <1>3, <1>4 DEF Numbered
  <2> QED
    BY <2>1, <2>2, <2>3, <2>4 DEF Numbered, Description
<1> QED
  BY <1>3, <1>4, <1>6, <1>7, <1>8 DEF d, msg

LEMMA TookInOrder ==
  ASSUME TypeOK, NumberedInOrder, Numbered, OneOffer, InOrder, NEW s \in Side,
         NEW kind \in {"offer", "answer"}, Took(s, kind)
  PROVE  InOrder'
<1>1. CASE s = "monitor"
  <2> DEFINE q == to["monitor"]
             r == to'["monitor"]
  <2>1. pc'["parent"] = pc["parent"] /\ Len(q) \in Nat
        /\ \A i \in 1..Len(r) : i + 1 \in 1..Len(q) /\ r[i] = q[i + 1]
    BY <1>1 DEF Took, Takes, Other
  <2>2. ASSUME NEW i \in 1..Len(r), NEW j \in 1..Len(r), i < j, Description(r[i]), Description(r[j])
        PROVE  r[i].pc <= r[j].pc
    <3>1. /\ i + 1 \in 1..Len(q) /\ r[i] = q[i + 1] /\ j + 1 \in 1..Len(q) /\ r[j] = q[j + 1]
          /\ i + 1 < j + 1
      BY <2>1, <2>2
    <3> HIDE DEF q, r
    <3> QED
      BY <2>2, <3>1 DEF InOrder, q
  <2>3. ASSUME NEW i \in 1..Len(r), r[i].kind = "offer", r[i].offer = pc["parent"].offer
        PROVE  r[i].pc = pc["parent"].id
    BY <2>1, <2>3 DEF InOrder
  <2> QED
    BY <2>1, <2>2, <2>3 DEF InOrder, Description
<1>2. CASE s = "parent"
  <2>1. to'["monitor"] = to["monitor"]
    BY <1>2 DEF Took, Takes, Other
  <2>2. \/ pc'[s].offer = 0
        \/ pc'[s].offer = pc[s].offer /\ pc'[s].id = pc[s].id
    BY DEF Took, TakesAnswer, TakesOfferAnew, TakesOffer
  <2>3. \A i \in 1..Len(to["monitor"]) :
          to["monitor"][i].kind = "offer" => to["monitor"][i].offer \in 1..offers
    BY DEF Numbered, Description, Side
  <2>4. 0 \notin 1..offers
    OBVIOUS
  <2> QED
    BY <1>2, <2>1, <2>2, <2>3, <2>4 DEF InOrder, Description
<1> QED
  BY <1>1, <1>2 DEF Side

LEMMA TookStage ==
  ASSUME TypeOK, NumberedInOrder, Numbered, OneOffer, InOrder, Stage, NEW s \in Side,
         NEW kind \in {"offer", "answer"}, Took(s, kind)
  PROVE  Stage'
<1> DEFINE t == Other(s)
           msg == to[s][1]
           d == Call(s, kind, pc'[s].id, msg, "describing")
<1>1. /\ (s = "monitor" /\ t = "parent") \/ (s = "parent" /\ t = "monitor")
      /\ to'[t] = to[t] /\ pc'[t] = pc[t] /\ pc'[s].remote = msg.pc /\ Len(to[s]) \in Nat
      /\ \A i \in 1..Len(to'[s]) : i + 1 \in 1..Len(to[s]) /\ to'[s][i] = to[s][i + 1]
  BY DEF Took, Takes, Side, Other
<1>2. /\ 1 \in 1..Len(to[s]) /\ Description(msg) /\ msg.kind = kind /\ offers \in Nat
      /\ msg.offer \in 1..offers /\ msg.pc \in 1..made[t] /\ d.msg = msg
  BY TookFacts DEF Call, TypeOK
<1>3. ASSUME NEW u \in Side, NEW e \in calls', Answering(u, e)'
      PROVE  \/ u # s /\ Answering(u, e) /\ e \in calls
             \/ u = s /\ kind = "offer" /\ e = d
  BY <1>3, TookFacts
<1>4. ~Drained(s)
  BY <1>2 DEF Drained
<1>5. "monitor" \in Side /\ "parent" \in Side
  BY DEF Side
<1>6. \A u \in Side : made[u] \in Nat /\ pc[u].id \in {0, made[u]} /\ pc[u].remote \in Nat
  BY PcTypes DEF NumberedInOrder, Connection
<1> HIDE DEF d, msg
<1>7. CASE s = "parent"
  <2>1. ASSUME pc'["monitor"].sig = "haveLocal" PROVE Asked'
    <3>1. Asked
      BY <1>1, <1>7, <2>1 DEF Stage
    <3>2. ASSUME NEW i \in 1..Len(to'[s]), to'[s][i].kind = "offer", to'[s][i].offer = pc[t].offer
          PROVE  to'[s][i].pc = pc[t].id /\ \A j \in 1..Len(to'[s]) : i < j => ~Description(to'[s][j])
      <4>1. /\ i + 1 \in 1..Len(to[s]) /\ to'[s][i] = to[s][i + 1]
        BY <1>1
      <4>2. /\ to[s][i + 1].pc = pc[t].id
            /\ \A j \in 1..Len(to[s]) : i + 1 < j => ~Description(to[s][j])
        BY <1>1, <1>7, <3>1, <3>2 DEF Asked
      <4>3. ASSUME NEW j \in 1..Len(to'[s]), i < j PROVE ~Description(to'[s][j])
        <5>1. j + 1 \in 1..Len(to[s]) /\ to'[s][j] = to[s][j + 1] /\ i + 1 < j + 1
          BY <1>1, <4>3
        <5> QED
          BY <4>2, <5>1
      <4> QED
        BY <1>1, <4>2, <4>3
    <3>3. ASSUME NEW e \in calls', Answering("parent", e)', e.msg.offer = pc[t].offer
          PROVE  pc'[s].remote = pc[t].id /\ Drained(s)'
      <4>1. kind = "offer" /\ e = d
        BY <1>3, <1>5, <1>7, <3>3
      <4>2. msg.pc = pc[t].id /\ \A j \in 1..Len(to[s]) : 1 < j => ~Description(to[s][j])
        BY <1>1, <1>2, <1>7, <3>1, <3>3, <4>1 DEF Asked, msg
      <4>3. ASSUME NEW i \in 1..Len(to'[s]) PROVE ~Description(to'[s][i])
        <5>1. i + 1 \in 1..Len(to[s]) /\ to'[s][i] = to[s][i + 1] /\ 1 < i + 1
          BY <1>1
        <5> QED
          BY <4>2, <5>1
      <4> QED
        BY <1>1, <4>2, <4>3 DEF Drained, Description
    <3>4. ASSUME NEW i \in 1..Len(to'[t]), to'[t][i].kind = "answer", to'[t][i].offer = pc[t].offer
          PROVE  FALSE
      BY <1>1, <1>4, <1>7, <3>1, <3>4 DEF Asked
    <3>5. s = "parent" /\ t = "monitor" /\ pc'[t] = pc[t]
      BY <1>1, <1>7
    <3> HIDE DEF t
    <3> QED
      BY <3>2, <3>3, <3>4, <3>5 DEF Asked, Description
  <2>2. ASSUME pc'["monitor"].sig # "haveLocal", pc'["monitor"].offer # 0 PROVE Agreed'
    <3>1. Agreed
      BY <1>1, <1>7, <2>2 DEF Stage
    <3>2. kind = "answer" /\ msg.pc = pc[t].id /\ (msg.offer = pc[s].offer => pc[t].remote = pc[s].id)
      BY <1>1, <1>2, <1>7, <3>1 DEF Agreed, msg
    <3>3. pc'[s].id = pc[s].id /\ pc'[s].offer = pc[s].offer /\ msg.offer = pc[s].offer
      BY <3>2 DEF Took, TakesAnswer, msg
    <3>4. ASSUME NEW e \in calls', Answering("parent", e)' PROVE FALSE
      BY <1>3, <1>5, <1>7, <3>2, <3>4
    <3>5. ASSUME NEW i \in 1..Len(to'[s]), Description(to'[s][i])
          PROVE  /\ to'[s][i].kind = "answer" /\ to'[s][i].pc = pc[t].id
                 /\ to'[s][i].offer = pc[s].offer => pc[t].remote = pc[s].id
      BY <1>1, <1>7, <3>1, <3>5 DEF Agreed
    <3>6. pc[t].remote = pc[s].id
      BY <3>2, <3>3
    <3>7. \A i \in 1..Len(to'[t]) : Description(to'[t][i]) => pc[t].remote <= to'[t][i].pc
      BY <1>1, <1>7, <3>1 DEF Agreed
    <3>8. s = "parent" /\ t = "monitor" /\ pc'[t] = pc[t] /\ pc'[s].remote = pc[t].id
      BY <1>1, <1>7, <3>2
    <3> HIDE DEF t
    <3> QED
      BY <3>3, <3>4, <3>5, <3>6, <3>7, <3>8 DEF Agreed, Description
  <2> QED
    BY <2>1, <2>2 DEF Stage
<1>8. CASE s = "monitor"
  <2>1. /\ pc'[s].id = pc[s].id /\ pc'[s].offer = pc[s].offer /\ pc'[s].sig # "haveLocal"
        /\ \/ kind = "answer" /\ pc[s].sig = "haveLocal" /\ msg.offer = pc[s].offer
           \/ kind = "offer" /\ pc[s].sig = "stable"
    BY <1>8 DEF Took, TakesAnswer, TakesOffer, msg
  <2>2. ASSUME NEW i \in 1..Len(to'[s]), Description(to'[s][i]) PROVE msg.pc <= to'[s][i].pc
    <3>1. i + 1 \in 1..Len(to[s]) /\ to'[s][i] = to[s][i + 1] /\ 1 < i + 1
      BY <1>1
    <3> QED
      BY <1>2, <1>8, <2>2, <3>1 DEF InOrder, msg
  <2>3. s = "monitor" /\ t = "parent" /\ pc'[t] = pc[t]
    BY <1>1, <1>8
  <2>4. ASSUME kind = "answer" PROVE Agreed'
    <3>1. Asked
      BY <1>8, <2>1, <2>4 DEF Stage
    <3>2. /\ Drained(t) /\ \A e \in calls : ~Answering("parent", e)
          /\ pc[t].remote # 0 => pc[t].remote = pc[s].id /\ pc[t].id = msg.pc
      BY <1>2, <2>1, <2>3, <2>4, <3>1 DEF Asked, msg
    <3>3. ASSUME NEW u \in Side, NEW e \in calls', Answering(u, e)' PROVE FALSE
      BY <1>3, <2>3, <2>4, <3>2, <3>3 DEF Side
    <3>4. \A i \in 1..Len(to'[t]) : ~Description(to'[t][i])
      BY <1>1, <3>2 DEF Drained
    <3> HIDE DEF t
    <3> QED
      BY <1>1, <1>5, <2>1, <2>2, <2>3, <3>2, <3>3, <3>4 DEF Agreed, Description
  <2>5. ASSUME kind = "offer", pc'[s].offer # 0 PROVE Agreed'
    <3>1. Agreed
      BY <1>8, <2>1, <2>5 DEF Stage
    <3>2. pc[s].remote <= msg.pc
      BY <1>2, <1>8, <3>1 DEF Agreed, msg
    <3>3. pc[s].remote = pc[t].id /\ pc[t].id # 0 => msg.pc = pc[t].id
      BY <1>2, <1>5, <1>6, <2>3, <3>2
    <3>4. ASSUME NEW e \in calls', Answering("parent", e)' PROVE FALSE
      BY <1>3, <1>5, <2>3, <3>1, <3>4 DEF Agreed
    <3>5. ASSUME NEW i \in 1..Len(to'[t]), Description(to'[t][i])
          PROVE  /\ to'[t][i].kind = "answer" /\ to'[t][i].pc = pc[s].id
                 /\ to'[t][i].offer = pc[t].offer => msg.pc = pc[t].id
      <4>1. /\ to'[t][i].kind = "answer" /\ to'[t][i].pc = pc[s].id
            /\ to'[t][i].offer = pc[t].offer => pc[s].remote = pc[t].id
        BY <1>1, <2>3, <3>1, <3>5 DEF Agreed
      <4>2. to'[t][i].offer \in 1..offers
        BY <1>1, <1>5, <2>3, <3>5 DEF Numbered
      <4>3. to'[t][i].offer = pc[t].offer => pc[t].id # 0
        BY <1>5, <2>3, <4>2 DEF Numbered
      <4> QED
        BY <3>3, <4>1, <4>3
    <3>6. ASSUME NEW e \in calls', Answering("monitor", e)', e.msg.offer = pc[t].offer
          PROVE  msg.pc = pc[t].id
      <4>1. e = d
        BY <1>3, <1>5, <2>3, <3>6
      <4> QED
        BY <1>2, <2>3, <2>5, <3>6, <4>1 DEF InOrder, msg
    <3>7. pc[t].remote # 0 => pc[t].remote = pc[s].id /\ msg.pc = pc[t].id
      <4>1. pc[t].remote # 0 => pc[t].remote = pc[s].id /\ pc[s].remote = pc[t].id /\ pc[t].id # 0
        BY <1>5, <2>3, <3>1 DEF Agreed, Numbered
      <4> QED
        BY <3>3, <4>1
    <3> HIDE DEF t
    <3> QED
      BY <1>1, <2>1, <2>2, <2>3, <3>4, <3>5, <3>6, <3>7 DEF Agreed, Description
  <2> QED
    BY <1>8, <2>1, <2>4, <2>5 DEF Stage
<1> QED
  BY <1>7, <1>8 DEF Side

-----------------------------------------------------------------------------
(* The Monitor's offer of its connection.                                  *)

MonitorGoesOn ==
  /\ \/ pc'["monitor"].id = 0 \/ pc'["monitor"].offer # 0
     \/ pc'["monitor"].id = pc["monitor"].id /\ pc'["monitor"].offer = pc["monitor"].offer
  /\ \/ pc'["monitor"].id = 0 \/ pc'["monitor"].offer # 0
     \/ \A c \in calls : c.side = "monitor" /\ c.at = "offering" => c \in calls'

LEMMA GoesOnKeeps == MonitorOffers /\ MonitorGoesOn => MonitorOffers'
BY DEF MonitorOffers, MonitorGoesOn, Open

LEMMA MonitorResolves ==
  ASSUME TypeOK, NumberedInOrder, Numbered, Clean', MonitorOffers, NEW c \in calls, Resolves(c)
  PROVE  MonitorOffers'
<1> DEFINE m == pc["monitor"]
<1>1. /\ "monitor" \in Side /\ "parent" \in Side /\ "monitor" # "parent" /\ c.side \in Side
      /\ c \in CallInFlight /\ \A s \in Side : pc[s] \in Connection
      /\ c = Call(c.side, c.kind, c.pc, c.msg, c.at)
  BY CallTypes, PcTypes DEF Side
<1>2. ASSUME pc' = pc, c.side = "parent" \/ c.at # "offering", calls \ {c} \subseteq calls'
      PROVE  MonitorOffers'
  BY <1>2, GoesOnKeeps DEF MonitorGoesOn
<1>3. CASE CreateOfferFor(c)
  <2> DEFINE e == [c EXCEPT !.pc = Existing("monitor").id, !.at = "offering"]
  <2>1. e \in calls' /\ e.side = "monitor" /\ e.at = "offering" /\ e.pc = Existing("monitor").id
    BY <1>1, <1>3 DEF CreateOfferFor, CallInFlight
  <2>2. pc'["monitor"] = Existing("monitor")
    BY <1>1, <1>3 DEF CreateOfferFor, Adopt, TypeOK
  <2> QED
    BY <2>1, <2>2 DEF MonitorOffers, Open
<1>4. CASE OfferMade(c)
  <2>1. Offered(c)
    BY <1>4, OfferFacts
  <2>2. CASE c.side = "monitor"
    BY <1>1, <2>1, <2>2, GoesOnKeeps DEF Offered, MonitorGoesOn, TypeOK
  <2>3. CASE c.side = "parent"
    BY <1>1, <2>1, <2>3, GoesOnKeeps DEF Offered, MonitorGoesOn, Other
  <2> QED
    BY <1>1, <2>2, <2>3 DEF Side
<1>5. CASE OfferFails(c)
  <2>1. CASE c.kind = "join"
    <3>1. pc'["monitor"].id = 0
      BY <1>1, <1>5, <2>1 DEF OfferFails, TornDown, NoPc, NewPc, TypeOK
    <3> QED
      BY <3>1, GoesOnKeeps DEF MonitorGoesOn
  <2>2. CASE c.kind # "join"
    <3>1. c.side = "parent"
      BY <1>1, <1>5, <2>2 DEF OfferFails, CallInFlight, Numbered
    <3> QED
      BY <1>2, <1>5, <2>2, <3>1 DEF OfferFails, Ends
  <2> QED
    BY <2>1, <2>2
<1>6. CASE MicOpens(c)
  <2>1. pc'["monitor"] = pc["monitor"] /\ calls \ {c} \subseteq calls' /\ c.at = "mic"
    BY <1>1, <1>6 DEF MicOpens, Ends, Goes, TypeOK
  <2> QED
    BY <2>1, GoesOnKeeps DEF MonitorGoesOn
<1>7. CASE MicDenied(c) \/ HandleSignalFails(c)
  BY <1>2, <1>7 DEF MicDenied, HandleSignalFails, Ends
<1>8. CASE RemoteDescriptionSet(c)
  <2> DEFINE new == [pc[c.side] EXCEPT !.ready = TRUE, !.pending = {}]
  <2>1. pc' = [pc EXCEPT ![c.side] = new] /\ calls \ {c} \subseteq calls' /\ c.at = "describing"
    BY <1>1, <1>8 DEF RemoteDescriptionSet, Ends, Goes, TypeOK
  <2>2. new.id = pc[c.side].id /\ new.offer = pc[c.side].offer
    BY <1>1 DEF Connection
  <2> HIDE DEF new
  <2>3. pc'["monitor"].id = m.id /\ pc'["monitor"].offer = m.offer
    BY <1>1, <2>1, <2>2 DEF TypeOK
  <2> QED
    BY <2>1, <2>3, GoesOnKeeps DEF MonitorGoesOn
<1>9. CASE LateFlush(c)
  BY <1>9 DEF LateFlush, Clean
<1>10. CASE Answered(c)
  <2>1. Answers(c) /\ c.at = "answering"
    BY <1>10, AnswerFacts DEF Answered
  <2>2. pc'["monitor"].id = m.id /\ pc'["monitor"].offer = m.offer
    BY <1>1, <2>1 DEF Answers, Other, Side
  <2> QED
    BY <2>1, <2>2, GoesOnKeeps DEF MonitorGoesOn, Answers
<1> QED
  BY <1>3, <1>4, <1>5, <1>6, <1>7, <1>8, <1>9, <1>10 DEF Resolves

LEMMA MonitorOthers ==
  ASSUME TypeOK, NumberedInOrder, MonitorOffers,
         \/ PeerJoined \/ StartTalking \/ Joins \/ RelayMissesParent
         \/ \E s \in Side : \/ PeerLeft(s) \/ CandidateSignal(s) \/ Trickle(s)
                            \/ Drop(s) \/ Restart(s)
  PROVE  MonitorOffers'
<1> DEFINE m == pc["monitor"]
<1>1. /\ "monitor" \in Side /\ "parent" \in Side /\ "monitor" # "parent"
      /\ \A s \in Side : pc[s] \in Connection
      /\ \A s \in Side : s = "monitor" \/ s = "parent"
  BY PcTypes DEF Side
<1>2. ASSUME pc'["monitor"] = m, \A c \in calls : c.side = "monitor" => c \in calls'
      PROVE  MonitorOffers'
  BY <1>2, GoesOnKeeps DEF MonitorGoesOn
<1>3. ASSUME pc'["monitor"].id = 0 PROVE MonitorOffers'
  BY <1>3 DEF MonitorOffers
<1>4. CASE PeerJoined \/ Joins \/ RelayMissesParent \/ \E s \in Side : Drop(s)
  BY <1>2, <1>4 DEF PeerJoined, Joins, MonitorJoins, ParentJoins, RelayMissesParent, Drop
<1>5. CASE StartTalking
  BY <1>1, <1>2, <1>5 DEF StartTalking, Adopt, TypeOK
<1>6. ASSUME NEW s \in Side, PeerLeft(s) PROVE MonitorOffers'
  <2>1. calls' = calls /\ (pc'["monitor"] = m \/ pc'["monitor"].id = 0)
    BY <1>1, <1>6 DEF PeerLeft, TornDown, NoPc, NewPc, TypeOK
  <2> QED
    BY <1>2, <1>3, <2>1
<1>7. ASSUME NEW s \in Side, CandidateSignal(s) PROVE MonitorOffers'
  <2>1. calls' = calls
    BY <1>7 DEF CandidateSignal
  <2>2. CASE pc' = pc
    BY <1>2, <2>1, <2>2
  <2>3. CASE s = "parent" /\ pc' # pc
    BY <1>1, <1>2, <1>7, <2>1, <2>3 DEF CandidateSignal, Adopt, TypeOK
  <2>4. CASE s = "monitor" /\ pc' # pc
    <3> DEFINE new == [Existing(s) EXCEPT !.pending = Add(s, Head(to[s]).pc)]
    <3>1. pc'[s] = new /\ Existing(s) = m
      BY <1>1, <1>7, <2>4 DEF CandidateSignal, Adopt, Existing, TypeOK
    <3>2. new.id = m.id /\ new.offer = m.offer
      BY <1>1, <3>1 DEF Connection
    <3> HIDE DEF new
    <3> QED
      BY <2>1, <2>4, <3>1, <3>2, GoesOnKeeps DEF MonitorGoesOn
  <2> QED
    BY <1>1, <2>2, <2>3, <2>4
<1>8. ASSUME NEW s \in Side, Trickle(s) PROVE MonitorOffers'
  <2> DEFINE new == [pc[s] EXCEPT !.trickled = TRUE]
  <2>1. calls' = calls /\ pc' = [pc EXCEPT ![s] = new]
    BY <1>8 DEF Trickle, TypeOK
  <2>2. new.id = pc[s].id /\ new.offer = pc[s].offer
    BY <1>1 DEF Connection
  <2> HIDE DEF new
  <2>3. pc'["monitor"].id = m.id /\ pc'["monitor"].offer = m.offer
    BY <1>1, <2>1, <2>2 DEF TypeOK
  <2> QED
    BY <2>1, <2>3, GoesOnKeeps DEF MonitorGoesOn
<1>9. ASSUME NEW s \in Side, Restart(s) PROVE MonitorOffers'
  <2>1. CASE s = "monitor"
    BY <1>1, <1>3, <1>9, <2>1 DEF Restart, NoPc, NewPc, TypeOK
  <2>2. CASE s = "parent"
    BY <1>1, <1>2, <1>9, <2>2 DEF Restart, Adopt, TypeOK
  <2> QED
    BY <1>1, <2>1, <2>2
<1> QED
  BY <1>4, <1>5, <1>6, <1>7, <1>8, <1>9

LEMMA MonitorDescribes ==
  ASSUME TypeOK, TypeOK', NumberedInOrder, MonitorOffers, Clean', NEW s \in Side,
         NEW kind \in {"offer", "answer"}, SdpSignal(s, kind)
  PROVE  MonitorOffers'
<1>1. calls \subseteq calls'
  BY DEF SdpSignal
<1>2. CASE Took(s, kind)
  <2>1. /\ pc'["monitor"].id = pc["monitor"].id
        /\ pc'["monitor"].offer = pc["monitor"].offer
    BY <1>2 DEF Took, Takes, TakesAnswer, TakesOffer, Other, Side
  <2> QED
    BY <1>1, <2>1, GoesOnKeeps DEF MonitorGoesOn
<1>3. CASE pc'["monitor"] = pc["monitor"]
  BY <1>1, <1>3, GoesOnKeeps DEF MonitorGoesOn
<1>4. s = "parent" => pc'["monitor"] = pc["monitor"]
  BY DEF SdpSignal, Adopt, TypeOK, Side
<1> QED
  BY <1>2, <1>3, <1>4, SdpFacts DEF Side

-----------------------------------------------------------------------------
(* The invariant of the pairing.                                           *)

LEMMA PairInit == Init => PairInv
<1> SUFFICES ASSUME Init PROVE PairInv
  OBVIOUS
<1>1. /\ \A s \in Side : /\ pc[s].offer = 0 /\ pc[s].remote = 0 /\ pc[s].sig = "stable"
                         /\ Len(to[s]) = 0
      /\ pc["monitor"].id = 0 /\ calls = {} /\ offers = 0 /\ made["parent"] = 1
  BY DEF Init, NoPc, NewPc, Side
<1>2. Numbered /\ MonitorOffers
  BY <1>1 DEF Numbered, MonitorOffers, Side
<1>3. OneOffer /\ InOrder
  BY <1>1 DEF OneOffer, InOrder, Side
<1>4. Stage
  BY <1>1 DEF Stage, Side
<1> QED
  BY <1>2, <1>3, <1>4 DEF PairInv

LEMMA PlainKeeps ==
  ASSUME TypeOK, TypeOK', NumberedInOrder, Numbered, OneOffer, InOrder, Stage, PlainStep
  PROVE  Numbered' /\ OneOffer' /\ InOrder' /\ Stage'
BY PlainNumbered, PlainOneOffer, PlainInOrder, PlainStage

LEMMA PairStep == NegotiationInv /\ PairInv /\ [Next]_vars => PairInv'
<1> SUFFICES ASSUME NegotiationInv, PairInv, [Next]_vars, Clean'
             PROVE  (Numbered /\ MonitorOffers /\ OneOffer /\ InOrder /\ Stage)'
  BY DEF PairInv
<1>1. /\ TypeOK /\ TypeOK' /\ NumberedInOrder /\ Clean
      /\ Numbered /\ MonitorOffers /\ OneOffer /\ InOrder /\ Stage
  BY TypesKept, CleanBefore DEF NegotiationInv, PairInv
<1>2. ASSUME NEW c \in calls, Resolves(c)
      PROVE  (Numbered /\ MonitorOffers /\ OneOffer /\ InOrder /\ Stage)'
  <2>1. MonitorOffers'
    BY <1>1, <1>2, MonitorResolves
  <2>2. CASE OfferMade(c)
    BY <1>1, <2>1, <2>2, OfferFacts, OfferedKeeps
  <2>3. CASE Answered(c)
    BY <1>1, <2>1, <2>3, AnswerFacts, AnsweredKeeps
  <2>4. CASE LateFlush(c)
    BY <2>4 DEF LateFlush, Clean
  <2>5. CASE \/ CreateOfferFor(c) \/ OfferFails(c) \/ MicOpens(c) \/ MicDenied(c)
             \/ RemoteDescriptionSet(c) \/ HandleSignalFails(c)
    <3>1. PlainStep
      BY <1>1, <2>5, PlainResolves
    <3> QED
      BY <1>1, <2>1, <3>1, PlainKeeps
  <2> QED
    BY <1>2, <2>2, <2>3, <2>4, <2>5 DEF Resolves
<1>3. CASE \/ PeerJoined \/ StartTalking \/ Joins \/ RelayMissesParent
           \/ \E s \in Side : \/ PeerLeft(s) \/ CandidateSignal(s) \/ Trickle(s)
                              \/ Drop(s) \/ Restart(s)
  <2>1. MonitorOffers'
    BY <1>1, <1>3, MonitorOthers
  <2>2. PlainStep
    BY <1>1, <1>3, PlainOthers, PlainDeliveries
  <2> QED
    BY <1>1, <2>1, <2>2, PlainKeeps
<1>4. ASSUME NEW s \in Side, NEW kind \in {"offer", "answer"}, SdpSignal(s, kind)
      PROVE  (Numbered /\ MonitorOffers /\ OneOffer /\ InOrder /\ Stage)'
  <2>1. MonitorOffers'
    BY <1>1, <1>4, MonitorDescribes
  <2>2. CASE PlainStep
    BY <1>1, <2>1, <2>2, PlainKeeps
  <2>3. CASE Took(s, kind)
    BY <1>1, <2>1, <2>3, TookFacts, TookInOrder, TookStage
  <2> QED
    BY <1>1, <1>4, <2>2, <2>3, SdpFacts
<1>5. CASE UNCHANGED vars
  <2>1. PlainStep
    <3>1. \A s \in Side : Same(s) /\ Thins(s)
      BY <1>1, <1>5, Thinned, Unmoved DEF vars
    <3>2. OffersGoOn
      BY <1>5 DEF vars, OffersGoOn
    <3> QED
      BY <1>5, <3>1, <3>2 DEF vars, PlainStep
  <2>2. MonitorOffers'
    BY <1>1, <1>5 DEF vars, MonitorOffers, Open
  <2> QED
    BY <1>1, <2>1, <2>2, PlainKeeps
<1> QED
  BY <1>2, <1>3, <1>4, <1>5 DEF Next, Delivers

\* As long as no call outlives its connection and no answer is taken for
\* another offer than its own, the Monitor's last offer is not yet answered or
\* the two sides agree on whom it paired; what is on its way bears it out.
THEOREM NegotiationPairInvariant == Spec => []PairInv
<1>1. Init => PairInv /\ NegotiationInv
  BY InitHolds, PairInit
<1>2. NegotiationInv /\ PairInv /\ [Next]_vars => PairInv'
  BY PairStep
<1> QED
  BY <1>1, <1>2, NegotiationInvariant, PTL DEF Spec

\* Once everything has settled, two sides that both consider their exchange of
\* descriptions complete (createOfferFor, handleSignal) have exchanged them with
\* each other's present connection, however often either was replaced.
THEOREM NegotiationSettledSidesArePaired == Spec => []SettledSidesArePaired
<1>1. TypeOK /\ PairInv => SettledSidesArePaired
  <2> SUFFICES ASSUME TypeOK, PairInv, Quiescent, history \subseteq {"stranded", "superseded"},
                      \A s \in Side : pc[s].sig = "stable" /\ pc[s].remote # 0
               PROVE  Paired
    BY DEF SettledSidesArePaired
  <2>1. "monitor" \in Side /\ "parent" \in Side /\ \A s \in Side : s = "monitor" \/ s = "parent"
    BY DEF Side
  <2>2. Clean /\ Numbered /\ MonitorOffers /\ Stage
    BY DEF PairInv, Clean
  <2>3. pc["monitor"].id # 0
    BY <2>1, <2>2 DEF Numbered
  <2>4. pc["monitor"].offer # 0
    BY <2>2, <2>3 DEF MonitorOffers, Quiescent
  <2>5. Agreed
    BY <2>1, <2>2, <2>4 DEF Stage
  <2>6. pc["parent"].remote = pc["monitor"].id /\ pc["monitor"].remote = pc["parent"].id
    BY <2>1, <2>5 DEF Agreed
  <2> QED
    BY <2>1, <2>3, <2>6 DEF Paired, Other
<1> QED
  BY <1>1, NegotiationTypeOK, NegotiationPairInvariant, PTL
=============================================================================
