---------------------------- MODULE SignalingLink ----------------------------
(***************************************************************************)
(* What a session may assume of its SignalingClient: the link it sees.     *)
(* SignalingClient is shown to implement this; MonitorSession takes the    *)
(* steps of its link from here.                                            *)
(***************************************************************************)
EXTENDS Naturals

VARIABLES
  link,            \* see Link
  everJoined,      \* a join was acknowledged since the session began
  firstTryFailed   \* the connection was lost before any was

linkVars == <<link, everJoined, firstTryFailed>>

\* "down": no connection, a retry is due.  "connecting": an attempt is under
\* way.  "joined": the relay acknowledged the join.  "stopped": no session.
Link == {"down", "connecting", "joined", "stopped"}

Init ==
  /\ link \in {"connecting", "stopped"}
  /\ everJoined = FALSE
  /\ firstTryFailed = FALSE

\* A connection, or an attempt at one, is lost.
Lose ==
  /\ link \in {"connecting", "joined"}
  /\ link' = "down"
  /\ firstTryFailed' = (firstTryFailed \/ ~everJoined)
  /\ UNCHANGED everJoined

Retry ==
  /\ link = "down"
  /\ link' = "connecting"
  /\ UNCHANGED <<everJoined, firstTryFailed>>

\* The relay acknowledges the join.
Acknowledge ==
  /\ link = "connecting"
  /\ link' = "joined"
  /\ everJoined' = TRUE
  /\ UNCHANGED firstTryFailed

\* A closed link stays closed; a join acknowledged meanwhile may be recorded.
Close ==
  /\ link' = "stopped"
  /\ everJoined' \in {everJoined, TRUE}
  /\ UNCHANGED firstTryFailed

\* A new session, with a client of its own.
Restart ==
  /\ link' = "connecting"
  /\ everJoined' = FALSE
  /\ firstTryFailed' = FALSE

Next == Lose \/ Retry \/ Acknowledge \/ Close \/ Restart

Spec == Init /\ [][Next]_linkVars
=============================================================================
