----------------------------- MODULE InviteGate ------------------------------
(***************************************************************************)
(* What pairing promises, of either Monitor: a Parent the Monitor does not *)
(* know is let in through an open invite window or not at all, and only a  *)
(* Parent that was let in is served.  MonitorSession and FirmwareMonitor   *)
(* are shown to implement this.                                            *)
(***************************************************************************)
EXTENDS Naturals

CONSTANT Device

VARIABLES
  window,    \* the window is open: there is a code, or a task is opening or closing
  passed,    \* Parents that found the window open and are not stored yet
  members,   \* Parents that were let in
  served     \* Parents a connection is kept for

gateVars == <<window, passed, members, served>>

Init == window = FALSE /\ passed = {} /\ members = {} /\ served = {}

\* The window opens or closes; neither lets anybody in or out.
Turn ==
  /\ window' \in BOOLEAN
  /\ UNCHANGED <<passed, members, served>>

\* d, a stranger, is decided on while the window is open.
Pass(d) ==
  /\ window
  /\ passed' = passed \cup {d}
  /\ UNCHANGED <<window, members, served>>

\* It is let in, even if the window has closed since.  Its connection may come
\* with it, or fail.
LetIn(d) ==
  /\ d \in passed
  /\ members' = members \cup {d}
  /\ passed' \subseteq passed
  /\ served' \in {served \cup {d}, served \ {d}}
  /\ UNCHANGED window

\* d, let in before, is back.
Serve(d) ==
  /\ d \in members
  /\ served' = served \cup {d}
  /\ UNCHANGED <<window, passed, members>>

\* Parents leave, connections and calls fail, a Parent without a place in the
\* list is forgotten.
GiveUp ==
  /\ passed' \subseteq passed
  /\ members' \subseteq members
  /\ served' \subseteq served \cap members'
  /\ UNCHANGED window

\* A new life of the Monitor: the members are those it stored.
Restart ==
  /\ window' = FALSE /\ passed' = {} /\ served' = {}
  /\ members' \subseteq members

Next ==
  \/ Turn
  \/ \E d \in Device : Pass(d) \/ LetIn(d) \/ Serve(d)
  \/ GiveUp
  \/ Restart

Spec == Init /\ [][Next]_gateVars
=============================================================================
