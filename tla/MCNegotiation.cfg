CONSTANTS
  MaxFaults = 1
  Trickling = {"monitor", "parent"}
SPECIFICATION Spec
INVARIANTS SettledSidesArePaired CandidatesAwaitDescription TalkTrackOnConnection
PROPERTY NegotiationCompletes
CHECK_DEADLOCK FALSE
