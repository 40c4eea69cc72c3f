\* Two socket names, so that a second live socket would be seen; attempts are
\* counted past the seventh, where the delay reaches its maximum.
SPECIFICATION FairSpec
CONSTANTS
  Socket = {s1, s2}
  NoSocket = NoSocket
  MaxAttempt = 7
INVARIANTS
  OneLifeline
  JoinedShowsConnected
PROPERTIES
  RejoinsItsRoom
  Rejoins
  ConnectSettles
  ImplementsLink
CHECK_DEADLOCK FALSE
