CONSTANTS
  Monitor = {m1, m2}
  Talker = {m1}
  NoSession = NoSession
  MaxChanges = 4
  MaxCalls = 2
SPECIFICATION Spec
INVARIANTS
  ServiceMatchesSessions
  EverySessionIsManaged
  SettledSessionsMatchStore
  ReleasedIsSilent
PROPERTY
  PairedGetsSession
CHECK_DEADLOCK FALSE
