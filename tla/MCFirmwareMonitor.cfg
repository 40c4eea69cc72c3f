CONSTANTS
  Device = {p1}
  Requester = {p1}
  None = None
  MaxListeners = 1
  MaxAuthorized = 1
  MaxHolders = 2
  MaxBelow = 0
  MaxInbox = 1
SPECIFICATION Spec
INVARIANTS
  InviteOpenHasCode
  LiveCodeResolves
  SomeoneReconnects
  CondemnedAreSeen
PROPERTY ImplementsGate
