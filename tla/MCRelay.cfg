\* Three connections alive at once, one shared room name, one pairing code
\* (itself a name a Parent may send), two Parent devices.
SPECIFICATION Spec
CONSTANTS
  Socket = {s1, s2, s3}
  Name = {r1, c1}
  Code = {c1}
  Device = {d1, d2}
  Address = {a1}
  RemoteAddress <- OneAddress
  RateLimit = 2
  MonitorPeer = MonitorPeer
  NoSocket = NoSocket
  NoName = NoName
  NoDevice = NoDevice
  NoSignal = NoSignal
SYMMETRY Symmetry
INVARIANTS
  NoGhostMembers
  LoneSideIsTimed
  AliasLivesOnItsTimer
  ViewsMatchRoom
  SignalsAreAnswerable
