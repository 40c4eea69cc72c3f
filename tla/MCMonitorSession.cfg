\* Two Parents, two handlePeerJoined calls in flight, and two codes: one may be
\* live while the timeout of the other is still pending.
\* ImplementsGate is a property of single steps, which symmetry does not affect.
SPECIFICATION Spec
CONSTANTS
  Device = {d1, d2}
  Local = Local
  Code = {c1, c2}
  Task = {t1, t2}
  NoCode = NoCode
  NoDevice = NoDevice
SYMMETRY Symmetry
INVARIANTS
  InviteOpenHasCode
  LiveCodeHasTimeout
  ScreenShowsLiveCode
  LiveCodeResolvesAfterStart
PROPERTY ImplementsGate
