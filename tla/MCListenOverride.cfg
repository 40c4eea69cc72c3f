\* Two Parents, each with up to two requests in flight.
SPECIFICATION FairSpec
CONSTANTS
  Device = {d1, d2}
  NoDevice = NoDevice
  MaxInFlight = 2
INVARIANTS
  HolderIsConnected
  TrackFollowsDecision
  NetIffHeld
PROPERTY OverrideEndsUnlessForeignStop
