\* A stop from one Parent leaves another's override without its safety net.
SPECIFICATION FairSpec
CONSTANTS
  Device = {d1, d2}
  NoDevice = NoDevice
  MaxInFlight = 2
PROPERTY OverrideEnds
