\* A cry that follows an earlier alert, or the silence of a closed gate.
SPECIFICATION CrySpec
CONSTANTS
  Level = {0, 2, 4, 6, 7}
  InitialFloor = 0
  OpenMargin = 3
  CloseHold = 2
  StationaryHold = 4
  StationaryRange = 2
  InstantAlert = 6
  SustainedAlert = 2
  None = None
INVARIANT LoudPeriodIsAlerted
