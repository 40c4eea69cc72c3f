CONSTANTS
  Timeout = 4
  Threshold = 3
  Repeat = 3
  MaxAge = 5
  MaxReads = 2
  Never = Never
SPECIFICATION Spec
INVARIANTS
  TimeoutMeasuresOutage
  LostAlertOnce
  BeepsAreDue
PROPERTY
  StuckIsNoticed
