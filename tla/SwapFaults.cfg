CONSTANTS
  Lock = 4
  Margin = 1
  FailWait = 1
  Patience = 1
  ConfirmDelay = 1
  Absent <- Nobody
  Return = 0
  Lossy = TRUE
  Faults <- EveryFault
  Polls = TRUE
  MaxCrashes = 0
  MaxTime = 10
SPECIFICATION Spec
INVARIANTS Atomic
PROPERTIES Implements
CHECK_DEADLOCK FALSE
