CONSTANTS
  Lock = 4
  Margin = 1
  FailWait = 1
  Patience = 1
  ConfirmDelay = 1
  Absent <- OnlyBob
  Return = 10
  Lossy = FALSE
  Faults <- NoFaults
  Polls = FALSE
  MaxCrashes = 0
  MaxTime = 13
SPECIFICATION FairSpec
PROPERTIES ClaimedIsPaid
CHECK_DEADLOCK FALSE
