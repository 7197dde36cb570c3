CONSTANTS
  Lock = 4
  Margin = 1
  FailWait = 1
  Patience = 1
  ConfirmDelay = 1
  Absent <- OnlyAlice
  Return = 9
  Lossy = TRUE
  Faults <- NoFaults
  Polls = FALSE
  MaxCrashes = 1
  MaxTime = 12
SPECIFICATION FairSpec
INVARIANTS TypeOK BobNotCheated FinishedIsDone FinishedIsFair
PROPERTIES Settles
CHECK_DEADLOCK FALSE
