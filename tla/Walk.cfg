CONSTANTS
  Confirms = 2
  Freq = 2
  FifoSize = 4
  Start = 3
  MaxHeight = 8
  MaxForks = 1
  NotifyHeights <- NoNotification
  Faults <- NoAnswer
SPECIFICATION FairSpec
INVARIANTS StartedInOrder NoneSkipped
PROPERTIES Streams Follows
CHECK_DEADLOCK FALSE
