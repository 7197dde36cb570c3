CONSTANTS
  Confirms = 2
  Freq = 2
  FifoSize = 4
  Start = 3
  MaxHeight = 6
  MaxForks = 1
  NotifyHeights <- EveryBlock
  Faults <- NoBlock
SPECIFICATION Spec
INVARIANTS TypeOK FifoByDistance
PROPERTIES Confirmed
CHECK_DEADLOCK FALSE
