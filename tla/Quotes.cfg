CONSTANTS
  Alices = {1}
  Bobs = {2}
  CoinsOf <- BobTwo
  Orders <- TwoEach
  BuyTimes <- InTurn
  MayCancel <- FirstOrder
  MayFail = {1, 2}
  Timeout = 1
  QueueTime = 2
  ReserveTime = 3
  LockTime = 4
  PurgeTime = 5
  RenewTime = 2
  MaxAge <- Slow
  MaxQueue = 1
  MaxBusy = 1
  MaxTime = 7
SPECIFICATION Spec
INVARIANTS TypeOK FilledOnce OneBob Agreed
CHECK_DEADLOCK FALSE
