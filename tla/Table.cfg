CONSTANTS
  Rounds = {1, 2, 3, 4, 5}
  Ratifications = {1, 2}
  HeightOf <- Heights
  MaxBlocks = 2
  MaxStarted = 3
  Utxos = {1, 2}
  MayExpire = {1, 3, 4, 5}
  Apart = FALSE
  Garbage = {0, 1}
SPECIFICATION Spec
INVARIANTS TypeOK SlotsOwned OwnBlock LocksHeld
CHECK_DEADLOCK FALSE
