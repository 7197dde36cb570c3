CONSTANTS
  Rounds = {1, 2, 3}
  Ratifications = {1, 2}
  HeightOf <- Heights
  MaxBlocks = 2
  MaxStarted = 3
  Utxos = {1}
  MayExpire = {}
  Apart = TRUE
  Garbage = {}
SPECIFICATION Spec
PROPERTIES SkippedWhenRatifying
CHECK_DEADLOCK FALSE
