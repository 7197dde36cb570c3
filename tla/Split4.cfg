CONSTANTS
  N = 4
  MinSigs = 2
  Height = 1
  Links <- TwoPairs
  Hashes = {h1}
  Funded = {0, 1, 2, 3}
  Replies = {"ok"}
  SignResults = {TRUE}
  MaxPax = 1
  MayAbort = {}
  MaxPings <- SplitPings
SPECIFICATION Spec
INVARIANTS SignaturesBind BitsMeanSignatures
PROPERTIES CommitmentsFinal Implements
CHECK_DEADLOCK FALSE
