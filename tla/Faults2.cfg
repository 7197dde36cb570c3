CONSTANTS
  N = 2
  MinSigs = 2
  Height = 1
  Links <- AllLinks
  Hashes = {h1, h2}
  Funded = {0, 1}
  Replies = {"ok", "reject", "null", "lost", "mismatch"}
  SignResults = {TRUE, FALSE}
  MaxPax = 2
  MayAbort = {0}
  MaxPings <- FewPings
SPECIFICATION Spec
SYMMETRY Branches
INVARIANTS TypeOK DestTxsValid RefusedForDrift SrcAfterDest
PROPERTIES Implements
CHECK_DEADLOCK FALSE
