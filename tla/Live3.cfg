CONSTANTS
  N = 3
  MinSigs = 2
  Height = 1
  Links <- AllLinks
  Hashes = {h1}
  Funded = {0, 1}
  Replies = {"ok"}
  SignResults = {TRUE}
  MaxPax = 1
  MayAbort = {}
  MaxPings <- NoBound
SPECIFICATION FairSpec
PROPERTIES Notarizes
CHECK_DEADLOCK FALSE
