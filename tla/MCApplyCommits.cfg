CONSTANTS
  r = r  a = a  b = b  m = m  t = t  x = x  y = y
  Commit <- MCCommit
  Root <- r
  Deps <- MCDeps
  Rank <- MCRank
SPECIFICATION FairSpec
INVARIANTS DerivedStateExact SnapshotReplays
PROPERTIES CallReturns Implements
