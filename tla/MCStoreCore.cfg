SPECIFICATION FairSpec
CONSTANTS
  a = a
  b = b
  c = c
  d = d
  e = e
  T = T
  F = F
  V = V
  K = K
  M = M
  P = P
  D = D
  NoKey = NoKey
  NoTable = NoTable
  NoCommit = NoCommit
  Commit = {a, b, c, d, e}
  Table = {T, F, V, K, M, P, D}
  Deps <- FreshDeps
  Rank <- MCRank
  Schema <- MCSchema
  Ops <- FreshOps
  Accepts <- MCAccepts
  Derived <- MCDerived
INVARIANTS UndoRestores NoAssertFails ContentsOfCommits RulesOnStoredRows ReplayAccepted ReadsFollowMerges
PROPERTY CommitEnds
