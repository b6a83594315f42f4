SPECIFICATION Spec
CONSTANTS
  a = a
  b = b
  c = c
  Hash = {a, b, c}
  Kinds <- MCKinds
  Keys <- MCKeys
  Given <- MCGiven
  Merges <- MCMerges
  MaxStaged = 2
  MaxRows = 5
  MaxTx = 3
  NoKey = NoKey
  NoLog = NoLog
  NoMark = NoMark
INVARIANTS
  ReadsAgree
PROPERTY
  Implements
