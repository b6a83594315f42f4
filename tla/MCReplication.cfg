SPECIFICATION Spec
CONSTANTS
    Replica = {a, b}
    Commit = {0, 1, 2, 3}
    Root = 0
    Rank <- MCRank
    Refuses <- MCRefuses
    Clash = {1, 2}
    MaxCrashes = 1
SYMMETRY MCSymmetry
INVARIANTS
    TransactionsOnHeads
    HeadsIdentify
    ExchangesExact
