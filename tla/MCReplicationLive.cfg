SPECIFICATION FairSpec
CONSTANTS
    Replica = {a, b}
    Commit = {0, 1, 2}
    Root = 0
    Rank <- MCRank
    Refuses <- MCRefuses
    Clash = {}
    MaxCrashes = 1
PROPERTIES
    Converge
