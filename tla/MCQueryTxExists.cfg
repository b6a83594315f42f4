SPECIFICATION Spec
CONSTANTS
    Row <- ExistsRow
    Source <- ExistsRow
    Sink = {"exists"}
    Out = {"unit"}
    Kind <- ExistsKind
    Query <- ExistsQuery
    MaxWeight = 1
INVARIANTS
    HardRulesHold
