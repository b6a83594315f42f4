SPECIFICATION Spec
CONSTANTS
    Row <- MCRow
    Source <- MCSource
    Sink <- MCSink
    Out <- MCOut
    Kind <- MCKind
    Query <- MCQuery
    MaxWeight = 2
INVARIANTS
    EngineHoldsCommitted
    HardRulesHold
    RejectionNamesViolations
PROPERTIES
    AtomicSpec
