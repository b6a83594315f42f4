SPECIFICATION Spec
CONSTANTS
    Inputs <- AllInputs
    MaxCopies = 5
    MaxWeight = 3
INVARIANTS
    ComponentsExact
    VerdictIsStratification
    VerifiedCompiles
    OutputsAreMeaning
    WeightsCountDerivations
    BackendsAgree
CHECK_DEADLOCK FALSE
