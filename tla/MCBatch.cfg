CONSTANTS
    KeyMax = 3
    NameOrder <- MCNameOrder
    Programs <- MCPrograms
    Catalogs <- MCCatalogs
    Executors <- MCExecutors
SPECIFICATION Spec
CHECK_DEADLOCK FALSE
INVARIANTS
    RuleOrderIrrelevant
    StrataSound
    ExecutorsAgree
    ResultIsMeaning
PROPERTIES
    ImplementsSemiNaive
