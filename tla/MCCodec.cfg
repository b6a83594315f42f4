SPECIFICATION MCSpec
CONSTANTS
    Group = 7
    Width = 22
    HashSize = 2
    IntBits = 9
    Schema <- MCSchema
    RootPayload <- MCRootPayload
    Author <- MCAuthor
    Stamps <- MCStamps
    Rows <- MCRows
    MaxOps = 3
    DamagedOps = 2
INVARIANTS
    RoundTrip
    DamageDetected
    OneEncoding
CHECK_DEADLOCK FALSE
