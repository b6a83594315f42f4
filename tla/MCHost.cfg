SPECIFICATION Spec
CONSTANTS
    Statements <- MCStatements
    MaxLength = 4
    Rows <- MCRows
    MaxRows = 2
    Width = 2
    Checked = FALSE
INVARIANTS
    LexicalScoping
    RefusedIfUnbound
CHECK_DEADLOCK FALSE
