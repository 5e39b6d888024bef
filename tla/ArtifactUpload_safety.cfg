SPECIFICATION Spec
CONSTANTS
    a1 = a1
    a2 = a2
    splat = splat
    mesh = mesh
    alias = alias
    Attempts <- MCAttempts
    Paths <- MCPaths
    Keys <- MCKeys
    KeyOf <- MCKeyOf
    MaxPuts = 2
CHECK_DEADLOCK FALSE
SYMMETRY AttemptSymmetry
INVARIANTS
    TypeOK
    ReceiptNamesSavedItems
    SuccessReceiptIsCurrent
    SuccessReceiptIsComplete
    ConflictOnlyWithRival
    NotFoundOnlyAfterDelete
