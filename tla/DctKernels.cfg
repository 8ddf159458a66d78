SPECIFICATION Spec
CONSTANTS
    NoTable = NoTable
    Sizes <- AllSizes
    Coded <- ScaledSizes
    Quant <- SkewedQuant
    Levels <- BothSigns
INVARIANTS
    TypeOK
    TableMatchesMethod
    InverseIsDct
    RecodingIsStable
CHECK_DEADLOCK FALSE
