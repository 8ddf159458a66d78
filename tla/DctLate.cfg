SPECIFICATION Spec
CONSTANTS
    NoTable = NoTable
    Sizes <- AllSizes
    Coded <- ScaledSizes
    Quant <- SkewedQuant
    Levels <- BothSigns
INVARIANT ReadsZeroesAnyway
CHECK_DEADLOCK FALSE
