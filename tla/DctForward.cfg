SPECIFICATION Spec
CONSTANTS
    NoTable = NoTable
    Sizes <- MisscaledSizes
    Coded <- MisscaledSizes
    Quant <- SkewedQuant
    Levels <- BothSigns
INVARIANT RecodingIsStable
CHECK_DEADLOCK FALSE
