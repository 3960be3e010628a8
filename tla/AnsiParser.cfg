CONSTANTS
    ESC = ESC
    NaN = NaN
    DoubleUnderline = FALSE
    Lines <- WellFormedLines
    MaxLines = 3
INIT Init
NEXT Next
CHECK_DEADLOCK FALSE
INVARIANTS
    TypeOK
    SpansTileLine
